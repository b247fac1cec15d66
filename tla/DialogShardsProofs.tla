------------------------- MODULE DialogShardsProofs -------------------------
(***************************************************************************)
(* Theorems about DialogShards, for any users, requests, replicas, shard   *)
(* numbers and bounds.                                                     *)
(***************************************************************************)
EXTENDS DialogShards, FiniteSetTheorems, TLAPS

(* What getShardID finds for the pair of a if it reads the master once.    *)
Resolve(a) ==
    IF shardMap[MinID(a)] # None THEN shardMap[MinID(a)]
    ELSE IF shardMap[MaxID(a)] # None THEN shardMap[MaxID(a)]
    ELSE Hash[Pair(a)]

(* The request uses the shard it has looked up.                            *)
LookedUp(a) == pc[a] \in {"table", "ok", "error"} /\ settled[a] # 0

(* A replica shows rows of shard_map, and only messages that were stored.  *)
ReplicasTyped ==
    /\ DOMAIN replica = Replicas
    /\ \A r \in Replicas :
         /\ \A u \in Users : replica[r].map[u] \in Shards \union {None}
         /\ \A k \in Tables : replica[r].rows[k] \subseteq rows[k]

(* A request that has not begun to look up is not settled, one between the *)
(* two queries has seen the present, and none has seen the future.         *)
SettledWhenLookedUp ==
    \A a \in Requests :
        /\ pc[a] \in {"idle", "saga", "min"} => settled[a] = 0
        /\ settled[a] <= changes + 1
        /\ pc[a] = "max" /\ settled[a] # 0 =>
             settled[a] = changes + 1 /\ InSync(a) /\ shardMap[MinID(a)] = None

(* A shard looked up since the last change is the one the map gives now.   *)
ShardIsCurrent ==
    \A a \in Requests :
        LookedUp(a) /\ settled[a] = changes + 1 => shard[a] = Resolve(a)

(* Shards of one pair looked up between the same two changes are the same. *)
ShardsAgree ==
    \A a, b \in Requests :
        /\ LookedUp(a) /\ LookedUp(b)
        /\ settled[a] = settled[b] /\ Pair(a) = Pair(b)
        => shard[a] = shard[b]

(* A message is in the table of its shard, once, put there by its request. *)
RowsPlaced ==
    \A k \in Tables : \A s \in rows[k] : pc[s] \in {"ok", "error"} /\ shard[s] = k

(* What a list must show is of its pair and stays on every replica.        *)
MustListStays ==
    \A l \in Lists : \A s \in mustList[l] :
        /\ Pair(s) = Pair(l)
        /\ s \in Stored
        /\ \A r \in Replicas : \E k \in Tables : s \in replica[r].rows[k]

(* How a request has ended, and what its client knows of it.               *)
EndsAccounted ==
    /\ \A s \in Sends :
         /\ client[s] \in {"idle", "post"} => pc[s] = "idle"
         /\ client[s] = "done" => pc[s] \in {"ok", "error", "panicked"}
         /\ client[s] = "notified" => s \in hit
         /\ pc[s] = "ok" => s \in Stored
         /\ pc[s] = "error" => s \in hit \/ shard[s] \notin Tables
         /\ pc[s] = "crashed" => s \in hit
    /\ \A s \in raised : pc[s] = "ok"

IInv ==
    /\ TypeOK
    /\ ReplicasTyped
    /\ SettledWhenLookedUp
    /\ ShardIsCurrent
    /\ ShardsAgree
    /\ RowsPlaced
    /\ MustListStays
    /\ ListComplete
    /\ EndsAccounted
-----------------------------------------------------------------------------
(* The smaller and the larger of a pair are of the pair.                   *)
LEMMA EndsOfPair ==
    ASSUME NEW a \in Requests
    PROVE  /\ MinID(a) \in Pair(a)
           /\ MaxID(a) \in Pair(a)
           /\ Pair(a) \subseteq Users
<1>1. From[a] \in Nat /\ To[a] \in Nat /\ Pair(a) \subseteq Users
  BY DialogShardsAssumption DEF Pair
<1>2. \E x \in Pair(a) : \A y \in Pair(a) : x =< y
  <2>1. CASE From[a] =< To[a]
    BY <1>1, <2>1 DEF Pair
  <2>2. CASE To[a] =< From[a]
    BY <1>1, <2>2 DEF Pair
  <2> QED
    BY <1>1, <2>1, <2>2
<1>3. \E x \in Pair(a) : \A y \in Pair(a) : x >= y
  <2>1. CASE From[a] =< To[a]
    BY <1>1, <2>1 DEF Pair
  <2>2. CASE To[a] =< From[a]
    BY <1>1, <2>2 DEF Pair
  <2> QED
    BY <1>1, <2>1, <2>2
<1>4. MinID(a) \in Pair(a)
  BY <1>2 DEF MinID, Min
<1>5. MaxID(a) \in Pair(a)
  BY <1>3 DEF MaxID, Max
<1> QED
  BY <1>1, <1>4, <1>5

(* Users of one pair have the same ends, and so the same shard now.        *)
LEMMA SamePairSameShard ==
    ASSUME NEW a \in Requests, NEW b \in Requests, Pair(a) = Pair(b)
    PROVE  Resolve(a) = Resolve(b)
<1>1. MinID(a) = MinID(b) /\ MaxID(a) = MaxID(b)
  BY DEF MinID, MaxID
<1> QED
  BY <1>1 DEF Resolve

LEMMA HashTyped ==
    ASSUME NEW a \in Requests
    PROVE  Hash[Pair(a)] \in Shards
  BY DialogShardsAssumption DEF Pair, Shards

(* A registration picks a table there is.                                  *)
LEMMA RegisteredShard ==
    ASSUME NEW u \in Users
    PROVE  u % ShardCount \in Shards
<1>1. u \in Nat /\ ShardCount \in Nat /\ ShardCount > 0
  BY DialogShardsAssumption
<1>2. u % ShardCount \in 0 .. ShardCount - 1
  BY <1>1, SMTT(30)
<1> QED
  BY <1>2 DEF Shards, Tables

LEMMA Bounded ==
    ASSUME TypeOK, NEW a \in Requests, Hit(a)
    PROVE  hit' \subseteq Requests /\ Cardinality(hit') <= MaxHit
  BY DEF Hit, TypeOK

LEMMA InitHolds == Init => IInv
<1> SUFFICES ASSUME Init PROVE IInv
  OBVIOUS
<1> USE DialogShardsAssumption
<1>1. Cardinality({}) = 0
  BY FS_EmptySet
<1>2. TypeOK
  <2>1. 0 \in Shards
    BY DEF Shards, Numbers
  <2> QED
    BY <1>1, <2>1 DEF Init, TypeOK
<1>3. ReplicasTyped /\ RowsPlaced
  BY DEF Init, ReplicasTyped, RowsPlaced
<1>4. SettledWhenLookedUp
  BY DEF Init, SettledWhenLookedUp
<1>5. ShardIsCurrent /\ ShardsAgree
  BY DEF Init, ShardIsCurrent, ShardsAgree, LookedUp
<1>6. MustListStays /\ ListComplete
  BY DEF Init, MustListStays, ListComplete, Requests
<1>7. EndsAccounted
  BY DEF Init, EndsAccounted, Requests
<1> QED
  BY <1>2, <1>3, <1>4, <1>5, <1>6, <1>7 DEF IInv
-----------------------------------------------------------------------------
(* What is not touched stays: a step that neither stores, looks up, lists  *)
(* nor changes a map.                                                      *)
LEMMA Untouched ==
    ASSUME IInv, UNCHANGED <<storeVars, pc, shard, listed, settled, mustList>>
    PROVE  /\ ReplicasTyped' /\ SettledWhenLookedUp' /\ ShardIsCurrent'
           /\ ShardsAgree' /\ RowsPlaced' /\ MustListStays' /\ ListComplete'
<1>1. ReplicasTyped' /\ RowsPlaced'
  BY DEF IInv, storeVars, ReplicasTyped, RowsPlaced
<1>2. SettledWhenLookedUp'
  BY DEF IInv, storeVars, SettledWhenLookedUp, InSync
<1>3. ShardIsCurrent' /\ ShardsAgree'
  BY DEF IInv, storeVars, ShardIsCurrent, ShardsAgree, LookedUp, Resolve
<1>4. MustListStays'
  BY DEF IInv, storeVars, MustListStays, Stored
<1>5. ListComplete'
  BY DEF IInv, ListComplete
<1> QED
  BY <1>1, <1>2, <1>3, <1>4, <1>5

(* A request that moves on, and does nothing else of the kind, keeps what  *)
(* is said of shards, if it has not ended and the move is not a look-up.   *)
LEMMA Moves ==
    ASSUME IInv, NEW a \in Requests, NEW step, GoTo(a, step),
           UNCHANGED <<storeVars, shard, settled>>,
           pc[a] \notin {"ok", "error"}, step # "max",
           step \in {"idle", "saga", "min", "ok", "error", "table"} =>
               pc[a] = "table" \/ settled[a] = 0,
           step \in {"idle", "saga", "min"} => settled[a] = 0
    PROVE  /\ ReplicasTyped' /\ SettledWhenLookedUp' /\ ShardIsCurrent'
           /\ ShardsAgree' /\ RowsPlaced'
<1>1. /\ pc' = [pc EXCEPT ![a] = step]
      /\ DOMAIN pc = Requests
      /\ UNCHANGED <<shardMap, rows, replica, changes>>
  BY DEF GoTo, IInv, TypeOK, storeVars
<1>2. \A b \in Requests : LookedUp(b)' => LookedUp(b)
  BY <1>1 DEF LookedUp
<1>3. ReplicasTyped'
  BY <1>1 DEF IInv, ReplicasTyped
<1>4. RowsPlaced'
  <2> SUFFICES ASSUME NEW k \in Tables, NEW s \in rows[k]
               PROVE  pc'[s] \in {"ok", "error"} /\ shard[s] = k
    BY <1>1 DEF RowsPlaced
  <2>1. pc[s] \in {"ok", "error"} /\ shard[s] = k
    BY DEF IInv, RowsPlaced
  <2> QED
    BY <2>1, <1>1
<1>5. SettledWhenLookedUp'
  BY <1>1 DEF IInv, SettledWhenLookedUp, InSync
<1>6. ShardIsCurrent'
  BY <1>1, <1>2 DEF IInv, ShardIsCurrent, Resolve
<1>7. ShardsAgree'
  BY <1>1, <1>2 DEF IInv, ShardsAgree
<1> QED
  BY <1>3, <1>4, <1>5, <1>6, <1>7

(* The same of what lists have read and have to show.                      *)
LEMMA ListsUntouched ==
    ASSUME IInv, NEW a \in Requests, NEW step, GoTo(a, step),
           UNCHANGED <<storeVars, settled, listed, mustList>>,
           a \in Lists => step # "ok"
    PROVE  MustListStays' /\ ListComplete'
<1>1. MustListStays'
  BY DEF IInv, storeVars, MustListStays, Stored
<1>2. \A l \in Lists : pc'[l] = "ok" => pc[l] = "ok"
  BY DEF IInv, TypeOK, GoTo
<1>3. ListComplete'
  BY <1>2 DEF IInv, ListComplete
<1> QED
  BY <1>1, <1>3

-----------------------------------------------------------------------------
(* One lemma per action: a step keeps IInv.                                *)
LEMMA SendPublicStep ==
    ASSUME IInv, NEW s \in Sends, SendPublic(s)
    PROVE  IInv'
<1>1. TypeOK'
  BY DEF IInv, TypeOK, SendPublic, storeVars
<1>2. EndsAccounted'
  BY DEF IInv, TypeOK, EndsAccounted, SendPublic, storeVars, Stored
<1> QED
  BY <1>1, <1>2, Untouched DEF SendPublic, IInv

LEMMA PostStep ==
    ASSUME IInv, NEW s \in Sends, Post(s)
    PROVE  IInv'
<1>a. s \in Requests /\ s \notin Lists /\ pc[s] = "idle" /\ settled[s] = 0
  BY DialogShardsAssumption
     DEF Requests, IInv, EndsAccounted, SettledWhenLookedUp, Post
<1>1. CASE GoTo(s, "saga") /\ Clean /\ client' = [client EXCEPT ![s] = "wait"]
  <2>1. TypeOK'
    BY <1>1 DEF IInv, TypeOK, Post, storeVars, GoTo, Clean
  <2>2. EndsAccounted'
    BY <1>1, <1>a DEF IInv, TypeOK, EndsAccounted, Post, storeVars, Stored, GoTo, Clean
  <2>3. /\ ReplicasTyped' /\ SettledWhenLookedUp' /\ ShardIsCurrent'
        /\ ShardsAgree' /\ RowsPlaced'
    BY <1>1, <1>a, Moves DEF Post
  <2>4. MustListStays' /\ ListComplete'
    BY <1>1, <1>a, ListsUntouched DEF Post
  <2> QED
    BY <2>1, <2>2, <2>3, <2>4 DEF IInv
<1>2. CASE UNCHANGED pc /\ Hit(s) /\ client' = [client EXCEPT ![s] = "notified"]
  <2>1. TypeOK'
    BY <1>2, <1>a, Bounded DEF IInv, TypeOK, Post, storeVars
  <2>2. EndsAccounted'
    BY <1>2 DEF IInv, TypeOK, EndsAccounted, Post, storeVars, Stored, Hit
  <2> QED
    BY <1>2, <2>1, <2>2, Untouched DEF Post, IInv
<1> QED
  BY <1>1, <1>2 DEF Post

LEMMA AnswerStep ==
    ASSUME IInv, NEW s \in Sends, Answer(s)
    PROVE  IInv'
<1>1. TypeOK'
  BY DEF IInv, TypeOK, Answer, storeVars
<1>2. EndsAccounted'
  BY DEF IInv, TypeOK, EndsAccounted, Answer, storeVars, Stored
<1> QED
  BY <1>1, <1>2, Untouched DEF Answer, IInv

LEMMA TimeOutStep ==
    ASSUME IInv, NEW s \in Sends, TimeOut(s)
    PROVE  IInv'
<1>1. TypeOK'
  BY Bounded DEF IInv, TypeOK, TimeOut, storeVars, Requests
<1>2. EndsAccounted'
  BY DEF IInv, TypeOK, EndsAccounted, TimeOut, storeVars, Stored, Hit
<1> QED
  BY <1>1, <1>2, Untouched DEF TimeOut, IInv

LEMMA BackendDiesStep ==
    ASSUME IInv, NEW s \in Sends, BackendDies(s)
    PROVE  IInv'
<1>1. TypeOK'
  BY Bounded DEF IInv, TypeOK, BackendDies, storeVars, Requests
<1>2. EndsAccounted'
  BY DEF IInv, TypeOK, EndsAccounted, BackendDies, storeVars, Stored, Hit
<1> QED
  BY <1>1, <1>2, Untouched DEF BackendDies, IInv

LEMMA RaiseStep ==
    ASSUME IInv, NEW s \in Sends, RaiseUnreadDialogs(s)
    PROVE  IInv'
<1>1. TypeOK'
  BY DEF IInv, TypeOK, RaiseUnreadDialogs, storeVars
<1>2. EndsAccounted'
  BY DEF IInv, TypeOK, EndsAccounted, RaiseUnreadDialogs, storeVars, Stored
<1> QED
  BY <1>1, <1>2, Untouched DEF RaiseUnreadDialogs, IInv

LEMMA RunSagaStep ==
    ASSUME IInv, NEW s \in Sends, RunSaga(s)
    PROVE  IInv'
<1>a. s \in Requests /\ s \notin Lists /\ pc[s] = "saga" /\ settled[s] = 0
  BY DialogShardsAssumption
     DEF Requests, IInv, SettledWhenLookedUp, RunSaga
<1>1. PICK step \in {"min", "error", "panicked"} :
        GoTo(s, step) /\ IF step = "error" THEN Hit(s) ELSE Clean
  BY DEF RunSaga
<1>2. TypeOK'
  BY <1>1, <1>a, Bounded DEF IInv, TypeOK, RunSaga, storeVars, GoTo, Clean
<1>3. EndsAccounted'
  BY <1>1, <1>a
     DEF IInv, TypeOK, EndsAccounted, RunSaga, storeVars, Stored, GoTo, Clean, Hit
<1>4. /\ ReplicasTyped' /\ SettledWhenLookedUp' /\ ShardIsCurrent'
      /\ ShardsAgree' /\ RowsPlaced'
  BY <1>1, <1>a, Moves DEF RunSaga
<1>5. MustListStays' /\ ListComplete'
  BY <1>1, <1>a, ListsUntouched DEF RunSaga
<1> QED
  BY <1>2, <1>3, <1>4, <1>5 DEF IInv

LEMMA BeginListStep ==
    ASSUME IInv, NEW l \in Lists, BeginList(l)
    PROVE  IInv'
<1>a. l \in Requests /\ l \notin Sends /\ pc[l] = "idle" /\ settled[l] = 0
  BY DialogShardsAssumption
     DEF Requests, IInv, SettledWhenLookedUp, BeginList
<1>b. GoTo(l, "min") /\ UNCHANGED <<storeVars, client, shard, listed, raised, settled, hit>>
  BY DEF BeginList
<1>c. pc' = [pc EXCEPT ![l] = "min"] /\ pc \in [Requests -> {"idle", "saga", "min",
        "max", "table", "ok", "error", "panicked", "crashed"}]
  BY <1>b DEF GoTo, IInv, TypeOK
<1>d. UNCHANGED <<shardMap, rows, replica, changes>>
  BY <1>b DEF storeVars
<1>1. TypeOK'
  <2>1. Stored \subseteq Sends
    BY DEF IInv, TypeOK, Stored
  <2>2. mustList' \in [Lists -> SUBSET Sends]
    BY <2>1 DEF IInv, TypeOK, BeginList
  <2> QED
    BY <2>2, <1>a, <1>b, <1>c, <1>d DEF IInv, TypeOK
<1>2. EndsAccounted'
  BY <1>a, <1>b, <1>c, <1>d DEF IInv, EndsAccounted, Stored
<1>3. /\ ReplicasTyped' /\ SettledWhenLookedUp' /\ ShardIsCurrent'
      /\ ShardsAgree' /\ RowsPlaced'
  BY <1>a, <1>b, Moves
<1>4. \A k \in Lists : k # l => mustList'[k] = mustList[k] /\ pc'[k] = pc[k]
  BY <1>c DEF BeginList, IInv, TypeOK
<1>5. MustListStays'
  <2> SUFFICES ASSUME NEW k \in Lists, NEW s \in mustList'[k]
               PROVE  /\ Pair(s) = Pair(k)
                      /\ s \in Stored
                      /\ \A r \in Replicas : \E i \in Tables : s \in replica[r].rows[i]
    BY <1>d DEF MustListStays, Stored
  <2>1. CASE k = l
    BY <2>1 DEF BeginList, IInv, TypeOK
  <2>2. CASE k # l
    BY <2>2, <1>4 DEF IInv, MustListStays
  <2> QED
    BY <2>1, <2>2
<1>6. ListComplete'
  BY <1>4, <1>a, <1>b, <1>c DEF IInv, ListComplete
<1> QED
  BY <1>1, <1>2, <1>3, <1>5, <1>6 DEF IInv

LEMMA ListMessagesStep ==
    ASSUME IInv, NEW l \in Lists, ListMessages(l)
    PROVE  IInv'
<1>a. l \in Requests /\ l \notin Sends /\ pc[l] = "table"
  BY DialogShardsAssumption DEF Requests, ListMessages
<1>b. UNCHANGED <<storeVars, client, shard, raised, settled, mustList>>
  BY DEF ListMessages
<1>c. UNCHANGED <<shardMap, rows, replica, changes>>
  BY <1>b DEF storeVars
<1>d. PICK step \in {"ok", "error"} : GoTo(l, step)
  BY DEF ListMessages
<1>e. pc' = [pc EXCEPT ![l] = step] /\ pc \in [Requests -> {"idle", "saga", "min",
        "max", "table", "ok", "error", "panicked", "crashed"}]
  BY <1>d DEF GoTo, IInv, TypeOK
<1>1. TypeOK'
  <2>1. listed' \in [Lists -> SUBSET Sends]
    BY DEF ListMessages, IInv, TypeOK, ReplicasTyped
  <2>2. hit' \subseteq Requests /\ Cardinality(hit') <= MaxHit
    BY <1>a, Bounded DEF ListMessages, IInv, TypeOK, Clean
  <2> QED
    BY <2>1, <2>2, <1>a, <1>b, <1>c, <1>e DEF IInv, TypeOK
<1>2. EndsAccounted'
  <2>1. hit \subseteq hit'
    BY DEF ListMessages, Clean, Hit
  <2> QED
    BY <2>1, <1>a, <1>b, <1>c, <1>e DEF IInv, TypeOK, EndsAccounted, Stored
<1>3. /\ ReplicasTyped' /\ SettledWhenLookedUp' /\ ShardIsCurrent'
      /\ ShardsAgree' /\ RowsPlaced'
  BY <1>a, <1>b, <1>d, Moves
<1>4. MustListStays'
  BY <1>b, <1>c DEF IInv, MustListStays, Stored
<1>5. ListComplete'
  <2> SUFFICES ASSUME NEW k \in Lists, NEW s \in mustList[k], pc'[k] = "ok",
                      settled[k] = settled[s], settled[k] # 0
               PROVE  s \in listed'[k]
    BY <1>b DEF ListComplete
  <2>1. CASE k # l
    <3>1. pc[k] = "ok" /\ listed'[k] = listed[k]
      BY <2>1, <1>e DEF ListMessages, IInv, TypeOK, Requests
    <3> QED
      BY <3>1 DEF IInv, ListComplete
  <2>2. CASE k = l
    <3>1. PICK r \in Replicas :
            listed' = [listed EXCEPT ![l] = {t \in replica[r].rows[shard[l]] : Pair(t) = Pair(l)}]
      <4>1. GoTo(l, "ok") \/ GoTo(l, "error")
        BY <1>d
      <4>2. ~ GoTo(l, "error")
        BY <2>2, <1>a DEF GoTo, IInv, TypeOK
      <4> QED
        BY <4>2 DEF ListMessages
    <3>2. PICK i \in Tables : s \in replica[r].rows[i]
      BY <2>2 DEF IInv, MustListStays
    <3>3. s \in rows[i]
      BY <3>2 DEF IInv, ReplicasTyped
    <3>4. pc[s] \in {"ok", "error"} /\ shard[s] = i
      BY <3>3 DEF IInv, RowsPlaced
    <3>5. s \in Requests
      BY DEF IInv, TypeOK, Requests
    <3>6. Pair(s) = Pair(l)
      BY <2>2 DEF IInv, MustListStays
    <3>7. shard[l] = i
      BY <3>4, <3>5, <3>6, <2>2, <1>a DEF IInv, ShardsAgree, LookedUp
    <3> QED
      BY <3>1, <3>2, <3>6, <3>7, <2>2 DEF IInv, TypeOK
  <2> QED
    BY <2>1, <2>2
<1> QED
  BY <1>1, <1>2, <1>3, <1>4, <1>5 DEF IInv

LEMMA DialogsDiesStep ==
    ASSUME IInv, NEW a \in Requests, DialogsDies(a)
    PROVE  IInv'
<1>a. GoTo(a, "crashed") /\ pc[a] \in {"saga", "min", "max", "table"} /\ Hit(a)
  BY DEF DialogsDies
<1>1. TypeOK'
  BY <1>a, Bounded DEF IInv, TypeOK, DialogsDies, storeVars, GoTo
<1>2. EndsAccounted'
  BY <1>a DEF IInv, TypeOK, EndsAccounted, DialogsDies, storeVars, Stored, GoTo, Hit
<1>3. /\ ReplicasTyped' /\ SettledWhenLookedUp' /\ ShardIsCurrent'
      /\ ShardsAgree' /\ RowsPlaced'
  BY <1>a, Moves DEF DialogsDies
<1>4. MustListStays' /\ ListComplete'
  BY <1>a, ListsUntouched DEF DialogsDies
<1> QED
  BY <1>1, <1>2, <1>3, <1>4 DEF IInv

(* A query of getShardID: what has to hold of the shard it leaves behind.  *)
LEMMA LookUp ==
    ASSUME IInv, NEW a \in Requests, pc[a] \in {"min", "max"},
           NEW step \in {"max", "table"}, GoTo(a, step), Clean \/ Hit(a),
           UNCHANGED <<storeVars, client, listed, raised, mustList>>,
           NEW k \in Shards, shard' = [shard EXCEPT ![a] = k],
           NEW n \in {0, changes + 1}, settled' = [settled EXCEPT ![a] = n],
           step = "table" /\ n # 0 => k = Resolve(a),
           step = "max" /\ n # 0 => InSync(a) /\ shardMap[MinID(a)] = None
    PROVE  IInv'
<1>a. UNCHANGED <<shardMap, rows, replica, changes>>
  BY DEF storeVars
<1>b. /\ pc' = [pc EXCEPT ![a] = step]
      /\ pc \in [Requests -> {"idle", "saga", "min", "max", "table", "ok", "error",
                              "panicked", "crashed"}]
      /\ shard \in [Requests -> Shards]
      /\ settled \in [Requests -> 0..(MaxChanges + 1)]
      /\ changes \in 0..MaxChanges
  BY DEF GoTo, IInv, TypeOK
<1>c. \A b \in Requests : b # a => /\ pc'[b] = pc[b]
                                  /\ shard'[b] = shard[b]
                                  /\ settled'[b] = settled[b]
  BY <1>b
<1>d. pc'[a] = step /\ shard'[a] = k /\ settled'[a] = n
  BY <1>b
<1>1. TypeOK'
  <2>1. hit' \subseteq Requests /\ Cardinality(hit') <= MaxHit
    BY Bounded DEF IInv, TypeOK, Clean
  <2>2. n \in 0..(MaxChanges + 1)
    BY <1>b, DialogShardsAssumption
  <2>3. settled' \in [Requests -> 0..(MaxChanges + 1)] /\ shard' \in [Requests -> Shards]
    BY <1>b, <2>2
  <2> QED
    BY <1>a, <1>b, <2>1, <2>3 DEF IInv, TypeOK
<1>2. ReplicasTyped'
  BY <1>a DEF IInv, ReplicasTyped
<1>3. SettledWhenLookedUp'
  <2> SUFFICES ASSUME NEW b \in Requests
               PROVE  /\ pc'[b] \in {"idle", "saga", "min"} => settled'[b] = 0
                      /\ settled'[b] <= changes + 1
                      /\ pc'[b] = "max" /\ settled'[b] # 0 =>
                           settled'[b] = changes + 1 /\ InSync(b) /\ shardMap[MinID(b)] = None
    BY <1>a DEF SettledWhenLookedUp, InSync
  <2>1. CASE b = a
    BY <2>1, <1>b, <1>d
  <2>2. CASE b # a
    BY <2>2, <1>c DEF IInv, SettledWhenLookedUp
  <2> QED
    BY <2>1, <2>2
<1>4. ShardIsCurrent'
  <2> SUFFICES ASSUME NEW b \in Requests, LookedUp(b)', settled'[b] = changes + 1
               PROVE  shard'[b] = Resolve(b)
    BY <1>a DEF ShardIsCurrent, Resolve
  <2>1. CASE b = a
    BY <2>1, <1>d DEF LookedUp
  <2>2. CASE b # a
    BY <2>2, <1>c DEF IInv, ShardIsCurrent, LookedUp
  <2> QED
    BY <2>1, <2>2
<1>5. ShardsAgree'
  <2>1. ASSUME NEW b \in Requests, LookedUp(a)', LookedUp(b)', settled'[b] = n,
               Pair(a) = Pair(b)
        PROVE  shard'[b] = k
    <3>1. n = changes + 1
      BY <2>1, <1>d DEF LookedUp
    <3>2. Resolve(b)' = Resolve(b) /\ Resolve(a)' = Resolve(a)
      BY <1>a DEF Resolve
    <3>3. shard'[b] = Resolve(b)
      BY <1>4, <1>a, <2>1, <3>1, <3>2 DEF ShardIsCurrent
    <3>4. k = Resolve(a)
      BY <1>d, <2>1 DEF LookedUp
    <3> QED
      BY <3>3, <3>4, <2>1, SamePairSameShard
  <2> SUFFICES ASSUME NEW b \in Requests, NEW c \in Requests, LookedUp(b)', LookedUp(c)',
                      settled'[b] = settled'[c], Pair(b) = Pair(c)
               PROVE  shard'[b] = shard'[c]
    BY DEF ShardsAgree
  <2>2. CASE b = a
    BY <2>1, <2>2, <1>d
  <2>3. CASE c = a
    BY <2>1, <2>3, <1>d
  <2>4. CASE b # a /\ c # a
    BY <2>4, <1>c DEF IInv, ShardsAgree, LookedUp
  <2> QED
    BY <2>2, <2>3, <2>4
<1>6. RowsPlaced'
  <2> SUFFICES ASSUME NEW i \in Tables, NEW s \in rows[i]
               PROVE  pc'[s] \in {"ok", "error"} /\ shard'[s] = i
    BY <1>a DEF RowsPlaced
  <2>1. pc[s] \in {"ok", "error"} /\ shard[s] = i /\ s \in Requests
    BY DEF IInv, RowsPlaced, TypeOK, Requests
  <2> QED
    BY <2>1, <1>c
<1>7. MustListStays'
  BY <1>a DEF IInv, MustListStays, Stored
<1>8. ListComplete'
  <2> SUFFICES ASSUME NEW l \in Lists, NEW s \in mustList[l], pc'[l] = "ok",
                      settled'[l] = settled'[s], settled'[l] # 0
               PROVE  s \in listed[l]
    BY DEF ListComplete
  <2>1. l \in Requests /\ l # a /\ pc[l] = "ok" /\ settled'[l] = settled[l]
    BY <1>c, <1>d DEF Requests
  <2>2. PICK i \in Tables : s \in rows[i]
    BY DEF IInv, MustListStays, Stored
  <2>3. pc[s] \in {"ok", "error"} /\ s \in Requests
    BY <2>2 DEF IInv, RowsPlaced, TypeOK, Requests
  <2>4. settled'[s] = settled[s]
    BY <2>3, <1>c
  <2> QED
    BY <2>1, <2>4 DEF IInv, ListComplete
<1>9. EndsAccounted'
  <2>1. hit \subseteq hit' /\ Stored' = Stored
    BY <1>a DEF Clean, Hit, Stored
  <2> SUFFICES ASSUME NEW s \in Sends
               PROVE  /\ client[s] \in {"idle", "post"} => pc'[s] = "idle"
                      /\ client[s] = "done" => pc'[s] \in {"ok", "error", "panicked"}
                      /\ client[s] = "notified" => s \in hit'
                      /\ pc'[s] = "ok" => s \in Stored'
                      /\ pc'[s] = "error" => s \in hit' \/ shard'[s] \notin Tables
                      /\ pc'[s] = "crashed" => s \in hit'
                      /\ s \in raised => pc'[s] = "ok"
    BY DEF EndsAccounted, IInv, TypeOK
  <2>2. CASE s = a
    BY <2>1, <2>2, <1>d DEF IInv, EndsAccounted
  <2>3. CASE s # a
    BY <2>1, <2>3, <1>c DEF IInv, EndsAccounted, Requests
  <2> QED
    BY <2>2, <2>3
<1> QED
  BY <1>1, <1>2, <1>3, <1>4, <1>5, <1>6, <1>7, <1>8, <1>9 DEF IInv

LEMMA LookUpMinStep ==
    ASSUME IInv, NEW a \in Requests, LookUpMin(a)
    PROVE  IInv'
<1>a. /\ pc[a] = "min" /\ settled[a] = 0
      /\ UNCHANGED <<storeVars, client, listed, raised, mustList>>
      /\ shard[a] \in Shards /\ changes + 1 # 0
      /\ shard = [shard EXCEPT ![a] = shard[a]]
      /\ settled = [settled EXCEPT ![a] = 0]
  BY DialogShardsAssumption DEF LookUpMin, IInv, TypeOK, SettledWhenLookedUp
<1>b. MinID(a) \in Pair(a) /\ MinID(a) \in Users
  BY EndsOfPair
<1>1. CASE GoTo(a, "max") /\ Hit(a) /\ UNCHANGED <<shard, settled>>
  <2>1. /\ shard' = [shard EXCEPT ![a] = shard[a]]
        /\ settled' = [settled EXCEPT ![a] = 0]
    BY <1>1, <1>a
  <2> QED
    BY <1>1, <1>a, <2>1, LookUp
<1>2. ASSUME NEW r \in Replicas, NEW k, k = replica[r].map[MinID(a)],
             GoTo(a, IF k = None THEN "max" ELSE "table"),
             shard' = (IF k = None THEN shard ELSE [shard EXCEPT ![a] = k]),
             settled' = [settled EXCEPT ![a] = IF InSync(a) THEN changes + 1 ELSE 0],
             Clean
      PROVE  IInv'
  <2>1. k \in Shards \union {None}
    BY <1>2, <1>b DEF IInv, ReplicasTyped
  <2>2. InSync(a) => k = shardMap[MinID(a)]
    BY <1>2, <1>b DEF InSync
  <2> DEFINE n == IF InSync(a) THEN changes + 1 ELSE 0
  <2>3. n \in {0, changes + 1} /\ (n # 0 => InSync(a))
    OBVIOUS
  <2>4. settled' = [settled EXCEPT ![a] = n]
    BY <1>2
  <2> HIDE DEF n
  <2>5. CASE k = None
    <3>1. shard' = [shard EXCEPT ![a] = shard[a]] /\ GoTo(a, "max")
      BY <1>2, <1>a, <2>5
    <3> QED
      BY <1>2, <1>a, <2>2, <2>3, <2>4, <2>5, <3>1, LookUp
  <2>6. CASE k # None
    <3>1. shard' = [shard EXCEPT ![a] = k] /\ GoTo(a, "table") /\ k \in Shards
      BY <1>2, <2>1, <2>6
    <3>2. n # 0 => k = Resolve(a)
      BY <2>2, <2>3, <2>6 DEF Resolve
    <3> QED
      BY <1>2, <1>a, <2>3, <2>4, <3>1, <3>2, LookUp
  <2> QED
    BY <2>5, <2>6
<1> QED
  BY <1>1, <1>2 DEF LookUpMin

LEMMA LookUpMaxStep ==
    ASSUME IInv, NEW a \in Requests, LookUpMax(a)
    PROVE  IInv'
<1>a. /\ pc[a] = "max" /\ GoTo(a, "table")
      /\ UNCHANGED <<storeVars, client, listed, raised, mustList>>
      /\ settled = [settled EXCEPT ![a] = settled[a]]
  BY DEF LookUpMax, IInv, TypeOK
<1>b. /\ settled[a] \in {0, changes + 1}
      /\ settled[a] # 0 => InSync(a) /\ shardMap[MinID(a)] = None
  BY <1>a DEF IInv, SettledWhenLookedUp
<1>c. MaxID(a) \in Pair(a) /\ MaxID(a) \in Users /\ Hash[Pair(a)] \in Shards
  BY EndsOfPair, HashTyped
<1>1. CASE /\ shard' = [shard EXCEPT ![a] = Hash[Pair(a)]]
           /\ settled' = [settled EXCEPT ![a] = 0] /\ Hit(a)
  BY <1>1, <1>a, <1>c, LookUp
<1>2. ASSUME NEW r \in Replicas, NEW m, m = replica[r].map[MaxID(a)],
             shard' = [shard EXCEPT ![a] = IF m = None THEN Hash[Pair(a)] ELSE m],
             UNCHANGED settled, Clean
      PROVE  IInv'
  <2> DEFINE k == IF m = None THEN Hash[Pair(a)] ELSE m
  <2>1. k \in Shards
    BY <1>2, <1>c DEF IInv, ReplicasTyped
  <2>2. settled[a] # 0 => k = Resolve(a)
    BY <1>2, <1>b, <1>c DEF InSync, Resolve
  <2>3. shard' = [shard EXCEPT ![a] = k] /\ settled' = [settled EXCEPT ![a] = settled[a]]
    BY <1>2, <1>a
  <2> HIDE DEF k
  <2> QED
    BY <1>2, <1>a, <1>b, <2>1, <2>2, <2>3, LookUp
<1> QED
  BY <1>1, <1>2 DEF LookUpMax

LEMMA InsertMessageStep ==
    ASSUME IInv, NEW s \in Sends, InsertMessage(s)
    PROVE  IInv'
<1>a. s \in Requests /\ s \notin Lists /\ pc[s] = "table"
  BY DialogShardsAssumption DEF Requests, InsertMessage
<1>b. UNCHANGED <<shardMap, replica, changes, client, shard, listed, raised,
                  settled, mustList>>
  BY DEF InsertMessage
<1>c. PICK step \in {"ok", "error"} : GoTo(s, step)
  BY DEF InsertMessage
<1>d. pc' = [pc EXCEPT ![s] = step] /\ pc \in [Requests -> {"idle", "saga", "min",
        "max", "table", "ok", "error", "panicked", "crashed"}]
  BY <1>c DEF GoTo, IInv, TypeOK
<1>e. \/ rows' = rows
      \/ shard[s] \in Tables /\ rows' = [rows EXCEPT ![shard[s]] = @ \union {s}]
  BY DEF InsertMessage
<1>f. rows \in [Tables -> SUBSET Sends] /\ \A k \in Tables : rows[k] \subseteq rows'[k]
  BY <1>e DEF IInv, TypeOK
<1>1. TypeOK'
  <2>1. hit' \subseteq Requests /\ Cardinality(hit') <= MaxHit
    BY <1>a, Bounded DEF InsertMessage, IInv, TypeOK, Clean
  <2>2. rows' \in [Tables -> SUBSET Sends]
    BY <1>e, <1>f
  <2>3. \A r \in Replicas : \A k \in Tables : replica[r].rows[k] \subseteq rows'[k]
    BY <1>f DEF IInv, TypeOK
  <2> QED
    BY <2>1, <2>2, <2>3, <1>b, <1>d DEF IInv, TypeOK
<1>2. ReplicasTyped'
  BY <1>b, <1>f DEF IInv, ReplicasTyped
<1>3. \A b \in Requests : LookedUp(b)' => LookedUp(b)
  BY <1>a, <1>b, <1>d DEF LookedUp
<1>4. SettledWhenLookedUp'
  BY <1>b, <1>d DEF IInv, SettledWhenLookedUp, InSync
<1>5. ShardIsCurrent' /\ ShardsAgree'
  BY <1>b, <1>3 DEF IInv, ShardIsCurrent, ShardsAgree, Resolve
<1>6. RowsPlaced'
  <2> SUFFICES ASSUME NEW k \in Tables, NEW t \in rows'[k]
               PROVE  pc'[t] \in {"ok", "error"} /\ shard[t] = k
    BY <1>b DEF RowsPlaced
  <2>1. CASE t = s /\ t \notin rows[k]
    BY <2>1, <1>a, <1>d, <1>e, <1>f
  <2>2. CASE t \in rows[k]
    <3>1. pc[t] \in {"ok", "error"} /\ shard[t] = k
      BY <2>2 DEF IInv, RowsPlaced
    <3> QED
      BY <3>1, <1>d
  <2> QED
    BY <2>1, <2>2, <1>e, <1>f
<1>g. Stored \subseteq Stored'
  BY <1>f DEF Stored
<1>7. MustListStays'
  BY <1>b, <1>g DEF IInv, MustListStays
<1>8. ListComplete'
  <2>1. \A l \in Lists : pc'[l] = "ok" => pc[l] = "ok"
    BY <1>a, <1>d DEF Requests
  <2> QED
    BY <2>1, <1>b DEF IInv, ListComplete
<1>9. EndsAccounted'
  <2>1. hit \subseteq hit'
    BY DEF InsertMessage, Clean, Hit
  <2>2. step = "ok" => s \in Stored'
    <3> SUFFICES ASSUME step = "ok" PROVE s \in Stored'
      OBVIOUS
    <3>1. ~ GoTo(s, "error")
      BY <1>a, <1>d DEF GoTo
    <3>2. PICK o \in DbOutcomes :
            /\ shard[s] \in Tables
            /\ rows' = IF o = "refused" THEN rows
                       ELSE [rows EXCEPT ![shard[s]] = @ \union {s}]
            /\ GoTo(s, IF o = "ok" THEN "ok" ELSE "error")
      BY <3>1 DEF InsertMessage
    <3>3. o = "ok"
      BY <3>1, <3>2
    <3>4. s \in rows'[shard[s]]
      BY <3>2, <3>3, <1>f
    <3> QED
      BY <3>2, <3>4 DEF Stored
  <2>3. step = "error" => s \in hit' \/ shard[s] \notin Tables
    <3> SUFFICES ASSUME step = "error", shard[s] \in Tables PROVE s \in hit'
      OBVIOUS
    <3>1. ~ GoTo(s, "ok")
      BY <1>a, <1>d DEF GoTo
    <3>2. Hit(s)
      BY <3>1 DEF InsertMessage
    <3> QED
      BY <3>2 DEF Hit
  <2> SUFFICES ASSUME NEW t \in Sends
               PROVE  /\ client[t] \in {"idle", "post"} => pc'[t] = "idle"
                      /\ client[t] = "done" => pc'[t] \in {"ok", "error", "panicked"}
                      /\ client[t] = "notified" => t \in hit'
                      /\ pc'[t] = "ok" => t \in Stored'
                      /\ pc'[t] = "error" => t \in hit' \/ shard[t] \notin Tables
                      /\ pc'[t] = "crashed" => t \in hit'
                      /\ t \in raised => pc'[t] = "ok"
    BY <1>b DEF EndsAccounted, IInv, TypeOK
  <2>4. CASE t = s
    BY <2>1, <2>2, <2>3, <2>4, <1>a, <1>d DEF IInv, EndsAccounted
  <2>5. CASE t # s
    BY <2>1, <2>5, <1>d, <1>g DEF IInv, EndsAccounted
  <2> QED
    BY <2>4, <2>5
<1> QED
  BY <1>1, <1>2, <1>4, <1>5, <1>6, <1>7, <1>8, <1>9 DEF IInv

LEMMA ChangeMapStep ==
    ASSUME IInv, NEW u \in Users, NEW k \in Shards, ChangeMap(u, k)
    PROVE  IInv'
<1>a. /\ changes' = changes + 1 /\ changes < MaxChanges
      /\ shardMap' = [shardMap EXCEPT ![u] = k]
      /\ settled' = [b \in Requests |-> IF pc[b] = "max" THEN 0 ELSE settled[b]]
      /\ UNCHANGED <<rows, replica, client, pc, shard, listed, raised, mustList, hit>>
  BY DEF ChangeMap
<1>b. changes \in 0..MaxChanges /\ MaxChanges \in Nat
  BY DialogShardsAssumption DEF IInv, TypeOK
<1>c. \A b \in Requests : settled[b] \in Int /\ settled[b] <= changes + 1
  BY <1>b DEF IInv, TypeOK, SettledWhenLookedUp
<1>1. TypeOK'
  <2>1. settled' \in [Requests -> 0..(MaxChanges + 1)]
    BY <1>a, <1>b DEF IInv, TypeOK
  <2>2. changes' \in 0..MaxChanges
    BY <1>a, <1>b
  <2>3. shardMap' \in [Users -> Shards \union {None}]
    BY <1>a DEF IInv, TypeOK
  <2> QED
    BY <1>a, <2>1, <2>2, <2>3 DEF IInv, TypeOK
<1>2. ReplicasTyped' /\ RowsPlaced'
  BY <1>a DEF IInv, ReplicasTyped, RowsPlaced
<1>3. SettledWhenLookedUp'
  BY <1>a, <1>b, <1>c DEF IInv, SettledWhenLookedUp
<1>4. ShardIsCurrent'
  BY <1>a, <1>b, <1>c DEF ShardIsCurrent
<1>5. ShardsAgree'
  BY <1>a DEF IInv, ShardsAgree, LookedUp
<1>6. MustListStays'
  BY <1>a DEF IInv, MustListStays, Stored
<1>7. ListComplete'
  <2> SUFFICES ASSUME NEW l \in Lists, NEW s \in mustList[l], pc[l] = "ok",
                      settled'[l] = settled'[s], settled'[l] # 0
               PROVE  s \in listed[l]
    BY <1>a DEF ListComplete
  <2>1. PICK i \in Tables : s \in rows[i]
    BY DEF IInv, MustListStays, Stored
  <2>2. pc[s] \in {"ok", "error"} /\ s \in Requests /\ l \in Requests
    BY <2>1 DEF IInv, RowsPlaced, TypeOK, Requests
  <2>3. settled'[s] = settled[s] /\ settled'[l] = settled[l]
    BY <2>2, <1>a
  <2> QED
    BY <2>3 DEF IInv, ListComplete
<1>8. EndsAccounted'
  BY <1>a DEF IInv, EndsAccounted, Stored
<1> QED
  BY <1>1, <1>2, <1>3, <1>4, <1>5, <1>6, <1>7, <1>8 DEF IInv

LEMMA ReplicateStep ==
    ASSUME IInv, NEW r \in Replicas, Replicate(r)
    PROVE  IInv'
<1>a. /\ replica' = [replica EXCEPT ![r] = [map |-> shardMap, rows |-> rows]]
      /\ UNCHANGED <<shardMap, rows, changes, client, pc, shard, listed, raised,
                     settled, mustList, hit>>
  BY DEF Replicate
<1>b. DOMAIN replica' = Replicas
  BY <1>a DEF IInv, ReplicasTyped
<1>c. \A q \in Replicas :
        \/ replica'[q] = replica[q]
        \/ replica'[q].map = shardMap /\ replica'[q].rows = rows
  BY <1>a DEF IInv, ReplicasTyped
<1>1. ReplicasTyped'
  <2>1. shardMap \in [Users -> Shards \union {None}]
    BY DEF IInv, TypeOK
  <2> QED
    BY <1>a, <1>b, <1>c, <2>1 DEF IInv, ReplicasTyped
<1>2. TypeOK'
  BY <1>1, <1>a DEF IInv, TypeOK, ReplicasTyped
<1>3. SettledWhenLookedUp'
  <2>1. \A b \in Requests : InSync(b) => InSync(b)'
    BY <1>a, <1>c DEF InSync
  <2> QED
    BY <1>a, <2>1 DEF IInv, SettledWhenLookedUp
<1>4. ShardIsCurrent' /\ ShardsAgree' /\ RowsPlaced'
  BY <1>a DEF IInv, ShardIsCurrent, ShardsAgree, LookedUp, Resolve, RowsPlaced
<1>5. MustListStays'
  <2> SUFFICES ASSUME NEW l \in Lists, NEW s \in mustList[l], NEW q \in Replicas
               PROVE  \E k \in Tables : s \in replica'[q].rows[k]
    BY <1>a DEF IInv, MustListStays, Stored
  <2>1. \E k \in Tables : s \in replica[q].rows[k]
    BY DEF IInv, MustListStays
  <2>2. \E k \in Tables : s \in rows[k]
    BY DEF IInv, MustListStays, Stored
  <2> QED
    BY <1>c, <2>1, <2>2
<1>6. ListComplete'
  BY <1>a DEF IInv, ListComplete
<1>7. EndsAccounted'
  BY <1>a DEF IInv, EndsAccounted, Stored
<1> QED
  BY <1>1, <1>2, <1>3, <1>4, <1>5, <1>6, <1>7 DEF IInv

LEMMA StepHolds == IInv /\ [Next]_vars => IInv'
<1> SUFFICES ASSUME IInv, [Next]_vars PROVE IInv'
  OBVIOUS
<1>1. ASSUME NEW s \in Sends, SendPublic(s) \/ Goroutine(s) \/ TimeOut(s) \/ BackendDies(s)
      PROVE  IInv'
  BY <1>1, SendPublicStep, PostStep, AnswerStep, TimeOutStep, BackendDiesStep DEF Goroutine
<1>2. ASSUME NEW s \in Sends, Serve(s) \/ RaiseUnreadDialogs(s)
      PROVE  IInv'
  <2>1. s \in Requests
    BY DEF Requests
  <2> QED
    BY <1>2, <2>1, RunSagaStep, LookUpMinStep, LookUpMaxStep, InsertMessageStep, RaiseStep
       DEF Serve
<1>3. ASSUME NEW l \in Lists, BeginList(l) \/ ServeList(l)
      PROVE  IInv'
  <2>1. l \in Requests
    BY DEF Requests
  <2> QED
    BY <1>3, <2>1, BeginListStep, LookUpMinStep, LookUpMaxStep, ListMessagesStep
       DEF ServeList
<1>4. ASSUME NEW a \in Requests, DialogsDies(a)
      PROVE  IInv'
  BY <1>4, DialogsDiesStep
<1>5. ASSUME NEW u \in Users, RegisterMaps(u)
      PROVE  IInv'
  BY <1>5, RegisteredShard, ChangeMapStep DEF RegisterMaps
<1>6. ASSUME NEW u \in Reshards, NEW k \in Numbers, ReshardUser(u, k)
      PROVE  IInv'
  <2>1. u \in Users /\ k \in Shards
    BY DialogShardsAssumption DEF Shards
  <2> QED
    BY <1>6, <2>1, ChangeMapStep DEF ReshardUser
<1>7. ASSUME NEW r \in Replicas, Replicate(r)
      PROVE  IInv'
  BY <1>7, ReplicateStep
<1>8. CASE UNCHANGED vars
  <2>1. UNCHANGED <<storeVars, pc, shard, listed, settled, mustList, client, raised, hit>>
    BY <1>8 DEF vars, storeVars
  <2>2. TypeOK' /\ EndsAccounted'
    BY <2>1 DEF IInv, TypeOK, EndsAccounted, Stored, storeVars
  <2> QED
    BY <2>1, <2>2, Untouched DEF IInv
<1> QED
  BY <1>1, <1>2, <1>3, <1>4, <1>5, <1>6, <1>7, <1>8 DEF Next

-----------------------------------------------------------------------------
(* IInv holds in every state.                                              *)
THEOREM Inductive == Spec => []IInv
  BY InitHolds, StepHolds, PTL DEF Spec

(* The variables keep their types, and no replica shows a message the      *)
(* master has not stored.                                                  *)
THEOREM ShardsTypeCorrect == Spec => []TypeOK
<1>1. IInv => TypeOK
  BY DEF IInv
<1> QED
  BY <1>1, Inductive, PTL

(* Two messages of one pair, sent either way, are in one table when their  *)
(* shards were looked up between the same changes of shard_map.            *)
THEOREM PairsStayTogether == Spec => []PairTogether
<1>1. IInv => PairTogether
  <2> SUFFICES ASSUME IInv, NEW i \in Tables, NEW j \in Tables,
                      NEW s \in rows[i], NEW t \in rows[j],
                      Pair(s) = Pair(t), settled[s] = settled[t], settled[s] # 0
               PROVE  i = j
    BY DEF PairTogether
  <2>1. s \in Requests /\ t \in Requests
    BY DEF IInv, TypeOK, Requests
  <2>2. /\ pc[s] \in {"ok", "error"} /\ shard[s] = i
        /\ pc[t] \in {"ok", "error"} /\ shard[t] = j
    BY DEF IInv, RowsPlaced
  <2> QED
    BY <2>1, <2>2 DEF IInv, ShardsAgree, LookedUp
<1> QED
  BY <1>1, Inductive, PTL

(* A list shows what all replicas had of the pair when it began, when the  *)
(* shards were looked up between the same changes of shard_map.            *)
THEOREM ListsAreComplete == Spec => []ListComplete
<1>1. IInv => ListComplete
  BY DEF IInv
<1> QED
  BY <1>1, Inductive, PTL

(* Why a send can end without a report and without a row, and that a       *)
(* report of failure has a cause.                                          *)
THEOREM SilenceHasCause == Spec => []SilenceAccounted
<1>1. IInv => SilenceAccounted
  BY DEF IInv, EndsAccounted, SilenceAccounted
<1> QED
  BY <1>1, Inductive, PTL

(* unread_dialogs is raised only for a message that is in a table.         *)
THEOREM RaisedMessagesAreStored == Spec => []RaisedIsStored
<1>1. IInv => RaisedIsStored
  BY DEF IInv, TypeOK, EndsAccounted, RaisedIsStored
<1> QED
  BY <1>1, Inductive, PTL

-----------------------------------------------------------------------------
(* Only getShardID brings a request to its table.                          *)
LEMMA TableByLookUp ==
    ASSUME TypeOK, [Next]_vars, NEW a \in Requests, pc[a] # "table", pc'[a] = "table"
    PROVE  LookUpMin(a) \/ LookUpMax(a)
<1>1. \A step : \A b : GoTo(b, step) /\ step # "table" => pc'[a] # "table"
  BY DEF GoTo, TypeOK
<1>2. \A b : b # a => ~ LookUpMin(b) /\ ~ LookUpMax(b)
  <2>1. \A step : \A b : GoTo(b, step) => b = a
    BY DEF GoTo, TypeOK
  <2> QED
    BY <2>1 DEF LookUpMin, LookUpMax
<1>3. ~ UNCHANGED pc
  OBVIOUS
<1>4. ASSUME NEW s \in Sends
      PROVE  /\ ~ (SendPublic(s) \/ Goroutine(s) \/ TimeOut(s) \/ BackendDies(s))
             /\ ~ (RunSaga(s) \/ InsertMessage(s) \/ RaiseUnreadDialogs(s))
  <2>1. ~ (SendPublic(s) \/ Answer(s) \/ TimeOut(s) \/ BackendDies(s))
    BY <1>3 DEF SendPublic, Answer, TimeOut, BackendDies
  <2>2. ~ Post(s) /\ ~ RunSaga(s) /\ ~ InsertMessage(s)
    BY <1>1, <1>3 DEF Post, RunSaga, InsertMessage
  <2>3. ~ RaiseUnreadDialogs(s)
    BY <1>3 DEF RaiseUnreadDialogs
  <2> QED
    BY <2>1, <2>2, <2>3 DEF Goroutine
<1>5. ASSUME NEW l \in Lists
      PROVE  ~ BeginList(l) /\ ~ ListMessages(l)
  BY <1>1 DEF BeginList, ListMessages
<1>6. \A b \in Requests : ~ DialogsDies(b)
  BY <1>1 DEF DialogsDies
<1>7. /\ \A u \in Users : ~ RegisterMaps(u)
      /\ \A u, k : ~ ReshardUser(u, k)
      /\ \A r \in Replicas : ~ Replicate(r)
  BY <1>3 DEF RegisterMaps, ReshardUser, ChangeMap, Replicate
<1>8. ~ UNCHANGED vars
  BY <1>3 DEF vars
<1> QED
  BY <1>2, <1>4, <1>5, <1>6, <1>7, <1>8 DEF Next, Serve, ServeList

LEMMA LookUpIsOneRead ==
    ASSUME IInv, IInv', [Next]_vars, NEW a \in Requests,
           pc[a] # "table", pc'[a] = "table", settled'[a] # 0
    PROVE  shard'[a] = Resolve(a)
<1>1. LookUpMin(a) \/ LookUpMax(a)
  BY TableByLookUp DEF IInv
<1>2. UNCHANGED <<shardMap, changes>>
  BY <1>1 DEF LookUpMin, LookUpMax, storeVars
<1>3. settled'[a] = changes + 1
  <2>1. settled \in [Requests -> 0..(MaxChanges + 1)]
    BY DEF IInv, TypeOK
  <2>2. CASE LookUpMin(a)
    <3>1. ~ GoTo(a, "max")
      BY DEF GoTo, IInv, TypeOK
    <3>2. settled' = [settled EXCEPT ![a] = IF InSync(a) THEN changes + 1 ELSE 0]
      BY <2>2, <3>1 DEF LookUpMin
    <3> QED
      BY <2>1, <3>2
  <2>3. CASE LookUpMax(a)
    <3>1. settled' = settled \/ settled' = [settled EXCEPT ![a] = 0]
      BY <2>3 DEF LookUpMax
    <3>2. settled'[a] = settled[a] /\ pc[a] = "max"
      BY <2>1, <2>3, <3>1 DEF LookUpMax
    <3> QED
      BY <3>2 DEF IInv, SettledWhenLookedUp
  <2> QED
    BY <1>1, <2>2, <2>3
<1>4. shard'[a] = Resolve(a)'
  BY <1>2, <1>3 DEF IInv, ShardIsCurrent, LookedUp
<1> QED
  BY <1>2, <1>4 DEF Resolve

(* The two queries of getShardID, each made on any replica, are like one   *)
(* read of the master at the moment the second returns, unless a change of *)
(* shard_map, a replica that lags or an error came between.                *)
LookUpAtomic ==
    [][\A a \in Requests :
         pc[a] # "table" /\ pc'[a] = "table" /\ settled'[a] # 0
         => shard'[a] = Resolve(a)]_vars

(* This holds for any users, replicas, hash, shards and changes.           *)
THEOREM LookUpsAreAtomic == Spec => LookUpAtomic
<1>1. IInv /\ IInv' /\ [Next]_vars =>
        \A a \in Requests :
          pc[a] # "table" /\ pc'[a] = "table" /\ settled'[a] # 0 => shard'[a] = Resolve(a)
  BY LookUpIsOneRead
<1> QED
  BY <1>1, Inductive, PTL DEF Spec, LookUpAtomic
=============================================================================

# otus-social in TLA+

A verification project for the social network in `src/src` (Go, Gin, GORM,
PostgreSQL with read replicas, Redis, RabbitMQ, WebSockets). It models the
parts whose correctness depends on the order of things: counters kept in Redis
next to rows in PostgreSQL, caches filled by queues and by readers, dialogs in
Redis and in sharded tables, accounts and friends over a database with lagging
replicas, and the push of events to browsers. TLC checks each part on a small
instance; TLAPS proves every invariant the runs check, and four refinements, for
all instances.

File names below are relative to `src/src`.

## 1. The system

### Processes and stores

| Process | What it runs |
|---|---|
| backend-1..3 (`server.go`) | the public API; 5 queue workers; the consumer of feed events; the table of WebSockets; the counter service and its sagas with their background goroutines |
| dialogs-1,2 (`dialogs.go`) | the internal dialog API: it sends messages, so it runs sagas and counters too; it never calls `db.ConnectDB` |
| PostgreSQL | a master and two streaming replicas behind GORM's `dbresolver`; every read that is not asked for on the master may go to a replica |
| redis, redis-dialogs | counters, feeds, the feed task list, dialogs; `allkeys-lru` |
| RabbitMQ | the exchange of feed events and the one queue `feed_push_queue` all backends consume |

Processes share nothing but these stores. A Redis script and a SQL statement are
atomic; a sequence of them is not, and nothing locks across them. A pipeline of
go-redis (`Pipeline()`, not `TxPipeline()`) is such a sequence: Redis runs its commands
in order, with those of other clients in between, and a connection that breaks
leaves it half done.

### Components

| Component | State | Operations | Hard because | Correct when |
|---|---|---|---|---|
| CounterService (`services/counter_service.go`) | counter keys in Redis; `updateQueue`, the batch | `IncrementCounter`, `IncrementCounterSync`, `flushBatch`, `ResetCounter`, `SetCounterValue` | updates wait in memory, a batch falls back to single updates, callers time out, go-redis repeats commands | an accepted update is executed, once |
| CounterSagaService (`services/counter_saga_service.go`) | `messages`, the unread counter, sagas in memory | `HandleNewMessage`, `HandleMarkAsRead`, `ReconcileCounter`, two background rounds | three stores, no transaction, stale reads, crashes | the counter equals the unread messages, or is brought back to them |
| Counter handlers (`api/handlers/counter.go`) | – | reset, reconcile, manual increment | overwrite what sagas and the queue maintain | a counter is what was written and added since |
| Dialog handlers, sharding (`api/handlers/dialog.go`) | `messages_N`, `shard_map` | send, list, mark, reshard | written after the saga; a dialog's table depends on a changing map | a message answered with 200 can be listed |
| RedisDialogService (`services/redis_dialog_service.go`) | per dialog a sorted set and two hashes | `SendMessage`, `MarkAsRead`, reads | repeated scripts, expiry, eviction of one key | the three keys agree, and they expire |
| PostService, QueueService (`services/posts.go`, `services/queue.go`) | `posts`, `friends`; `user_feed:*`, `post:*`, `feed_update_queue` | create, delete, fan-out, page building, rebuild | three kinds of writers of one cache, pipelines that interleave and break, replicas, lost tasks | a feed shows the posts of friends that exist |
| Feed events (`services/rabbitmq.go`), WebSockets (`services/wsmanager.go`, `api/handlers/ws.go`) | the queue; the table of connections | publish, consume, send, connect, leave | a shared auto-ack queue, writes outside the lock, a write without a deadline under it | every connection of the user gets the event once |
| FriendService (`services/friends.go`) | `friends` | add, approve, delete | check-then-insert on a replica, `Save` of an old row | nobody becomes a friend without an approval; one row per pair |
| Accounts (`services/users.go`, `api/handlers/auth.go`) | users, tokens, `shard_map` | register, login, logout | check-then-insert and delete-then-insert, ids read on a replica, ignored errors | one account per nickname; a login ends the sessions before it |
| Interests, configuration, metrics, tools | – | – | – | not modelled: no protocol of their own |

Calls: a public send is forwarded over HTTP to a dialogs process, which runs
`HandleNewMessage`, inserts into `messages_N` and starts two goroutines, one
for the `unread_dialogs` counter (`IncrementCounter`), one for a notification.
A mark runs in the backend. `CreatePost` starts `EnqueueFeedUpdate`; a worker
writes each friend's feed and calls `PublishFeedEvent`, or, on an error,
`WSConnManager.Send` itself; the consumer of some backend calls `Send`. `Register`
writes the row of `shard_map` that `getShardID` reads, as does the resharding
handler. `friends` is what the feed is built from.

The hazards are listed with their lines in `PROJECT.json`; each names the
properties that cover it, or says why none does.

## 2. Modules

| Module | Models | Used by |
|---|---|---|
| `CounterStore` | the increment script and the outcomes of a call to Redis or PostgreSQL | the modules below |
| `CounterQueue` | the asynchronous path of CounterService; it implements `AsyncCounter` | `MCCounterQueue`, `CounterQueueProofs` |
| `AsyncCounter` | abstract: what `IncrementCounter` promises | `CounterQueue`, `CounterQueueProofs` |
| `CounterSaga` | sagas, reconcilers, the handlers that run them; it implements `UnreadBadge` | `MCCounterSaga`, `CounterSagaProofs` |
| `UnreadBadge` | abstract: what the unread counter promises | `CounterSaga`, `UnreadBadgeProofs` |
| `DialogShards` | the public send over HTTP, `getShardID`, the sharded tables, resharding | `MCDialogShards`, `DialogShardsProofs` |
| `RedisDialog` | one dialog of RedisDialogService; it implements `DialogInbox` | `MCRedisDialog`, `RedisDialogProofs` |
| `DialogInbox` | abstract: what a dialog promises, without keys and TTLs | `RedisDialog`, `RedisDialogProofs` |
| `Accounts` | register, login, logout | `Friends` |
| `Friends` | add, approve, delete, next to `Accounts` | `Members` |
| `Members` | composes the two over one database; it implements `Friendship` | `MCMembers`, `MembersProofs` |
| `Friendship` | abstract: what FriendService promises | `Members` |
| `Feed` | PostService, its queue and the caches | `MCFeed`, `FeedProofs` |
| `FeedPush` | RabbitMQ, consumers and WebSockets | `MCFeedPush`, `FeedPushProofs` |

Every module has one action per step between two points where another actor
can act: a Redis call, a SQL statement, a channel operation, a lock. Each
definition's lines in the source are in the `map` of `PROJECT.json`. An operator
introduced by a comment starting with "Mutant" is a deliberately wrong variant
of the definition that follows; no specification uses it. It is there to show
that some property fails when the code is broken in that way.

### Outcomes of a call (`CounterStore`)

go-redis repeats a command when the connection breaks. A call is executed and
answered (`ok`), not executed (`refused`), executed with the answer and the
retries lost (`lost`), or executed twice (`resent`). Elsewhere a repeated command
is idempotent, except for the send script of a dialog, where other commands
between the two executions matter: `RedisDialog` has an action for the second.
GORM repeats nothing. Each outcome but `ok` costs a fault, and each module
bounds the number of faults.

### CounterQueue

`updateQueue`, `batch`, `fallback` and `worker` are the channel and the locals of
`processBatchUpdates` and `flushBatch`; `caller[u]` is where a call of
`IncrementCounter` is. `ScriptSucceeds` is the batch script: it was written for
`KEYS = {timestamp, key, delta, ...}` and is called with one key per update and
the deltas in `ARGV`, so it fails before its first write when there are two
keys or more, and does nothing when there is one. The histories `applied`,
`base` and `dropped` say how often an update was executed, how many of its
executions an overwrite wiped out, and why it was given up. `Standing(k)` is the
set of executions on a key since it was last overwritten.

The queue is not alone with its keys (`Foreign`). Over HTTP a counter is reset,
incremented by any delta, or reconciled: `CompareCounter` counts rows and reads
the counter, `SetCounterValue` stores the count some time later, whatever the
counter has become. Which rows there are is left open (`RowCounts`); expiry and
eviction of a key are like a reset. `others[k]` is what these writers left of a key:
the value that last overwrote it and the deltas added since. A counter is
`others[k]` plus the number of `Standing(k)`.

`AsyncCounter` knows no channel, batch, loop or restart: an update is new, may be
accepted, and is settled once, counted or abandoned; a counter moves in the
step that counts one of its updates (by 2 when go-redis repeats the command), or
in the one step in which another request stores a value or adds a delta. Those
writes are numbered, so that a write cannot hide in a step of the queue.
`CounterQueue` maps `FateOf(u)`, `counter` and `overwrites` to it (`ImplementsAsync`).

### CounterSaga

Each request and each background goroutine is an actor with a program counter.
`counter` is the unread counter of each user; `rows`/`unread` the table
`messages`; `replica[p]` the unread rows as a replica shows them; `shards` the
rows in `messages_N`. `Counted(u)` is what the counter of `u` stands for: unread
rows, messages whose saga is under way, and rows a mark has set to read but not
yet subtracted. `tainted` holds the users whose counter an event is known to
have broken: a lost answer, a crash, a stale count, a clamped decrement, an
overwrite. It is left by a reconciliation that no saga of the user disturbed
(`clean`). Without it the property would be false for trivial reasons, with it
`CounterExact` says that these causes are all there are. A manual increment adds any
delta but 0, as the handler does; `granted[u]` is what such increments can have added,
twice if the command was repeated, and `BadgeBounded` says that nothing but sends,
faults and these grants raises a badge.

A send in `NoDB` is served by a process without a database connection, as
every dialogs process is deployed today. The other sends show the saga as it is
meant to run.

`UnreadBadge` says the same without stores: a message is new, waits, and is
settled, in this order; the badge follows step by step until its user is in
doubt, and only a repair, exact at that moment, ends a doubt. `CounterSaga` maps
`Phase(s)`, `counter` and `tainted` to it (`ImplementsBadge`).

### DialogShards

`client[s]` is the goroutine `SendMessagePublicHandler` starts after it has
answered 200; `pc[a]` a request in a dialogs process, from the saga (one step
here, `CounterSaga` has the rest) over the two queries of `getShardID` to the
insert or the select. `shardMap` and `rows` are `shard_map` and the tables
`messages_N` on the master, `replica[r]` both on a replica. `Hash` is any function
of the pair. The number of tables comes from the configuration (`ShardCount`),
the range of the hash from a constant of the handler (`NumShards`): they are
two numbers in the code and here, and a missing table is an error.

Three histories say what may be expected: `settled[a]` is the moment, counted
in changes of `shard_map`, at which `a` looked up its shard, or 0 when a change, a
failed query or a lagging replica disturbed it; `mustList[l]` what every replica
had when the list `l` began; `hit` the requests something failed for. The
statements of a pair are promised to meet only when `settled` agrees.

### Accounts, Friends, Members

A call is a request of a user; `op`, `who`, `pc` say what it asks for and at
which statement it is. A token is named by the login that inserted it, a row of
`friends` by the call of `AddFriend` that inserted it (`status[c]` is its row).
Every look-up is made on some replica, every write on the master, and each
statement may be refused or lose its answer. An error of a look-up reads like
"not found" where the code does not look at it: `Logout` then deletes the
tokens of id 0, nobody's. `ApproveFriend` keeps the row it has read in
`target[c]` and saves it: the row comes back when it was deleted in between
(`revived`). `mustEnd[c]` and `mustSee[c]` are histories: the sessions, and the
rows of the pair, that every replica had when `c` began. `Members` lets accounts
and friends share the users, the calls, the crashes and the replicas, which
replay both tables in the order of the master.

`Friendship` has no rows: `asked`, `friends`, and the approvals under way.
`Members` maps its rows to it (`ImplementsFriendship`). It is as strong as the
code allows: an approval that began while the request stood may still
complete after the two have parted, because of `Save`.

### RedisDialog

The members of the sorted set are `<<m, "unread">>` and `<<m, "read">>`, because
marking a message replaces its JSON. `keys`, `persistent` and `ttl` say which of
the three keys exist and which of them expire; removing the last member of a
sorted set deletes the key and its TTL. `damaged` holds the users whose count a
repeated send or an eviction has broken since they last read.

`DialogInbox` has neither keys nor TTLs: messages wait and a badge counts them;
they are put, read and lapse together with it. A user falls into doubt when a
waiting message is sent again, or when one half of the dialog is lost, and only
reading ends it. `RedisDialog` maps the unread members of the sorted set, the hash
and `damaged` to it (`ImplementsInbox`); a tick in which one of the two keys
expires is a `Lapse` of both, or nothing.

### Feed

`feed[u]` and `cached` are `user_feed:<u>` and `post:<id>`; `replica[d]` both tables as
a replica has them; `queue` the Redis list. Actors are the calls of `CreatePost`
and `DeletePost` with the goroutines they start, the workers, and builders: a
request of `GET /feed` that misses the cache, or a rebuild. `faults` counts
failed calls, broken connections, crashes and pushes that hang, `changes` expired
or dropped keys and friendships made or ended; one bound, `MaxTroubles`, is for both.
A reader that finds its page in the cache changes nothing and is not an action.
Reading the ids and reading their posts are two commands in the code and one step
here.

A goroutine `g` that calls `Exec` leaves its commands in `sent[g]` and waits;
`ExecuteCommand(g)` is Redis executing the next of them, and the commands of all
goroutines interleave. After each command the connection may break: go-redis
sends all of them again, or the rest is lost (`LoseRest`) and nobody notices,
as the code does not look at the error. A page that is being cached can thus be
seen half written, and a feed is over `MAX_FEED_SIZE` between `ZADD` and
`ZREMRANGEBYRANK`, or until the next trim when that command was lost
(`untrimmed`). `owed[p]` is a history: whoever has been a friend of the author of `p`
on every replica since `p` was made, and was not sent `p` yet.

After each delivery a worker publishes a feed event, and writes it to the
WebSockets itself when RabbitMQ is out of reach. That write has no deadline:
`PushEvent` may leave the worker `"hung"` for ever.

### FeedPush

An event is the push of one post to one user. `queue` and `buffer[b]` hold it
on its way; `sending` are the calls of `Send` that hold the read lock of their
backend's table, `left[s]` the connections each has still to write to,
`writing[c]` who is inside `WriteMessage` on a connection. `Add` and `Remove`
need the write lock. Two writers on one connection may panic: gin recovers in the
handler, anywhere else the process dies (`Die`). A panic noticed at the end of a
write is taken to happen at the beginning. A channel that closes is never opened
again, as in the code.

`Send` sets no write deadline. A write to a connection in `Stalling` need never end:
its client may have stopped reading, and then the call of `Send`, the read lock, every
`Add` and `Remove` of that backend and its consumer wait for it. That is what the
code does; `HeldUp(e)` says that `e` is in the hands of such a backend, and
`PublishedIsSettled` that nothing else holds an event up.

## 3. Runs

"Distinct states" are what TLC found for the complete instance.

| Run | Instance | States | Shows |
|---|---|---|---|
| `counter_queue` | 3 updates, 2 keys, channel of 1, batch of 2; 1 fault, 1 restart, 2 writes by others: resets, manual increments of -1 or 3, reconciliations | 373 k | `NoUpdateVanishes`, `AppliedAtMostOnce`, `CounterIsSumOfApplied`, `ImplementsAsync`, `AcceptedIsSettled` |
| `saga_safety` | 2 sends and 2 marks of one dialog, 1 requested reconciliation, 1 replica, 1 fault, 1 reset or manual increment of -1 or 3 | 735 k | `CounterExact`, `BadgeBounded`, `AcknowledgedIsStored`, `ImplementsBadge` |
| `saga_repair` | 3 sends (one without a database), 1 mark, checker, full reconciliation, 1 reset or manual increment of -1 or 3 | 1.15 M | `UnreadUsersRepaired` |
| `redis_dialog` | 3 messages in both directions, lifetime 2, 2 faults, 2 evictions | 127 k | `UnreadExact`, `TotalExact`, `ListedOnce`, `UnreadExpires`, `ImplementsInbox` |
| `feed` | 3 users, 2 posts, 1 deletion, 1 worker, 1 builder, 1 replica, 1 trouble; pipelines command by command | 477 k | `PurgedIsHidden`, `FeedOfFriends`, `FanOutReachesFriends`, `EnqueuedIsFannedOut` |
| `feed_push` | 2 backends, 2 connections of one user to one of them, 1 may stop being read; 2 events, 1 fault | 541 k | `NoWriteAfterRemove`, `PushedOnce`, `AllConnectionsOrNone`, `PublishedIsSettled` |
| `members` | 2 users, one of them registered; 4 calls of any kind; 2 replicas; 1 call hit by a failure or crash | 804 k | `OneAccount`, `OlderSessionsEnd`, `RowsJustified`, `DuplicateHasCause`, `ImplementsFriendship` |
| `dialog_shards` | 2 sends, one each way, 1 list; 1 replica; 3 shards of which 2 have a table; 1 change of the map, 1 request hit | 518 k | `PairTogether`, `ListComplete`, `SilenceAccounted`, `RaisedIsStored`, `AcceptedIsSettled` |

Each of them also checks its module's `TypeOK`, except `saga_repair`, which leaves it
and `CounterExact` to `saga_safety` and to the proofs: they hold with overwrites and
background rounds as without.

Four runs show that the code does not do what its documents say; each checks one
property and finds it violated.

| Run | Property | The document says | What happens |
|---|---|---|---|
| `queue_loss` | `AcceptedIsApplied` | the queue batches updates (`COUNTER_SERVICE.md:51`) | a batch with one update is dropped without an error |
| `saga_mark_rollback` | `FailedMarkIsRolledBack` | step 2 of a mark is rolled back (`COUNTER_SERVICE.md:82`) | the compensation names a column that does not exist, its error is ignored |
| `feed_deleted` | `DeletedIsHidden` | deletion invalidates the caches (`FEED_SYSTEM.md:9`) | the queued creation is served after the purge and shows the post again |
| `pair_split` | `OnePairOneShard` | all messages of a pair always go to one shard (`DIALOG_SHARDING_ARCHITECTURE.md:11`) | between the two inserts of a registration the pair is hashed, afterwards it is mapped |

Four more such facts are part of the passing runs. In a dialogs process, which
has no database, step 2 of a saga panics and the increment of step 1 stays: it
is one of the causes of `tainted` in `CounterExact`. Marking the only message of
a dialog removes the key and its TTL: what may then live for ever is bounded
by `UnreadExpires`. A feed event may go to a backend its user is not connected
to: `AllConnectionsOrNone` says that it then reaches no connection. The caches
of feeds are not invalidated "При добавлении/удалении друзей", as
`FEED_SYSTEM.md:109` says: neither `ApproveFriend` nor `DeleteFriend` touches one, and a
feed goes on showing the posts of a former friend until it expires or is
rebuilt. `FeedOfFriends` therefore allows them (`Former`); without that TLC finds it
violated in the run `feed`.

### Why these bounds

- `counter_queue`: the channel has to be full (a call times out), a batch has to
  fill, one of a single update has to be flushed by the ticker, and two updates
  must be of one key and one of another. 1000 and 100 of the code become 1 and 2.
  Two writes by others put a reset or an increment between the count of a
  reconciliation and its overwrite; -1 meets the clamp, 3 is no delta of the queue.
- `saga_safety`: two marks of the same two messages are what subtracts twice;
  one fault is a failing step, a lost answer, a repeated script or a crash, and it can
  meet a manual increment or a reset. Pairs of failures, like a failing step and
  a failing compensation, are left to the proofs. The checker is
  left to `saga_repair`. `MinSlack`, 5 in the code, is 0, or the checker would
  never act on counts this small. The two sends, and the two marks, are
  interchangeable and used as symmetry; the run has no liveness property.
- `saga_repair`: the third send comes from the process without a database, so
  that counters break without faults, and one send goes the other way, so that
  a round has two users.
- `redis_dialog`: a lifetime of 2 lets keys written at different times expire
  at different times; two faults and two evictions let two of the three keys
  break independently.
- `feed`: a page and a feed of one post are trimmed by the second post; ann and bob
  are friends and may part, cid may become a friend of bob (`changes`) or remains a
  stranger. One trouble is one broken connection, crash or change among
  pipelines that interleave without any. `feed_deleted` needs no trouble at all
  and has none.
- `feed_push`: two connections at one backend for the loop of `Send`, of which one
  may stall; two events, so that one can be held up behind the other; a second
  backend that takes events away from the first. One fault lets a publish fail
  although the event arrived, which makes two senders of it at once.
- `members`: four calls are what it takes to bring a deleted row back beside a
  new one (ask, approve, part, ask again), and each may be an account call
  instead. With two users bob may or may not be registered when he is asked.
  Two replicas, because a call reads twice and may read two different ones.
  Calls, and replicas, are interchangeable and used as symmetry; the
  properties are safety properties.
- `dialog_shards`: neither user is mapped at the start, so that the hash, a
  registration and a resharding each decide a shard, to three numbers of which
  one has no table. One replica is enough: the properties promise something
  only when replicas agree, and one that lags is one that does not.

### Fairness

- `AcceptedIsSettled`: weak fairness of `Worker`, a goroutine that is always
  ready when the channel or the batch is not empty, its ticker included.
- `UnreadUsersRepaired`: weak fairness of the full reconciliation (a goroutine
  driven by a ticker) and of each replica catching up. None of clients, of
  requests, or of the checker.
- `EnqueuedIsFannedOut`: weak fairness of what each worker does next, or Redis for
  it. None that a push returns: a worker that is `"hung"` owes nothing, a task in its
  hands is not claimed, and when all workers hang the list stands still (`AllHung`).
- `PublishedIsSettled`: weak fairness of delivery by the broker, of the consumer, of
  a call of `Send` as far as it writes to clients that read (`Proceed`), of a greeting
  to such a client, and of the handler's deferred `Remove`. None of clients, and
  none that a write to a connection in `Stalling` ends. While some backend is
  linked no event waits for ever, unless its backend is held up by such a write.
- `AcceptedIsSettled` of `DialogShards`: weak fairness of the goroutine of a send,
  and of the statements of its request in the dialogs process. None of
  clients, of registrations or of replicas.

No run checks for deadlock except `redis_dialog`: the other systems stop when
their bounded calls and faults are spent.

## 4. Proofs

| Module | Theorems |
|---|---|
| `CounterSagaProofs` | `SagaTypeCorrect` (`TypeOK`), `CounterIsExact` (`CounterExact`), `BadgeIsBounded` (`BadgeBounded`), `AcknowledgedMessagesAreStored` (`AcknowledgedIsStored`) |
| `UnreadBadgeProofs` | `SagasImplementBadge` (`ImplementsBadge`) |
| `RedisDialogProofs` | `DialogTypeCorrect` (`TypeOK`), `UnreadCountIsExact` (`UnreadExact`), `UnreadMessagesExpire` (`UnreadExpires`), `TotalIsExact` (`TotalExact`), `MessagesAreListedOnce` (`ListedOnce`), `DialogImplementsInbox` (`ImplementsInbox`) |
| `MembersProofs` | `MembersTypeCorrect` (`TypeOK`), `AccountsAreUnique` (`OneAccount`), `SessionsEnd` (`OlderSessionsEnd`), `RowsAreJustified` (`RowsJustified`), `DuplicatesHaveCause` (`DuplicateHasCause`), `FriendshipRefined` (`ImplementsFriendship`) |
| `DialogShardsProofs` | `ShardsTypeCorrect` (`TypeOK`), `PairsStayTogether` (`PairTogether`), `ListsAreComplete` (`ListComplete`), `SilenceHasCause` (`SilenceAccounted`), `RaisedMessagesAreStored` (`RaisedIsStored`), `LookUpsAreAtomic` (`LookUpAtomic`) |
| `CounterQueueProofs` | `QueueTypeCorrect` (`TypeOK`), `UpdatesDoNotVanish` (`NoUpdateVanishes`), `UpdatesAreAppliedOnce` (`AppliedAtMostOnce`), `CountersAreSums` (`CounterIsSumOfApplied`), `QueueImplementsAsync` (`ImplementsAsync`) |
| `FeedProofs` | `FeedTypeCorrect` (`TypeOK`), `PurgedPostsAreHidden` (`PurgedIsHidden`), `FeedsAreOfFriends` (`FeedOfFriends`), `FanOutsReachFriends` (`FanOutReachesFriends`) |
| `FeedPushProofs` | `PushTypeCorrect` (`TypeOK`), `RemovedIsNotWritten` (`NoWriteAfterRemove`), `EventsArePushedOnce` (`PushedOnce`), `ConnectionsGetItTogether` (`AllConnectionsOrNone`), `EventsSettleOnce` (`SettledForever`) |

Each states `Spec => []P` for the property in brackets, or `Spec => P` for the four
refinements and the two action properties `LookUpAtomic` and `SettledForever`, which
the modules of the proofs define and no run checks. They hold for every number of users, requests, replicas, shards
and bounds. The assumptions are those of the modules: `ConstantsAssumption`
(users exist, there are finitely many sends, the bounds are natural numbers,
and the senders, recipients and readers are users), `DialogAssumption` (finitely
many messages, a recipient for each, a positive lifetime),
`AccountsAssumption` (users exist, finitely many calls),
`DialogShardsAssumption` (user ids are natural numbers, there is a shard and a
table, the hash of a pair is below `NumShards`), `QueueAssumption` (each update
has a key, the channel and a batch have room for one), `FeedAssumption` (finitely
many posts with natural numbers as ids, each with an author, a feed and a page
have room for one) and `PushAssumption` (each connection has a backend and a
user, each event a user and a backend it comes from).

*Counters.* `CounterExact` is not inductive. `IInv` adds: a row of `messages` was
written by its own saga after its increment (`RowsWereSaved`), otherwise an
insert could hit a message that is counted already; a row is marked by one
mark, of its recipient (`MarkedOnce`), otherwise a decrement could be shared; a
saga that compensates an insert that was committed after all has tainted its
user (`LostInsertTaints`); and the count of a reconciler no saga disturbed is
the present one (`CleanCounts`), which is why its overwrite may clear `tainted`.
One lemma per action shows that a step keeps `IInv`. The arithmetic of the
script is in three lemmas: a decrement that is covered is exact because the
clamp does not bite. `CleanCountIsCounted` joins the parts: in a quiet moment
what is counted is what is unread.

`BadgeBounded` needs that no reconciler has counted more messages than were
started (`CountsBounded`), that sends never become unstarted (`StartedGrows`),
and that a counter grows only by an increment, which goes with a started send or
a fault, by the write of a reconciler, or by no more than `granted` does
(`CounterGrowth`; `ApplyGain` covers deltas of any size and sign, the clamp and the
repetition). `AcknowledgedIsStored` needs what each
step of a send has written so far (`WrittenSoFar`).

*The badge.* A step of `CounterSaga` is mapped by what it does to `Counted`. If
the user is not tainted before and after, `CounterExact` holds on both sides, so the
counter has moved by exactly the messages that began or ceased to be counted:
an `Arrive` or a `Settle` (`CounterFollows`). A step that taints is the same step
with a doubt. A message leaves `Counted` once and does not return
(`FewerSettles`), and the overwrite that clears `tainted` sets the number of
counted messages (`ExactRepairs`), a `Repair`.

*Dialogs in Redis.* The count and the sorted set are two keys with TTLs of their
own. `IInv` adds: a key that does not exist reads as empty and a TTL that runs is
positive (`KeysHold`); the two keys expire together, or the one without a TTL
counts nothing and lists nothing unread (`ExpireTogether`, which contains
`UnreadExpires`); and a message that was not sent is not listed
(`NotSentNotListed`), otherwise a first send could count it twice. For
`TotalExact`, `TotalInv` adds that the statistics and the list they count expire
together (`StatsExpire`); a mark keeps the size of the list because it maps
its members one to one (`MarkKeepsTotal`), which needs `ListedOnce`.

The refinement needs nothing more. `TickLapses` is its one hard step: when the
list expires and the hash does not, `ExpireTogether` and `KeysHold` say that the hash
counts nothing already, and when the hash expires alone that nothing in the list
is unread. If a send forgot one of its three `EXPIRE`s this step would have no
counterpart, and TLC finds it (`SendScriptNoExpire`).

*Members.* `IInv` says of each call what brought it to its step (`Reached`), that an
approval under way has read a request made to its caller (`ApprovalsMatch`),
that a call which has left a row or a token behind has ended (`RowsSettled`,
`TokensSettled`), that one registration of a nickname gets past the unique
index (`RegistrationsDiffer`), that the sessions a call has to end are of a user
all replicas know (`SessionsKnown`), and that a row a request cannot miss is on
every replica until the look-up (`RowsSeen`). `OwnStep` says that a step moves one
call; `FriendsKept` and `AccountsKept` that a step of one component leaves what
is known of the other.

The refinement maps `InsertRow` to `Ask`, `FindRequest` to `BeginApproval`,
`SaveApproved` to `Approve`, or to `GiveUp` when the statement was refused,
`DeleteFriend` to `Part`, a crash during an approval to `GiveUp`, and every other
step to a stutter. `ApprovalsMatch` is what `Approve` needs: the row that is
saved is of the two users the approval began with, deleted or not.

*Shards.* `PairTogether` relates messages inserted at different moments. The
invariant has the present in it: a shard that was looked up since the last
change is the one the map gives now (`ShardIsCurrent`); a request between its
two queries has seen the present, and every replica with it
(`SettledWhenLookedUp`). Two requests of one pair that looked up between the
same two changes then agree (`ShardsAgree`), and go on agreeing when the map
changes and the first fact becomes void. A message is in the table its request
has looked up (`RowsPlaced`). `ListComplete` follows with what a list must show
staying on every replica (`MustListStays`). `LookUpAtomic` says it of the look-up
itself: two queries, each on any replica, are like one read of the master, unless
a change, a lagging replica or an error came between.

*The queue of updates.* `NoUpdateVanishes` is proved from what the three places
contain. `IInv` adds that no update is twice in one of them or in two
(`HeldOnce`), that the batch is empty while the loop runs and the loop has
something to do (`WorkerKnows`), and for each update what may have happened to
it, from where its caller is (`Fate`): one that has not been accepted has
never been executed, so the channel takes no second copy of anything. Two
lemmas say what `Append`, `Head` and `Tail` do to the elements of a sequence without
repetitions (`AppendElements`, `HeadTailElements`), and one that such sequences
with nothing in common can be joined (`JoinOneEach`). `AppliedAtMostOnce` follows
because an update that is executed was not executed before, and twice only at
the cost of a fault (`Executed`).

`CounterIsSumOfApplied` is a sum over the updates of a key, stated as the size of a
set of pairs `<<u, n>>`, so that it can be proved without induction. `Tallied`, a
part of `IInv`, says that and that the pairs are finitely many; an execution adds one
or two of them that were not there (`ExecutedTallies`, `TwoMore`), an overwrite by a
reset, a reconciliation or a clamped decrement takes away all (`OverwriteTallies`:
`base` becomes `applied`), a manual increment that is not clamped goes into `others`
(`AdditionTallies`), and no other step changes anything (`TallyKept`).

For the refinement each step is mapped by what it does to `FateOf`. An update that
waits in the channel or in a batch is open (`OpenFates`: `Fate` says it was never
executed and its caller has returned), so executing it is a `Count` and giving it
up an `Abandon`: of one update when a fallback fails, of all it holds when the
script drops a batch or a process crashes (`AbandonedTogether`). Taking an update
from the channel is a stutter, and so is the count of a reconciliation; a write by
another request is one `Store` or `Add`, with its number (`StoredOnce`, `ForeignRefines`).

*Feeds.* `FeedOfFriends` needs the path of a post: replicas show rows that have
existed (`RowsKnown`), a worker delivers to friends, present or past
(`WorkersHold`), a builder has read friends and then posts of friends
(`BuildersHold`), a pipeline under way adds posts to the feeds of friends only
(`PipesKnown`), and `FriendsOf` is symmetric, so that what the author's row allows
the reader's allows too. `PurgedIsHidden` is weaker than `Hidden`, which does not
mention feeds: the purge drops the post itself with its last command, which
`PipesKnown` says too, so that it is gone when the pipeline ends without an error.

The size of a feed is `FeedBounded`, a part of `TypeOK`. Between `ZADD` and
`ZREMRANGEBYRANK` any number of other commands may come, and the pipeline may start
again. `PipesKnown` has it that whoever adds to a feed trims it with the last command
of the same pipeline: while the pipeline is under way the feed is excused, when
it ends the feed has just been trimmed, and when it breaks the feed is `untrimmed`
(`ExecuteKeepsBound`, `LoseRestKeeps`). That a trimmed feed is within the bound is
`NewestBounded`: the number of newer posts tells the posts `Newest` keeps apart, so
there are no more than `n` of them.

`FanOutReachesFriends` is about users who have been friends all along, while
replicas lag and friendships change. Whoever is owed a post is a friend of its
author on every replica (`OwedAreFriends`), so that a worker that asks any of them
has the user on its list; from then on every user who is still owed the
post is in the worker's list or in the part of its pipeline that Redis has not
executed (`NobodySkipped`). Two workers may hold the same post, as a task can be
pushed twice, and a task is of a post that was made (`TasksMade`).

*Pushes.* What a call of `Send` holds is in the table of its backend, and what
a handler writes is its greeting (`Held`, from which `NoWriteAfterRemove`); an event
is in one place of the bus (`OnePlace`); what a connection has of an event and
what is still on its way to it, from the bus, from the consumer and from the
worker of its backend, is one, or two if the publish was made twice
(`PushesBounded`). A call of `Send` takes all open connections of its user at once
(`SendBegins`), so that of two that were open at the publication either both
have the event or are in somebody's hands, or neither (`GivenTogether`); when a
process dies all its connections are gone with it (`DieStep`). `SettledForever`
completes `AllConnectionsOrNone`: what is done with stays as it is. It needs `Held`,
by which whoever writes to a connection is a call of `Send` still under way.

Every invariant and every refinement a passing run checks is proved. Only
model-checked are the liveness properties (`AcceptedIsSettled` of both modules,
`UnreadUsersRepaired`, `EnqueuedIsFannedOut`, `PublishedIsSettled`): TLAPS cannot
prove liveness under fairness or reason about ENABLED.

## 5. Left out

- `version` and `updated_at` of a counter: every caller passes version 0, and
  the test of the script never runs.
- What `unread_dialogs` means. `COUNTER_SERVICE.md:31` defines it as the number of
  dialogs with unread messages, and `ReconcileCounter` counts the distinct senders of
  unread rows; but a send increments it whether or not the dialog has unread
  messages already, if the sender has none to read in it, and nothing ever
  decrements it. Modelled are its queue, the requests that write it
  (`CounterQueue`, where a reconciliation finds any number of rows) and the
  moment it is raised (`DialogShards`). `friend_requests` is left out.
- The age of messages (the checker looks at 24 hours) is left open: any subset
  of the unread messages may be that recent. A failed listing query of a
  reconciler ends its round at once and is no step.
- One dialogs process stands for all: they share only atomic Redis scripts.
- That a background goroutine of a dialogs process panics without a database
  and takes the process with it: `CrashSend` covers its effect on sagas.
- Texts, times and the ordering inside a dialog; limits and offsets; that Lua's
  encoder might write the fields of an unchanged message in another order.
- The public list handler calls a path the dialogs service does not serve and
  answers an empty list; only the internal list is modelled.
- A `new_message` notification made in a dialogs process: its table of
  WebSockets is empty, and it reaches nobody. That the body of the answer in the
  goroutine of a public send is not closed.
- `shard_count` is missing in `etc/app.yaml.example`: with that file it is 0 and
  `Register` divides by it after the user was inserted. `ShardCount` is positive
  here.
- Passwords, `CheckToken`, which no code calls, the middleware, which takes the
  id of the user from a header, profiles, and the `write_transactions` of the
  load tests.
- `GetFriends` and `GetPendingRequests` read tables that do not exist (`"user"`,
  `friend`); they change nothing.
- The order of creation times of posts, in whole seconds, is taken to be that
  of their ids. The TTL of a feed or a cached post is not counted down, and the
  `EXPIRE` at the end of a pipeline not kept: the key may expire whenever it exists.
- A request caches its page in a goroutine of its own; each builder makes one
  request. A worker that starts again in place of one that died waits for
  the commands Redis still has of it.
- go-redis may repeat a command or a pipeline up to three times; each repetition
  costs a fault here, and a script of a call is repeated once.
- What the histories excuse (`revived`, `tainted`, `untrimmed`, `hit`, `settled`,
  `damaged`) is no promise of the code that is checked: the properties say that nothing
  else breaks them. A fan-out that is lost with a crash or a failed query counts
  as dealt with in `EnqueuedIsFannedOut`. `saga_repair` has no faults; what breaks a
  counter there are the process without a database and the overwrite.
- Two writes to one connection that overlap without a panic are taken as both
  received whole, though gorilla lets them share one buffer.
- A waiting `Add` or `Remove` keeps new readers of the lock out; here a `Send` may still
  begin. It holds `Send` up no longer than a `Send` under way does, which
  `HeldUp` covers.
- `SendWsNotify`, another caller of `Send`.

## 6. Plan

Done: all modules of section 2, four refinements, the proofs of section 4. What
is left, in the order of what it adds:

1. An abstract specification of the sharded dialogs, a log of messages per pair
   that `DialogShards` implements between two changes of `shard_map`.
2. The safety half of the liveness properties as proved action properties: a
   reconciliation nothing disturbs ends with an exact counter; a task a worker
   took is fanned out or lost with a failure.
3. `Feed` over the rows of `Friends` instead of its own, with the two rows a
   duplicated request leaves: a post is then pushed twice.
4. `Feed` with two workers or two replicas and no deletion, in a run of its own.
   The proofs cover them, the runs do not.

-------------------------------- MODULE Feed --------------------------------
(***************************************************************************)
(* The feed caches of PostService (src/services/posts.go) and the Redis    *)
(* list of tasks that fills them (src/services/queue.go).                  *)
(*                                                                         *)
(* A feed is a sorted set user_feed:<user> of post ids; the post itself is *)
(* cached under post:<id>, and an id whose post is not cached is skipped   *)
(* by the reader.  Three kinds of goroutines write them: the workers that  *)
(* fan a new post out, the one that purges a deleted post, and the one     *)
(* that caches a page a reader built from a read replica.                  *)
(*                                                                         *)
(* They write through pipelines, whose errors they ignore.  A pipeline is  *)
(* no transaction: Redis executes its commands in order, but those of      *)
(* others in between, and a connection that breaks leaves it half done, or *)
(* makes go-redis send all of it again.                                    *)
(*                                                                         *)
(* Posts get increasing ids; the order of creation times, in whole         *)
(* seconds, is taken to be that of the ids.                                *)
(***************************************************************************)
EXTENDS Integers, FiniteSets, Sequences

CONSTANTS
    Users,
    Posts,        \* post ids, taken in increasing order
    Author,       \* the author of each post
    Deletions,    \* the posts their authors ask to delete
    Workers,      \* the goroutines of StartWorkers: 5 in each backend
    Builders,     \* requests that build a feed from the database
    Reader,       \* the user whose feed each of them asks for
    LastIDs,      \* bound: the last_id they send; 0 asks for the first page
    Replicas,     \* read replicas of the database
    InitFriends,  \* the approved rows of friends at the start
    Changing,     \* bound: the pairs who become friends or cease to be
    PageSize,     \* the limit of GET /feed
    MaxFeedSize,  \* MAX_FEED_SIZE: 1000 in the code
    MaxTroubles   \* bound on failed calls, crashes, keys that expire or are
                  \* dropped, and friendships made or ended

ASSUME FeedAssumption ==
    /\ IsFiniteSet(Users)
    /\ Posts \subseteq Nat \ {0}
    /\ IsFiniteSet(Posts)
    /\ Author \in [Posts -> Users]
    /\ Deletions \subseteq Posts
    /\ InitFriends \subseteq Users \X Users
    /\ Changing \subseteq Users \X Users
    /\ PageSize \in Nat \ {0}
    /\ MaxFeedSize \in Nat \ {0}
    /\ Reader \in [Builders -> Users]
    /\ LastIDs \subseteq Posts \union {0}
    /\ MaxTroubles \in Nat
    /\ Workers \intersect Builders = {}
    /\ (Workers \union Builders) \intersect Posts = {}

VARIABLES
    posts,       \* the table of posts, on the master
    friends,     \* the approved rows <<user_id, friend_id>>, on the master
    replica,     \* replica[d]: both tables as replica d shows them
    feed,        \* feed[u]: the ids in user_feed:<u>
    cached,      \* the posts cached under post:<id>
    queue,       \* feed_update_queue, a Redis list of "create" tasks
    createPc,    \* where each CreatePost is
    deletePc,    \* where each DeletePost is
    workerPc,    \* where each worker is
    task,        \* the post a worker is fanning out; 0 is none
    todo,        \* the friends it has still to deliver it to
    buildPc,     \* where each builder is
    request,     \* its last_id and limit
    friendIDs,   \* the friends it read
    sent,        \* sent[g]: the pipeline goroutine g waits for, or <<>>
    executed,    \* executed[g]: how many of its commands Redis has executed
    revived,     \* history: the posts cached again after their purge
    untrimmed,   \* history: the feeds that were not trimmed, as a pipeline
                 \* broke, and have been neither trimmed nor dropped since
    owed,        \* history: owed[p]: whoever has been a friend of p's author
                 \* on every replica since p was made, and was not sent p yet
    everFriends, \* history: the rows friends has ever held
    faults, changes

dbVars     == <<posts, friends, replica>>
cacheVars  == <<feed, cached, revived, untrimmed>>
workerVars == <<workerPc, task, todo>>
buildVars  == <<buildPc, request, friendIDs>>
pipeVars   == <<sent, executed>>
vars == <<dbVars, cacheVars, queue, createPc, deletePc, workerVars, buildVars,
          pipeVars, owed, everFriends, faults, changes>>

Request == [last : Posts \union {0}, limit : {PageSize, MaxFeedSize}]

(* Who sends pipelines: the workers, the goroutines that cache a page for  *)
(* a builder, and one for every deleted post.                              *)
Goroutines == Workers \union Builders \union Posts

(* The commands on the feed of u and on the cached post p.                 *)
ZAdd(u, p) == [op |-> "ZADD", user |-> u, post |-> p]
ZRem(u, p) == [op |-> "ZREM", user |-> u, post |-> p]
Trim(u)    == [op |-> "ZREMRANGEBYRANK", user |-> u]
DelFeed(u) == [op |-> "DEL feed", user |-> u]
SetPost(p) == [op |-> "SET", post |-> p]
DelPost(p) == [op |-> "DEL post", post |-> p]

Commands ==
    [op : {"ZADD", "ZREM"}, user : Users, post : Posts]
    \union [op : {"ZREMRANGEBYRANK", "DEL feed"}, user : Users]
    \union [op : {"SET", "DEL post"}, post : Posts]

(* The pipeline g waits for trims the feed of u in the end.                *)
Trims(g, u) == sent[g] # <<>> /\ sent[g][Len(sent[g])] = Trim(u)

(* A feed outgrows MAX_FEED_SIZE only while a pipeline that will trim it   *)
(* is under way, or after one broke.                                       *)
FeedBounded ==
    /\ \A u \in Users : Cardinality(feed[u]) > MaxFeedSize =>
          u \in untrimmed \/ \E g \in Goroutines : Trims(g, u)
    /\ untrimmed # {} => faults > 0

TypeOK ==
    /\ posts \subseteq Posts
    /\ friends \subseteq everFriends /\ everFriends \subseteq Users \X Users
    /\ replica \in
         [Replicas -> [posts : SUBSET Posts, friends : SUBSET (Users \X Users)]]
    /\ feed \in [Users -> SUBSET Posts]
    /\ FeedBounded
    /\ cached \subseteq Posts
    /\ queue \in Seq(Posts)
    /\ createPc \in [Posts -> {"idle", "enqueue", "done", "failed"}]
    /\ deletePc \in [Posts -> {"idle", "friends", "sent", "failed"}]
    /\ workerPc \in [Workers -> {"pop", "friends", "deliver", "last", "hung"}]
    /\ task \in [Workers -> Posts \union {0}]
    /\ todo \in [Workers -> SUBSET Users]
    /\ buildPc \in [Builders -> {"idle", "friends", "posts", "done"}]
    /\ request \in [Builders -> Request]
    /\ friendIDs \in [Builders -> SUBSET Users]
    /\ sent \in [Goroutines -> Seq(Commands)]
    /\ executed \in [Goroutines -> Nat]
    /\ \A g \in Goroutines : executed[g] = 0 \/ executed[g] < Len(sent[g])
    /\ revived \subseteq Posts
    /\ untrimmed \subseteq Users
    /\ owed \in [Posts -> SUBSET Users]
    /\ faults \in Nat /\ changes \in Nat /\ faults + changes <= MaxTroubles

(* The value of request when a builder has none.                           *)
NoRequest == [last |-> 0, limit |-> PageSize]

Init ==
    /\ posts = {}
    /\ friends = InitFriends
    /\ replica = [d \in Replicas |-> [posts |-> {}, friends |-> InitFriends]]
    /\ feed = [u \in Users |-> {}]
    /\ cached = {}
    /\ queue = <<>>
    /\ createPc = [p \in Posts |-> "idle"]
    /\ deletePc = [p \in Posts |-> "idle"]
    /\ workerPc = [w \in Workers |-> "pop"]
    /\ task = [w \in Workers |-> 0]
    /\ todo = [w \in Workers |-> {}]
    /\ buildPc = [b \in Builders |-> "idle"]
    /\ request = [b \in Builders |-> NoRequest]
    /\ friendIDs = [b \in Builders |-> {}]
    /\ sent = [g \in Goroutines |-> <<>>]
    /\ executed = [g \in Goroutines |-> 0]
    /\ revived = {}
    /\ untrimmed = {}
    /\ owed = [p \in Posts |-> {}]
    /\ everFriends = InitFriends
    /\ faults = 0
    /\ changes = 0

-----------------------------------------------------------------------------
SpendFault  == faults + changes < MaxTroubles /\ faults' = faults + 1
SpendChange == faults + changes < MaxTroubles /\ changes' = changes + 1

(* The call succeeds, or it fails at the cost of a fault.                  *)
MayFail(failed) == IF failed THEN SpendFault ELSE UNCHANGED faults

(* The n newest posts of S: ORDER BY ... LIMIT n, ZREVRANGE 0 n-1, and     *)
(* what ZREMRANGEBYRANK 0 -n-1 leaves.                                     *)
Newest(S, n) == {p \in S : Cardinality({q \in S : q > p}) < n}

(* Mutant: only the rows the user asked for are looked at.                 *)
FriendsAsked(u, rows) == {v \in Users : <<u, v>> \in rows}

(* WHERE (user_id = u OR friend_id = u) AND status = 'approved'            *)
FriendsOf(u, rows) == {v \in Users : <<u, v>> \in rows \/ <<v, u>> \in rows}

(* The users who are friends of u on every replica.                        *)
SteadyFriends(u) ==
    {v \in Users : \A d \in Replicas :
         <<u, v>> \in replica[d].friends \/ <<v, u>> \in replica[d].friends}

-----------------------------------------------------------------------------
(* Pipelines.                                                              *)

(* The sequences that hold each member of S once.                          *)
Orders(S) ==
    {s \in [1..Cardinality(S) -> S] : \A x \in S : \E i \in DOMAIN s : s[i] = x}

(* Exec sends the commands and waits for the answers.                      *)
Exec(g, commands) ==
    /\ sent[g] = <<>>
    /\ sent' = [sent EXCEPT ![g] = commands]
    /\ UNCHANGED executed

EndExec(g) ==
    /\ sent' = [sent EXCEPT ![g] = <<>>]
    /\ executed' = [executed EXCEPT ![g] = 0]

(* The removal of a deleted post has been carried out.                     *)
Purged(p) == deletePc[p] = "sent" /\ sent[p] = <<>>

(* Mutant: -MAX_FEED_SIZE-1 is off by one.                                 *)
TrimmedLess(S) == Newest(S, MaxFeedSize + 1)

(* ZREMRANGEBYRANK 0 -MAX_FEED_SIZE-1                                      *)
Trimmed(S) == Newest(S, MaxFeedSize)

DropFeed(u) ==
    /\ feed' = [feed EXCEPT ![u] = {}]
    /\ untrimmed' = untrimmed \ {u}

OnFeed(g, c) ==
    \/ /\ c.op = "ZADD"
       /\ feed' = [feed EXCEPT ![c.user] = @ \union {c.post}]
       /\ owed' = IF g \in Workers THEN [owed EXCEPT ![c.post] = @ \ {c.user}]
                  ELSE owed
       /\ UNCHANGED untrimmed
    \/ /\ c.op = "ZREM"
       /\ feed' = [feed EXCEPT ![c.user] = @ \ {c.post}]
       /\ UNCHANGED <<untrimmed, owed>>
    \/ /\ c.op = "ZREMRANGEBYRANK"
       /\ feed' = [feed EXCEPT ![c.user] = Trimmed(@)]
       /\ untrimmed' = untrimmed \ {c.user}
       /\ UNCHANGED owed
    \/ /\ c.op = "DEL feed"
       /\ DropFeed(c.user)
       /\ UNCHANGED owed

OnPost(c) ==
    \/ /\ c.op = "SET"
       /\ cached' = cached \union {c.post}
       /\ revived' = IF Purged(c.post) THEN revived \union {c.post} ELSE revived
    \/ /\ c.op = "DEL post"
       /\ cached' = cached \ {c.post}
       /\ UNCHANGED revived

(* Redis executes the next command of g.  When the connection breaks after *)
(* it, go-redis may send all of them again.                                *)
ExecuteCommand(g) ==
    /\ sent[g] # <<>>
    /\ LET c == sent[g][executed[g] + 1] IN
         \/ OnFeed(g, c) /\ UNCHANGED <<cached, revived>>
         \/ OnPost(c) /\ UNCHANGED <<feed, untrimmed, owed>>
    /\ \/ /\ executed[g] + 1 < Len(sent[g])
          /\ executed' = [executed EXCEPT ![g] = @ + 1]
          /\ UNCHANGED <<sent, faults>>
       \/ /\ executed[g] + 1 = Len(sent[g])
          /\ EndExec(g)
          /\ UNCHANGED faults
       \/ /\ SpendFault
          /\ executed' = [executed EXCEPT ![g] = 0]
          /\ UNCHANGED sent
    /\ UNCHANGED <<dbVars, queue, createPc, deletePc, workerVars, buildVars,
                   everFriends, changes>>

Adds(g, u, p) == \E i \in DOMAIN sent[g] : sent[g][i] = ZAdd(u, p)

(* The connection breaks and the rest of the pipeline is lost; nobody      *)
(* looks at the error.                                                     *)
LoseRest(g) ==
    /\ sent[g] # <<>>
    /\ SpendFault
    /\ EndExec(g)
    /\ untrimmed' = untrimmed \union {u \in Users : Trims(g, u)}
    /\ owed' = [p \in Posts |-> {u \in owed[p] : ~(g \in Workers /\ Adds(g, u, p))}]
    /\ deletePc' = [p \in Posts |-> IF p = g THEN "failed" ELSE deletePc[p]]
    /\ UNCHANGED <<dbVars, feed, cached, revived, queue, createPc,
                   workerVars, buildVars, everFriends, changes>>

-----------------------------------------------------------------------------
(* CreatePost and the goroutine it starts, EnqueueFeedUpdate.              *)

(* Insert on the master.  On an error nothing is enqueued, though the row  *)
(* may be there.                                                           *)
CreatePost(p) ==
    /\ createPc[p] = "idle"
    /\ \A q \in Posts : q < p => createPc[q] # "idle"
    /\ \E failed, stored \in BOOLEAN :
         /\ failed \/ stored
         /\ MayFail(failed)
         /\ posts' = IF stored THEN posts \union {p} ELSE posts
         /\ createPc' =
              [createPc EXCEPT ![p] = IF failed THEN "failed" ELSE "enqueue"]
    /\ owed' = [owed EXCEPT ![p] = SteadyFriends(Author[p])]
    /\ UNCHANGED <<friends, replica, cacheVars, queue, deletePc, workerVars,
                   buildVars, pipeVars, everFriends, changes>>

(* RPUSH.  A lost reply makes go-redis push the task twice; an error of    *)
(* the push, or a crash before it, loses the task and nobody notices.      *)
EnqueueFeedUpdate(p) ==
    /\ createPc[p] = "enqueue"
    /\ \E copies \in 0..2 :
         /\ MayFail(copies # 1)
         /\ queue' = queue \o [i \in 1..copies |-> p]
         /\ createPc' =
              [createPc EXCEPT ![p] = IF copies = 0 THEN "failed" ELSE "done"]
    /\ UNCHANGED <<dbVars, cacheVars, deletePc, workerVars, buildVars,
                   pipeVars, owed, everFriends, changes>>

-----------------------------------------------------------------------------
(* worker, processCreatePost and updateFriendsFeeds.                       *)

(* Mutant: the task is read without being removed.                         *)
TakeTaskPeeks(w) ==
    /\ workerPc[w] = "pop"
    /\ queue # <<>>
    /\ task' = [task EXCEPT ![w] = Head(queue)]
    /\ workerPc' = [workerPc EXCEPT ![w] = "friends"]
    /\ UNCHANGED <<dbVars, cacheVars, queue, createPc, deletePc, todo,
                   buildVars, pipeVars, owed, everFriends, faults, changes>>

(* BLPOP removes the task from the list for good; when its answer is lost  *)
(* the task is lost with it.                                               *)
TakeTask(w) ==
    /\ workerPc[w] = "pop"
    /\ queue # <<>>
    /\ queue' = Tail(queue)
    /\ \/ /\ task' = [task EXCEPT ![w] = Head(queue)]
          /\ workerPc' = [workerPc EXCEPT ![w] = "friends"]
          /\ UNCHANGED faults
       \/ SpendFault /\ UNCHANGED <<task, workerPc>>
    /\ UNCHANGED <<dbVars, cacheVars, createPc, deletePc, todo,
                   buildVars, pipeVars, owed, everFriends, changes>>

LeaveTask(w) ==
    /\ workerPc' = [workerPc EXCEPT ![w] = "pop"]
    /\ task' = [task EXCEPT ![w] = 0]
    /\ todo' = [todo EXCEPT ![w] = {}]

(* Read the friends and the author on a replica; if either query fails the *)
(* task is given up.                                                       *)
ReadFriends(w) ==
    /\ workerPc[w] = "friends"
    /\ \/ /\ \E d \in Replicas :
               todo' = [todo EXCEPT ![w] =
                   FriendsOf(Author[task[w]], replica[d].friends)]
          /\ workerPc' = [workerPc EXCEPT ![w] = "deliver"]
          /\ UNCHANGED <<task, faults>>
       \/ SpendFault /\ LeaveTask(w)
    /\ UNCHANGED <<dbVars, cacheVars, queue, createPc, deletePc,
                   buildVars, pipeVars, owed, everFriends, changes>>

(* addPostToUserFeed.  The TTL it sets last is not kept: a feed may expire *)
(* at any time.                                                            *)
AddPostToUserFeed(u, p) == <<ZAdd(u, p), SetPost(p), Trim(u)>>

(* The push of a feed event that follows changes nothing here, but it need *)
(* not return: when RabbitMQ is out of reach the worker writes to the      *)
(* user's websockets itself, without a deadline, and a client that does    *)
(* not read holds it for ever (FeedPush).                                  *)
PushEvent(w, next) ==
    \/ workerPc' = [workerPc EXCEPT ![w] = next] /\ UNCHANGED faults
    \/ workerPc' = [workerPc EXCEPT ![w] = "hung"] /\ SpendFault

DeliverToFriend(w) ==
    /\ workerPc[w] = "deliver"
    /\ \E u \in todo[w] :
         /\ todo' = [todo EXCEPT ![w] = @ \ {u}]
         /\ Exec(w, AddPostToUserFeed(u, task[w]))
    /\ PushEvent(w, "deliver")
    /\ UNCHANGED <<dbVars, cacheVars, queue, createPc, deletePc, task,
                   buildVars, owed, everFriends, changes>>

(* The author's own feed comes last.                                       *)
DeliverToAuthor(w) ==
    /\ workerPc[w] = "deliver"
    /\ todo[w] = {}
    /\ Exec(w, AddPostToUserFeed(Author[task[w]], task[w]))
    /\ PushEvent(w, "last")
    /\ UNCHANGED <<dbVars, cacheVars, queue, createPc, deletePc, task, todo,
                   buildVars, owed, everFriends, changes>>

FannedOut(w) == workerPc[w] = "last" /\ sent[w] = <<>>

(* The worker goes for a new task.                                         *)
EndTask(w) ==
    /\ FannedOut(w)
    /\ LeaveTask(w)
    /\ UNCHANGED <<dbVars, cacheVars, queue, createPc, deletePc, buildVars,
                   pipeVars, owed, everFriends, faults, changes>>

(* The backend dies with the task, not with the commands Redis has; the    *)
(* goroutine that replaces it starts with an empty hand.                   *)
CrashWorker(w) ==
    /\ workerPc[w] # "pop"
    /\ SpendFault
    /\ LeaveTask(w)
    /\ UNCHANGED <<dbVars, cacheVars, queue, createPc, deletePc,
                   buildVars, pipeVars, owed, everFriends, changes>>

Worker(w) ==
    TakeTask(w) \/ ReadFriends(w) \/ DeliverToFriend(w) \/ DeliverToAuthor(w)
    \/ EndTask(w)

-----------------------------------------------------------------------------
(* DeletePost and the goroutine it starts, removePostFromFeeds.            *)

(* The owner's row is found and deleted on the master.  When the answer is *)
(* lost the post is gone and the caches are left alone.                    *)
DeletePost(p) ==
    /\ deletePc[p] = "idle"
    /\ p \in posts
    /\ \E failed \in BOOLEAN :
         /\ MayFail(failed)
         /\ deletePc' =
              [deletePc EXCEPT ![p] = IF failed THEN "failed" ELSE "friends"]
    /\ posts' = posts \ {p}
    /\ UNCHANGED <<friends, replica, cacheVars, queue, createPc,
                   workerVars, buildVars, pipeVars, owed, everFriends, changes>>

(* Mutant: the post itself stays in the cache.                             *)
PurgeListsOnly(users, p) == [i \in DOMAIN users |-> ZRem(users[i], p)]

PurgeCommands(users, p) ==
    Append([i \in DOMAIN users |-> ZRem(users[i], p)], DelPost(p))

(* The friends of today, as a replica knows them; then one pipeline, the   *)
(* author's feed first and the friends' in any order.                      *)
RemovePostFromFeeds(p) ==
    /\ deletePc[p] = "friends"
    /\ \/ /\ \E d \in Replicas :
               \E order \in Orders(FriendsOf(Author[p], replica[d].friends)) :
                   Exec(p, PurgeCommands(<<Author[p]>> \o order, p))
          /\ deletePc' = [deletePc EXCEPT ![p] = "sent"]
          /\ UNCHANGED faults
       \/ /\ SpendFault
          /\ deletePc' = [deletePc EXCEPT ![p] = "failed"]
          /\ UNCHANGED pipeVars
    /\ UNCHANGED <<dbVars, cacheVars, queue, createPc, workerVars, buildVars,
                   owed, everFriends, changes>>

-----------------------------------------------------------------------------
(* GetUserFeed and RebuildUserFeed.                                        *)

(* getFeedFromCache: the page after last.  ZREVRANK of an id that is not   *)
(* in the feed reads as 0, so the newest post is skipped.  The ids and the *)
(* posts, which the code reads with two commands, are read at once.        *)
PageFromCache(u, last, limit) ==
    LET skipped == CASE last = 0       -> {}
                     [] last \in feed[u] -> {q \in feed[u] : q >= last}
                     [] OTHER          -> Newest(feed[u], 1)
    IN Newest(feed[u] \ skipped, limit) \intersect cached

(* GET /feed finds no page in the cache, or cannot read it: the page is    *)
(* built from the database.  A page that is found changes nothing.         *)
GetUserFeed(b, last) ==
    /\ buildPc[b] = "idle"
    /\ MayFail(PageFromCache(Reader[b], last, PageSize) # {})
    /\ request' = [request EXCEPT ![b] = [last |-> last, limit |-> PageSize]]
    /\ buildPc' = [buildPc EXCEPT ![b] = "friends"]
    /\ UNCHANGED <<dbVars, cacheVars, queue, createPc, deletePc, workerVars,
                   friendIDs, pipeVars, owed, everFriends, changes>>

(* RebuildUserFeed, asked for one user or, by RebuildAllFeeds, for each in *)
(* turn: the feed is dropped first.                                        *)
RebuildUserFeed(b) ==
    /\ buildPc[b] = "idle"
    /\ DropFeed(Reader[b])
    /\ request' = [request EXCEPT ![b] = [last |-> 0, limit |-> MaxFeedSize]]
    /\ buildPc' = [buildPc EXCEPT ![b] = "friends"]
    /\ UNCHANGED <<dbVars, cached, revived, queue, createPc, deletePc,
                   workerVars, friendIDs, pipeVars, owed, everFriends,
                   faults, changes>>

EndBuild(b) ==
    /\ buildPc' = [buildPc EXCEPT ![b] = "done"]
    /\ request' = [request EXCEPT ![b] = NoRequest]
    /\ friendIDs' = [friendIDs EXCEPT ![b] = {}]

(* buildFeedFromDB, first query.  A user without friends gets an empty     *)
(* feed, which is not cached.                                              *)
BuildFriends(b) ==
    /\ buildPc[b] = "friends"
    /\ \E d \in Replicas :
         LET found == FriendsOf(Reader[b], replica[d].friends) IN
         IF found = {} THEN EndBuild(b)
         ELSE /\ friendIDs' = [friendIDs EXCEPT ![b] = found \union {Reader[b]}]
              /\ buildPc' = [buildPc EXCEPT ![b] = "posts"]
              /\ UNCHANGED request
    /\ UNCHANGED <<dbVars, cacheVars, queue, createPc, deletePc, workerVars,
                   pipeVars, owed, everFriends, faults, changes>>

(* The newest post of a page comes first.                                  *)
PageOrders(S) ==
    {s \in Orders(S) : \A i, j \in DOMAIN s : i < j => s[i] > s[j]}

CacheCommands(u, list) ==
    <<DelFeed(u)>>
    \o [i \in 1..(2 * Len(list)) |->
            IF i % 2 = 1 THEN ZAdd(u, list[(i + 1) \div 2])
            ELSE SetPost(list[i \div 2])]
    \o <<Trim(u)>>

(* cacheFeed, in a goroutine of its own for GetUserFeed: the page replaces *)
(* the feed, whichever page it is.  An empty page is not cached.           *)
CacheFeed(b, page) ==
    IF page = {} THEN UNCHANGED pipeVars
    ELSE \E list \in PageOrders(page) : Exec(b, CacheCommands(Reader[b], list))

(* Mutant: the posts of all users.                                         *)
BuildFromAll(b) ==
    /\ buildPc[b] = "posts"
    /\ \E d \in Replicas :
         CacheFeed(b, Newest(replica[d].posts, request[b].limit))
    /\ EndBuild(b)
    /\ UNCHANGED <<dbVars, cacheVars, queue, createPc, deletePc, workerVars,
                   owed, everFriends, faults, changes>>

(* buildFeedFromDB, second query, perhaps on another replica, and          *)
(* cacheFeed.                                                              *)
BuildPosts(b) ==
    /\ buildPc[b] = "posts"
    /\ \E d \in Replicas :
         LET r == request[b]
             mine == {p \in replica[d].posts : Author[p] \in friendIDs[b]}
         IN CacheFeed(b, Newest({p \in mine : r.last = 0 \/ p < r.last}, r.limit))
    /\ EndBuild(b)
    /\ UNCHANGED <<dbVars, cacheVars, queue, createPc, deletePc, workerVars,
                   owed, everFriends, faults, changes>>

(* A query fails, or the process dies.                                     *)
BuildFails(b) ==
    /\ buildPc[b] \notin {"idle", "done"}
    /\ SpendFault
    /\ EndBuild(b)
    /\ UNCHANGED <<dbVars, cacheVars, queue, createPc, deletePc, workerVars,
                   pipeVars, owed, everFriends, changes>>

Build(b) ==
    \/ \E last \in LastIDs : GetUserFeed(b, last)
    \/ RebuildUserFeed(b)
    \/ BuildFriends(b) \/ BuildPosts(b) \/ BuildFails(b)

-----------------------------------------------------------------------------
(* DELETE /admin/cache/feed/:user_id, the TTL of a feed, or its eviction.  *)
InvalidateUserFeed(u) ==
    /\ feed[u] # {}
    /\ SpendChange
    /\ DropFeed(u)
    /\ UNCHANGED <<dbVars, cached, revived, queue, createPc, deletePc,
                   workerVars, buildVars, pipeVars, owed, everFriends, faults>>

(* The TTL of a cached post, which can be older than the feed's, or its    *)
(* eviction.                                                               *)
ExpirePost(p) ==
    /\ p \in cached
    /\ SpendChange
    /\ cached' = cached \ {p}
    /\ UNCHANGED <<dbVars, feed, revived, untrimmed, queue, createPc, deletePc,
                   workerVars, buildVars, pipeVars, owed, everFriends, faults>>

(* ApproveFriend on a pending request of u to v, which feeds ignore.       *)
ApproveFriend(u, v) ==
    /\ u # v
    /\ v \notin FriendsOf(u, friends)
    /\ SpendChange
    /\ friends' = friends \union {<<u, v>>}
    /\ everFriends' = everFriends \union {<<u, v>>}
    /\ UNCHANGED <<posts, replica, cacheVars, queue, createPc, deletePc,
                   workerVars, buildVars, pipeVars, owed, faults>>

(* DeleteFriend removes the rows both ways and touches no cache.           *)
DeleteFriend(u, v) ==
    /\ v \in FriendsOf(u, friends)
    /\ SpendChange
    /\ friends' = friends \ {<<u, v>>, <<v, u>>}
    /\ UNCHANGED <<posts, replica, cacheVars, queue, createPc, deletePc,
                   workerVars, buildVars, pipeVars, owed, everFriends, faults>>

(* A replica catches up with the master.                                   *)
Replicate(d) ==
    /\ replica' = [replica EXCEPT ![d] = [posts |-> posts, friends |-> friends]]
    /\ owed' = [p \in Posts |-> owed[p] \intersect SteadyFriends(Author[p])']
    /\ UNCHANGED <<posts, friends, cacheVars, queue, createPc, deletePc,
                   workerVars, buildVars, pipeVars, everFriends, faults, changes>>

Next ==
    \/ \E p \in Posts : CreatePost(p) \/ EnqueueFeedUpdate(p)
    \/ \E p \in Deletions : DeletePost(p) \/ RemovePostFromFeeds(p)
    \/ \E w \in Workers : Worker(w) \/ CrashWorker(w)
    \/ \E b \in Builders : Build(b)
    \/ \E g \in Goroutines : ExecuteCommand(g) \/ LoseRest(g)
    \/ \E u \in Users : InvalidateUserFeed(u)
    \/ \E p \in Posts : ExpirePost(p)
    \/ \E c \in Changing : ApproveFriend(c[1], c[2]) \/ DeleteFriend(c[1], c[2])
    \/ \E d \in Replicas : Replicate(d)

Spec == Init /\ [][Next]_vars

(* Workers that are not held by a push are scheduled and Redis executes    *)
(* what it has received from them; clients and replication owe nothing.    *)
FairSpec == Spec /\ \A w \in Workers : WF_vars(Worker(w) \/ ExecuteCommand(w))

-----------------------------------------------------------------------------
(* The posts the feed of u shows.                                          *)
Visible(u) == feed[u] \intersect cached

(* After removePostFromFeeds a deleted post is shown in no feed, not even  *)
(* in one of a former friend or of a friend the replica had not heard of,  *)
(* where its id stays behind, unless a task or a page taken before the     *)
(* removal caches it again.                                                *)
PurgedIsHidden ==
    \A u \in Users : \A p \in Visible(u) :
        Purged(p) => p \in revived

(* A feed holds posts of its user, of friends and of former friends: no    *)
(* page or task brings in a stranger's post, through lagging replicas and  *)
(* changing friendships.  That the posts of former friends stay until the  *)
(* feed is rebuilt or expires is what the code does, as neither handler of *)
(* friendships touches a cache, and not what doc/FEED_SYSTEM.md:109 says   *)
(* ("При добавлении/удалении друзей", under "Инвалидация кеша").           *)
Former(u) == FriendsOf(u, everFriends) \ FriendsOf(u, friends)

FeedOfFriends ==
    \A u \in Users : \A p \in feed[u] :
        Author[p] \in {u} \union FriendsOf(u, friends) \union Former(u)

(* A fan-out skips nobody: once a worker has come to the end of it,        *)
(* whoever has been a friend of the author on every replica since the post *)
(* was made, whichever of the two asked and however friendships and        *)
(* replicas have changed meanwhile, has had the post put in the feed, but  *)
(* for the friends in whose own delivery the connection broke.             *)
FanOutReachesFriends == \A w \in Workers : FannedOut(w) => owed[task[w]] = {}

(* A task that was enqueued is taken and dealt with in the end, whatever   *)
(* fails meanwhile: it stays neither in the list nor in the hands of a     *)
(* worker that runs.  Only when pushes hold all the workers for good does  *)
(* the list stand still.                                                   *)
Pending(p) ==
    \/ \E i \in DOMAIN queue : queue[i] = p
    \/ \E w \in Workers : task[w] = p /\ workerPc[w] # "hung"

AllHung == \A w \in Workers : workerPc[w] = "hung"

EnqueuedIsFannedOut ==
    \A p \in Posts : <>[]AllHung \/ (createPc[p] = "done" ~> ~Pending(p))

(* What the doc says of deletions ("Правильную инвалидацию кеша при        *)
(* создании/удалении постов", doc/FEED_SYSTEM.md:9): once it is over, no   *)
(* feed shows the post.                                                    *)
DeletedIsHidden ==
    faults = 0 =>
        \A u \in Users : \A p \in Visible(u) : ~Purged(p)
=============================================================================

----------------------------- MODULE FeedProofs -----------------------------
(***************************************************************************)
(* Theorems about Feed, for any number of users, posts, workers, builders  *)
(* and replicas, any sizes of feeds and pages, and any number of failures  *)
(* and changing friendships.                                               *)
(***************************************************************************)
EXTENDS Feed, FiniteSetTheorems, TLAPS

(* The user and everyone who is or was a friend.                           *)
Known(u) == {u} \union FriendsOf(u, everFriends)

(* FeedOfFriends, of the rows there have ever been.                        *)
FeedsKnown == \A u \in Users : \A p \in feed[u] : Author[p] \in Known(u)

(* No replica shows a friendship that never was.                           *)
RowsKnown == \A d \in Replicas : replica[d].friends \subseteq everFriends

(* A worker past its BLPOP has a post, and delivers it to friends, past    *)
(* ones included.                                                          *)
WorkersHold ==
    \A w \in Workers :
        /\ workerPc[w] # "pop" => task[w] \in Posts
        /\ workerPc[w] = "deliver" =>
             todo[w] \subseteq FriendsOf(Author[task[w]], everFriends)
        /\ workerPc[w] = "last" => todo[w] = {}

(* A builder past its first query has friends.                             *)
BuildersHold ==
    \A b \in Builders :
        buildPc[b] = "posts" => friendIDs[b] \subseteq Known(Reader[b])

(* A pipeline adds posts to the feeds of friends, and trims last the feed  *)
(* it adds to; the one that removes a post drops the post itself last.     *)
PipeKnown(g, s) ==
    /\ \A u \in Users, p \in Posts : \A i \in 1..Len(s) :
         s[i] = ZAdd(u, p) => Author[p] \in Known(u) /\ s[Len(s)] = Trim(u)
    /\ g \in Posts /\ s # <<>> => s[Len(s)] = DelPost(g)

PipesKnown == \A g \in Goroutines : PipeKnown(g, sent[g])

(* PurgedIsHidden without the feeds: what is cached after its removal was  *)
(* cached again.                                                           *)
Hidden == \A p \in cached : Purged(p) => p \in revived

(* Tasks are of posts that were made.                                      *)
TasksMade ==
    /\ \A i \in 1..Len(queue) : createPc[queue[i]] # "idle"
    /\ \A w \in Workers : workerPc[w] # "pop" => createPc[task[w]] # "idle"

(* Every replica shows whoever is owed a post as a friend of its author,   *)
(* so that no worker that looks for friends misses one.                    *)
OwedAreFriends ==
    \A p \in Posts : \A d \in Replicas :
        owed[p] \subseteq FriendsOf(Author[p], replica[d].friends)

(* A worker has everybody who is owed its post still ahead of it, in its   *)
(* list or in the pipeline it waits for.                                   *)
Awaits(w, u, p) ==
    \E i \in 1..Len(sent[w]) : i > executed[w] /\ sent[w][i] = ZAdd(u, p)

NobodySkipped ==
    \A w \in Workers : workerPc[w] \in {"deliver", "last"} =>
        \A u \in owed[task[w]] : u \in todo[w] \/ Awaits(w, u, task[w])

(* The parts of TypeOK.                                                    *)
TablesOK ==
    /\ posts \subseteq Posts
    /\ friends \subseteq everFriends /\ everFriends \subseteq Users \X Users
    /\ replica \in
         [Replicas -> [posts : SUBSET Posts, friends : SUBSET (Users \X Users)]]

CachesOK ==
    /\ feed \in [Users -> SUBSET Posts]
    /\ cached \subseteq Posts /\ revived \subseteq Posts
    /\ untrimmed \subseteq Users

TasksOK ==
    /\ queue \in Seq(Posts)
    /\ createPc \in [Posts -> {"idle", "enqueue", "done", "failed"}]
    /\ deletePc \in [Posts -> {"idle", "friends", "sent", "failed"}]
    /\ owed \in [Posts -> SUBSET Users]

WorkersOK ==
    /\ workerPc \in [Workers -> {"pop", "friends", "deliver", "last", "hung"}]
    /\ task \in [Workers -> Posts \union {0}]
    /\ todo \in [Workers -> SUBSET Users]

BuildersOK ==
    /\ buildPc \in [Builders -> {"idle", "friends", "posts", "done"}]
    /\ request \in [Builders -> Request]
    /\ friendIDs \in [Builders -> SUBSET Users]

PipesOK ==
    /\ sent \in [Goroutines -> Seq(Commands)]
    /\ executed \in [Goroutines -> Nat]
    /\ \A g \in Goroutines : executed[g] = 0 \/ executed[g] < Len(sent[g])

TroublesOK ==
    /\ faults \in Nat /\ changes \in Nat /\ faults + changes <= MaxTroubles

IInv ==
    /\ TablesOK /\ CachesOK /\ TasksOK /\ WorkersOK /\ BuildersOK /\ PipesOK /\ TroublesOK
    /\ FeedBounded
    /\ RowsKnown
    /\ WorkersHold
    /\ BuildersHold
    /\ FeedsKnown
    /\ PipesKnown
    /\ Hidden
    /\ TasksMade
    /\ OwedAreFriends
    /\ NobodySkipped

-----------------------------------------------------------------------------
(* Newest keeps at most n posts: of any two of them the older has more     *)
(* newer ones, so that the number of newer ones tells them apart.          *)
LEMMA NewestBounded ==
    ASSUME NEW S \in SUBSET Posts, NEW n \in Nat
    PROVE  Newest(S, n) \subseteq S /\ Cardinality(Newest(S, n)) <= n
<1> DEFINE Newer(p) == {q \in S : q > p}
           rank == [p \in Newest(S, n) |-> Cardinality(Newer(p))]
<1>1. IsFiniteSet(S) /\ S \subseteq Nat
  BY FeedAssumption, FS_Subset
<1>2. \A p \in S : IsFiniteSet(Newer(p)) /\ Cardinality(Newer(p)) \in Nat
  BY <1>1, FS_Subset, FS_CardinalityType
<1>3. Newest(S, n) \subseteq S /\ \A p \in Newest(S, n) : Cardinality(Newer(p)) < n
  BY DEF Newest
<1>4. rank \in [Newest(S, n) -> 0..(n - 1)]
  <2>1. \A p \in Newest(S, n) : Cardinality(Newer(p)) \in 0..(n - 1)
    BY <1>2, <1>3
  <2> HIDE DEF Newer
  <2> QED
    BY <2>1
<1>5. ASSUME NEW p \in Newest(S, n), NEW q \in Newest(S, n), p < q
      PROVE  Cardinality(Newer(q)) # Cardinality(Newer(p))
  <2> p \in Nat /\ q \in S /\ q \in Nat /\ \A r \in S : r \in Nat
    BY <1>1, <1>3
  <2> HIDE DEF Newest
  <2>1. Newer(q) \subseteq Newer(p)
    <3>1. ASSUME NEW r \in S, r > q
          PROVE  r > p
      <4>1. r \in Nat /\ p \in Nat /\ q \in Nat
        OBVIOUS
      <4> QED
        BY <4>1, <3>1, <1>5
    <3> QED
      BY <3>1
  <2>2. q \in Newer(p) /\ q \notin Newer(q)
    BY <1>5
  <2>3. IsFiniteSet(Newer(p))
    BY <1>2, <1>3
  <2> HIDE DEF Newer
  <2> QED
    BY <2>1, <2>2, <2>3, FS_Subset
<1>6. rank \in Injection(Newest(S, n), 0..(n - 1))
  <2>1. ASSUME NEW p \in Newest(S, n), NEW q \in Newest(S, n), rank[p] = rank[q]
        PROVE  p = q
    <3>1. Cardinality(Newer(p)) = Cardinality(Newer(q))
      BY <2>1
    <3>2. ~ (p < q) /\ ~ (q < p)
      BY <3>1, <1>5
    <3>3. p \in Nat /\ q \in Nat
      BY <1>1, <1>3
    <3> QED
      BY <3>2, <3>3
  <2> HIDE DEF rank
  <2> QED
    BY <1>4, <2>1 DEF Injection, IsInjective
<1>7. IsFiniteSet(0..(n - 1)) /\ Cardinality(0..(n - 1)) = n
  BY FS_Interval
<1> HIDE DEF rank
<1>8. Cardinality(Newest(S, n)) <= Cardinality(0..(n - 1))
  BY <1>6, <1>7, FS_Injection
<1> QED
  BY <1>3, <1>7, <1>8


(* FriendsOf is symmetric and grows with the rows.                         *)
LEMMA FriendsSymmetric ==
    ASSUME NEW R, NEW Q, R \subseteq Q, NEW u \in Users
    PROVE  /\ FriendsOf(u, R) \subseteq FriendsOf(u, Q)
           /\ FriendsOf(u, R) \subseteq Users
           /\ \A v \in FriendsOf(u, R) : u \in FriendsOf(v, R)
BY DEF FriendsOf

(* The order in which users are visited, or posts sent, is a sequence.     *)
LEMMA OrdersAreSequences ==
    ASSUME NEW S, IsFiniteSet(S), NEW s \in Orders(S)
    PROVE  s \in Seq(S) /\ (S # {} => s # <<>>)
<1>1. Cardinality(S) \in Nat /\ s \in [1..Cardinality(S) -> S]
  BY FS_CardinalityType DEF Orders
<1>2. s \in Seq(S) /\ Len(s) = Cardinality(S)
  BY <1>1
<1>3. S # {} => s # <<>>
  BY <1>2, FS_EmptySet
<1> QED
  BY <1>2, <1>3

(* The forms of a command.                                                 *)
LEMMA CommandForms ==
    ASSUME NEW c \in Commands
    PROVE  /\ c.op = "ZADD" =>
                c.user \in Users /\ c.post \in Posts /\ c = ZAdd(c.user, c.post)
           /\ c.op = "ZREM" =>
                c.user \in Users /\ c.post \in Posts /\ c = ZRem(c.user, c.post)
           /\ c.op = "ZREMRANGEBYRANK" => c.user \in Users /\ c = Trim(c.user)
           /\ c.op = "DEL feed" => c.user \in Users /\ c = DelFeed(c.user)
           /\ c.op = "SET" => c.post \in Posts /\ c = SetPost(c.post)
           /\ c.op = "DEL post" => c.post \in Posts /\ c = DelPost(c.post)
BY DEF Commands, ZAdd, ZRem, Trim, DelFeed, SetPost, DelPost

(* Commands of different forms differ, and so do those on other feeds.     *)
LEMMA CommandsDiffer ==
    ASSUME NEW u, NEW v, NEW p, NEW q
    PROVE  /\ ZAdd(u, p) = ZAdd(v, q) => u = v /\ p = q
           /\ Trim(u) = Trim(v) => u = v
           /\ DelPost(p) = DelPost(q) => p = q
           /\ ZRem(u, p) # ZAdd(v, q) /\ Trim(u) # ZAdd(v, q)
           /\ DelFeed(u) # ZAdd(v, q) /\ SetPost(p) # ZAdd(v, q)
           /\ DelPost(p) # ZAdd(v, q)
           /\ ZAdd(u, p) # Trim(v) /\ ZRem(u, p) # Trim(v)
           /\ DelFeed(u) # Trim(v)
           /\ SetPost(p) # DelPost(q)
<1>1. /\ ZAdd(u, p).op = "ZADD" /\ ZAdd(u, p).user = u /\ ZAdd(u, p).post = p
      /\ ZAdd(v, q).op = "ZADD" /\ ZAdd(v, q).user = v /\ ZAdd(v, q).post = q
  BY DEF ZAdd
<1>2. /\ ZRem(u, p).op = "ZREM" /\ DelFeed(u).op = "DEL feed" /\ SetPost(p).op = "SET"
      /\ Trim(u).op = "ZREMRANGEBYRANK" /\ Trim(u).user = u
      /\ Trim(v).op = "ZREMRANGEBYRANK" /\ Trim(v).user = v
      /\ DelPost(p).op = "DEL post" /\ DelPost(p).post = p
      /\ DelPost(q).op = "DEL post" /\ DelPost(q).post = q
  BY DEF ZRem, DelFeed, SetPost, Trim, DelPost
<1> QED
  BY <1>1, <1>2

(* A sequence with an element in front, or at the end.                     *)
LEMMA Prepended ==
    ASSUME NEW S, NEW a \in Seq(S), NEW x \in S
    PROVE  /\ <<x>> \o a \in Seq(S) /\ Len(<<x>> \o a) = Len(a) + 1
           /\ (<<x>> \o a)[1] = x
           /\ \A i \in 1..Len(a) : (<<x>> \o a)[i + 1] = a[i]
OBVIOUS

LEMMA Appended ==
    ASSUME NEW S, NEW a \in Seq(S), NEW x \in S
    PROVE  /\ a \o <<x>> \in Seq(S) /\ Len(a \o <<x>>) = Len(a) + 1
           /\ \A i \in 1..Len(a) : (a \o <<x>>)[i] = a[i]
           /\ (a \o <<x>>)[Len(a) + 1] = x
           /\ a \o <<x>> # <<>>
OBVIOUS

-----------------------------------------------------------------------------
(* The pipelines the code sends.                                           *)

(* addPostToUserFeed, for the author or a friend.                          *)
LEMMA AddPipeline ==
    ASSUME NEW p \in Posts, NEW u \in Users, Author[p] \in Known(u),
           NEW g \in Workers, NEW s, s = AddPostToUserFeed(u, p)
    PROVE  /\ s \in Seq(Commands) /\ s # <<>>
           /\ PipeKnown(g, s)
           /\ 1 \in 1..Len(s) /\ s[1] = ZAdd(u, p)
<1>1. ZAdd(u, p) \in Commands /\ SetPost(p) \in Commands /\ Trim(u) \in Commands
  BY DEF ZAdd, SetPost, Trim, Commands
<1>2. s = <<ZAdd(u, p), SetPost(p), Trim(u)>>
  BY DEF AddPostToUserFeed
<1>3. /\ s \in Seq(Commands) /\ s # <<>> /\ Len(s) = 3
      /\ s[1] = ZAdd(u, p) /\ s[2] = SetPost(p) /\ s[3] = Trim(u)
  BY <1>1, <1>2
<1>4. ASSUME NEW v \in Users, NEW q \in Posts, NEW i \in 1..Len(s), s[i] = ZAdd(v, q)
      PROVE  v = u /\ q = p
  <2>1. i = 1 \/ i = 2 \/ i = 3
    <3>1. Len(s) = 3
      BY <1>3
    <3> QED
      BY <3>1
  <2>2. SetPost(p) # ZAdd(v, q) /\ Trim(u) # ZAdd(v, q)
    BY CommandsDiffer
  <2>3. s[i] = ZAdd(u, p)
    <3>1. i # 2 /\ i # 3
      BY <1>3, <1>4, <2>2
    <3> QED
      BY <1>3, <2>1, <3>1
  <2>4. ZAdd(u, p) = ZAdd(v, q)
    BY <2>3, <1>4
  <2> QED
    BY <2>4, CommandsDiffer
<1>5. g \notin Posts
  BY FeedAssumption
<1> QED
  BY <1>3, <1>4, <1>5 DEF PipeKnown

(* removePostFromFeeds.                                                    *)
LEMMA PurgePipeline ==
    ASSUME NEW p \in Posts, NEW users \in Seq(Users), NEW s, s = PurgeCommands(users, p)
    PROVE  /\ s \in Seq(Commands) /\ s # <<>>
           /\ PipeKnown(p, s)
<1> DEFINE zrems == [i \in DOMAIN users |-> ZRem(users[i], p)]
           n == Len(users)
<1>1. n \in Nat /\ DOMAIN users = 1..n /\ \A i \in 1..n : users[i] \in Users
  OBVIOUS
<1>2. DelPost(p) \in Commands /\ \A u \in Users : ZRem(u, p) \in Commands
  BY DEF DelPost, ZRem, Commands
<1>3. zrems \in Seq(Commands) /\ Len(zrems) = n /\ \A i \in 1..n : zrems[i] = ZRem(users[i], p)
  <2>1. zrems \in [1..n -> Commands]
    BY <1>1, <1>2
  <2>2. DOMAIN zrems = 1..n
    BY <1>1
  <2> QED
    BY <1>1, <2>1, <2>2
<1>4. s = Append(zrems, DelPost(p))
  BY DEF PurgeCommands
<1> HIDE DEF zrems
<1>5. /\ s \in Seq(Commands) /\ s # <<>> /\ Len(s) = n + 1 /\ s[n + 1] = DelPost(p)
      /\ \A i \in 1..n : s[i] = ZRem(users[i], p)
  BY <1>1, <1>2, <1>3, <1>4
<1>6. ASSUME NEW v \in Users, NEW q \in Posts, NEW i \in 1..Len(s)
      PROVE  s[i] # ZAdd(v, q)
  <2>1. i \in 1..n \/ i = n + 1
    BY <1>1, <1>5
  <2>2. CASE i \in 1..n
    <3>1. s[i] = ZRem(users[i], p)
      BY <1>5, <2>2
    <3> QED
      BY <3>1, CommandsDiffer
  <2>3. CASE i = n + 1
    BY <1>5, <2>3, CommandsDiffer
  <2> QED
    BY <2>1, <2>2, <2>3
<1> QED
  BY <1>5, <1>6 DEF PipeKnown

(* cacheFeed.                                                              *)
LEMMA CachePipeline ==
    ASSUME NEW b \in Builders, NEW u \in Users, NEW list \in Seq(Posts),
           \A i \in 1..Len(list) : Author[list[i]] \in Known(u),
           NEW s, s = CacheCommands(u, list)
    PROVE  /\ s \in Seq(Commands) /\ s # <<>>
           /\ PipeKnown(b, s)
<1> DEFINE n == Len(list)
           body == [i \in 1..(2 * Len(list)) |->
                      IF i % 2 = 1 THEN ZAdd(u, list[(i + 1) \div 2])
                      ELSE SetPost(list[i \div 2])]
<1>1. n \in Nat /\ 2 * n \in Nat /\ \A i \in 1..n : list[i] \in Posts
  OBVIOUS
<1>2. /\ DelFeed(u) \in Commands /\ Trim(u) \in Commands
      /\ \A p \in Posts : ZAdd(u, p) \in Commands /\ SetPost(p) \in Commands
  BY DEF DelFeed, Trim, ZAdd, SetPost, Commands
<1>3. ASSUME NEW i \in 1..(2 * n)
      PROVE  /\ i % 2 = 1 => (i + 1) \div 2 \in 1..n
             /\ i % 2 # 1 => i \div 2 \in 1..n
  BY <1>1
<1>4. ASSUME NEW i \in 1..(2 * n)
      PROVE  \E p \in Posts : /\ Author[p] \in Known(u)
                              /\ body[i] = ZAdd(u, p) \/ body[i] = SetPost(p)
  <2>1. CASE i % 2 = 1
    BY <1>1, <1>3, <2>1
  <2>2. CASE i % 2 # 1
    BY <1>1, <1>3, <2>2
  <2> QED
    BY <2>1, <2>2
<1>5. body \in Seq(Commands) /\ Len(body) = 2 * n
  <2>1. \A i \in 1..(2 * n) : body[i] \in Commands
    <3> HIDE DEF body
    <3> QED
      BY <1>2, <1>4
  <2>2. DOMAIN body = 1..(2 * n)
    OBVIOUS
  <2>3. body = [i \in 1..(2 * n) |-> body[i]]
    OBVIOUS
  <2> HIDE DEF body
  <2>4. body \in [1..(2 * n) -> Commands]
    BY <2>1, <2>3
  <2> QED
    BY <1>1, <2>2, <2>4
<1>6. s = <<DelFeed(u)>> \o body \o <<Trim(u)>>
  BY DEF CacheCommands
<1> HIDE DEF body, n
<1>7. /\ s \in Seq(Commands) /\ s # <<>> /\ Len(s) = 2 * n + 2
      /\ s[1] = DelFeed(u) /\ s[2 * n + 2] = Trim(u)
      /\ \A i \in 1..(2 * n) : s[i + 1] = body[i]
  <2> DEFINE head == <<DelFeed(u)>> \o body
  <2>1. /\ head \in Seq(Commands) /\ Len(head) = 2 * n + 1
        /\ head[1] = DelFeed(u)
        /\ \A i \in 1..(2 * n) : head[i + 1] = body[i]
    BY <1>2, <1>5, Prepended
  <2>2. s = head \o <<Trim(u)>>
    BY <1>6
  <2> HIDE DEF head
  <2>3. /\ s \in Seq(Commands) /\ Len(s) = Len(head) + 1 /\ s # <<>>
        /\ \A i \in 1..Len(head) : s[i] = head[i]
        /\ s[Len(head) + 1] = Trim(u)
    BY <1>2, <2>1, <2>2, Appended
  <2>4. Len(s) = 2 * n + 2 /\ s[2 * n + 2] = Trim(u)
    <3>1. Len(head) + 1 = 2 * n + 2
      BY <1>1, <2>1
    <3> QED
      BY <2>3, <3>1
  <2>5. 1 \in 1..Len(head) /\ \A i \in 1..(2 * n) : i + 1 \in 1..Len(head)
    BY <1>1, <2>1
  <2> QED
    BY <2>1, <2>3, <2>4, <2>5
<1>8. ASSUME NEW v \in Users, NEW p \in Posts, NEW i \in 1..Len(s), s[i] = ZAdd(v, p)
      PROVE  v = u /\ Author[p] \in Known(u)
  <2>1. i = 1 \/ i = 2 * n + 2 \/ i - 1 \in 1..(2 * n)
    <3>1. i \in 1..(2 * n + 2)
      BY <1>7
    <3> QED
      BY <1>1, <3>1
  <2>2. i # 1 /\ i # 2 * n + 2
    <3>1. DelFeed(u) # ZAdd(v, p) /\ Trim(u) # ZAdd(v, p)
      BY CommandsDiffer
    <3> QED
      BY <3>1, <1>7, <1>8
  <2>3. i - 1 \in 1..(2 * n) /\ s[i] = body[i - 1]
    <3>1. i - 1 \in 1..(2 * n) /\ i = (i - 1) + 1
      BY <2>1, <2>2
    <3> QED
      BY <3>1, <1>7
  <2>4. PICK q \in Posts : /\ Author[q] \in Known(u)
                           /\ body[i - 1] = ZAdd(u, q) \/ body[i - 1] = SetPost(q)
    BY <1>4, <2>3
  <2>5. SetPost(q) # ZAdd(v, p) /\ (ZAdd(u, q) = ZAdd(v, p) => u = v /\ q = p)
    BY CommandsDiffer
  <2> QED
    BY <1>8, <2>3, <2>4, <2>5
<1>9. b \notin Posts
  BY FeedAssumption
<1> QED
  BY <1>7, <1>8, <1>9 DEF PipeKnown

-----------------------------------------------------------------------------
(* At first there are no posts.                                            *)
LEMMA InitHolds == Init => IInv
<1> SUFFICES ASSUME Init
             PROVE  IInv
  OBVIOUS
<1>1. TablesOK /\ CachesOK /\ TasksOK /\ WorkersOK
  BY FeedAssumption DEF Init, TablesOK, CachesOK, TasksOK, WorkersOK
<1>2. BuildersOK /\ PipesOK /\ TroublesOK
  BY FeedAssumption DEF Init, BuildersOK, PipesOK, TroublesOK, NoRequest, Request
<1>3. FeedBounded
  BY FS_EmptySet, FeedAssumption DEF Init, FeedBounded
<1>4. RowsKnown /\ WorkersHold /\ BuildersHold /\ FeedsKnown /\ Hidden
  BY DEF Init, RowsKnown, WorkersHold, BuildersHold, FeedsKnown, Hidden
<1>5. PipesKnown
  BY DEF Init, PipesKnown, PipeKnown
<1>6. TasksMade /\ OwedAreFriends /\ NobodySkipped
  BY DEF Init, TasksMade, OwedAreFriends, NobodySkipped
<1> QED
  BY <1>1, <1>2, <1>3, <1>4, <1>5, <1>6 DEF IInv

-----------------------------------------------------------------------------
(* What a step keeps by leaving variables alone.                           *)

(* A step spends at most one of the faults that are left.                  *)
LEMMA FaultsStayBounded ==
    ASSUME IInv, SpendFault \/ UNCHANGED faults, UNCHANGED changes
    PROVE  TroublesOK' /\ faults' >= faults
<1>1. /\ faults \in Nat /\ changes \in Nat /\ faults + changes <= MaxTroubles
      /\ MaxTroubles \in Nat
  BY FeedAssumption DEF IInv, TroublesOK
<1> QED
  BY <1>1 DEF SpendFault, TroublesOK

LEMMA CachesAlone ==
    ASSUME IInv, UNCHANGED <<cacheVars, deletePc, pipeVars, everFriends>>,
           TroublesOK', faults' >= faults
    PROVE  CachesOK' /\ PipesOK' /\ FeedBounded' /\ FeedsKnown' /\ PipesKnown' /\ Hidden'
<1>1. FeedBounded'
  BY DEF IInv, TroublesOK, FeedBounded, Trims, cacheVars, pipeVars
<1>2. PipesKnown'
  BY DEF IInv, PipesKnown, PipeKnown, pipeVars, Known
<1>3. FeedsKnown' /\ Hidden'
  BY DEF IInv, FeedsKnown, Hidden, Purged, Known, cacheVars, pipeVars
<1>4. CachesOK' /\ PipesOK'
  BY DEF IInv, CachesOK, PipesOK, cacheVars, pipeVars
<1> QED
  BY <1>1, <1>2, <1>3, <1>4

LEMMA TablesAlone ==
    ASSUME IInv, UNCHANGED <<dbVars, everFriends>>
    PROVE  TablesOK' /\ RowsKnown'
BY DEF IInv, dbVars, TablesOK, RowsKnown

LEMMA BuildersAlone ==
    ASSUME IInv, UNCHANGED <<buildVars, everFriends>>
    PROVE  BuildersOK' /\ BuildersHold'
BY DEF IInv, buildVars, BuildersOK, BuildersHold, Known

LEMMA WorkersAlone ==
    ASSUME IInv, UNCHANGED <<workerVars, everFriends>>
    PROVE  WorkersOK' /\ WorkersHold'
BY DEF IInv, workerVars, WorkersOK, WorkersHold

LEMMA TasksAlone ==
    ASSUME IInv, UNCHANGED <<queue, createPc, workerVars>>
    PROVE  TasksMade'
BY DEF IInv, workerVars, TasksMade

LEMMA OwedAlone ==
    ASSUME IInv, UNCHANGED <<owed, replica>>
    PROVE  OwedAreFriends'
BY DEF IInv, OwedAreFriends

LEMMA SkippedAlone ==
    ASSUME IInv, UNCHANGED <<workerVars, pipeVars>>,
           \A w \in Workers : workerPc[w] # "pop" => owed'[task[w]] \subseteq owed[task[w]]
    PROVE  NobodySkipped'
BY DEF IInv, workerVars, pipeVars, NobodySkipped, Awaits

(* A feed that only loses posts keeps its bound.                           *)
LEMMA Shrunk ==
    ASSUME IInv, NEW u \in Users, feed'[u] \subseteq feed[u],
           Cardinality(feed'[u]) > MaxFeedSize
    PROVE  Cardinality(feed[u]) > MaxFeedSize
<1>1. IsFiniteSet(feed[u])
  BY FeedAssumption, FS_Subset DEF IInv, CachesOK
<1>2. Cardinality(feed'[u]) <= Cardinality(feed[u])
  BY <1>1, FS_Subset
<1>3. Cardinality(feed'[u]) \in Nat /\ Cardinality(feed[u]) \in Nat /\ MaxFeedSize \in Nat
  BY <1>1, FS_Subset, FS_CardinalityType, FeedAssumption
<1> QED
  BY <1>2, <1>3

(* An empty feed, as a trimmed one, is within the bound.                   *)
LEMMA Within ==
    ASSUME NEW S \in SUBSET Posts
    PROVE  /\ Trimmed(S) \subseteq S
           /\ ~ (Cardinality(Trimmed(S)) > MaxFeedSize)
           /\ ~ (Cardinality({}) > MaxFeedSize)
<1>1. MaxFeedSize \in Nat
  BY FeedAssumption
<1>2. Trimmed(S) \subseteq S /\ Cardinality(Trimmed(S)) <= MaxFeedSize
  BY <1>1, NewestBounded DEF Trimmed
<1>3. IsFiniteSet(Trimmed(S))
  BY <1>2, FeedAssumption, FS_Subset
<1>4. Cardinality(Trimmed(S)) \in Nat
  BY <1>3, FS_CardinalityType
<1>5. Cardinality({}) = 0
  BY FS_EmptySet
<1> QED
  BY <1>1, <1>2, <1>4, <1>5

-----------------------------------------------------------------------------
(* Sending a pipeline.                                                     *)
LEMMA ExecKeeps ==
    ASSUME IInv, NEW g \in Goroutines, NEW commands \in Seq(Commands), commands # <<>>,
           PipeKnown(g, commands), Exec(g, commands),
           UNCHANGED <<cacheVars, everFriends>>, TroublesOK', faults' >= faults,
           \A p \in Posts : p # g => deletePc'[p] = deletePc[p]
    PROVE  /\ CachesOK' /\ PipesOK'
           /\ executed'[g] = 0 /\ sent[g] = <<>> /\ sent'[g] = commands
           /\ \A x \in Goroutines : x # g => sent'[x] = sent[x] /\ executed'[x] = executed[x]
           /\ FeedBounded' /\ FeedsKnown' /\ PipesKnown' /\ Hidden'
<1>1. /\ sent \in [Goroutines -> Seq(Commands)]
      /\ executed \in [Goroutines -> Nat]
      /\ \A x \in Goroutines : executed[x] = 0 \/ executed[x] < Len(sent[x])
      /\ FeedBounded
      /\ cached \subseteq Posts
      /\ faults \in Nat /\ faults' \in Nat
  BY DEF IInv, CachesOK, PipesOK, TroublesOK
<1>2. sent[g] = <<>> /\ sent' = [sent EXCEPT ![g] = commands] /\ executed' = executed
  BY DEF Exec
<1>3. executed[g] = 0
  <2>1. Len(sent[g]) = 0
    BY <1>2
  <2> QED
    BY <1>1, <2>1
<1>4. /\ sent' \in [Goroutines -> Seq(Commands)] /\ sent'[g] = commands
      /\ \A x \in Goroutines : x # g => sent'[x] = sent[x]
  BY <1>1, <1>2
<1>5. FeedBounded'
  <2>1. \A u \in Users, x \in Goroutines : Trims(x, u) => Trims(x, u)'
    BY <1>2, <1>4 DEF Trims
  <2> QED
    BY <1>1, <2>1 DEF FeedBounded, cacheVars
<1>6. FeedsKnown'
  BY DEF IInv, FeedsKnown, Known, cacheVars
<1>7. PipesKnown'
  <2>1. \A x \in Goroutines : PipeKnown(x, sent'[x])
    BY <1>4 DEF IInv, PipesKnown
  <2> QED
    BY <2>1 DEF PipesKnown, PipeKnown, Known
<1>8. Hidden'
  <2>1. ASSUME NEW p \in cached, Purged(p)'
        PROVE  Purged(p)
    <3>1. p \in Posts /\ p \in Goroutines
      BY <1>1 DEF Goroutines
    <3>2. p # g
      BY <1>4, <2>1 DEF Purged
    <3> QED
      BY <1>4, <2>1, <3>1, <3>2 DEF Purged
  <2> QED
    BY <2>1 DEF IInv, Hidden, cacheVars
<1>9. CachesOK' /\ PipesOK'
  BY <1>1, <1>2, <1>3, <1>4 DEF IInv, CachesOK, PipesOK, cacheVars
<1> QED
  BY <1>1, <1>2, <1>3, <1>4, <1>5, <1>6, <1>7, <1>8, <1>9

-----------------------------------------------------------------------------
(* Redis executes a command, or the connection breaks.                     *)

(* How far the pipeline gets when its next command c is executed.          *)
LEMMA Executed ==
    ASSUME IInv, NEW g \in Goroutines, ExecuteCommand(g),
           NEW c, c = sent[g][executed[g] + 1]
    PROVE  /\ c \in Commands
           /\ executed[g] + 1 \in 1..Len(sent[g])
           /\ sent' \in [Goroutines -> Seq(Commands)]
           /\ executed' \in [Goroutines -> Nat]
           /\ \A x \in Goroutines : executed'[x] = 0 \/ executed'[x] < Len(sent'[x])
           /\ \A x \in Goroutines : x # g => sent'[x] = sent[x] /\ executed'[x] = executed[x]
           /\ \/ sent'[g] = sent[g] /\ executed'[g] \in 0..(executed[g] + 1)
              \/ sent'[g] = <<>> /\ executed'[g] = 0 /\ executed[g] + 1 = Len(sent[g])
           /\ SpendFault \/ UNCHANGED faults
<1>1. /\ sent \in [Goroutines -> Seq(Commands)]
      /\ executed \in [Goroutines -> Nat]
      /\ \A x \in Goroutines : executed[x] = 0 \/ executed[x] < Len(sent[x])
      /\ sent[g] \in Seq(Commands) /\ executed[g] \in Nat
  BY DEF IInv, PipesOK
<1>2. sent[g] # <<>>
  BY DEF ExecuteCommand
<1>3. Len(sent[g]) \in Nat /\ Len(sent[g]) > 0
  BY <1>1, <1>2
<1>4. executed[g] + 1 \in 1..Len(sent[g])
  BY <1>1, <1>3
<1>5. c \in Commands
  BY <1>1, <1>4
<1>6. CASE /\ executed[g] + 1 < Len(sent[g])
           /\ executed' = [executed EXCEPT ![g] = @ + 1]
           /\ UNCHANGED <<sent, faults>>
  <2>1. executed' \in [Goroutines -> Nat] /\ executed'[g] = executed[g] + 1
    BY <1>1, <1>6
  <2>2. \A x \in Goroutines : x # g => executed'[x] = executed[x]
    BY <1>1, <1>6
  <2>3. executed'[g] \in 0..(executed[g] + 1) /\ executed'[g] < Len(sent'[g])
    BY <1>1, <1>6, <2>1
  <2> QED
    BY <1>1, <1>4, <1>5, <1>6, <2>1, <2>2, <2>3
<1>7. CASE executed[g] + 1 = Len(sent[g]) /\ EndExec(g) /\ UNCHANGED faults
  <2>1. /\ sent' \in [Goroutines -> Seq(Commands)] /\ sent'[g] = <<>>
        /\ executed' \in [Goroutines -> Nat] /\ executed'[g] = 0
        /\ \A x \in Goroutines : x # g => sent'[x] = sent[x] /\ executed'[x] = executed[x]
    BY <1>1, <1>7 DEF EndExec
  <2> QED
    BY <1>1, <1>4, <1>5, <1>7, <2>1
<1>8. CASE SpendFault /\ executed' = [executed EXCEPT ![g] = 0] /\ UNCHANGED sent
  <2>1. /\ executed' \in [Goroutines -> Nat] /\ executed'[g] = 0
        /\ \A x \in Goroutines : x # g => executed'[x] = executed[x]
    BY <1>1, <1>8
  <2> QED
    BY <1>1, <1>4, <1>5, <1>8, <2>1
<1> QED
  BY <1>6, <1>7, <1>8 DEF ExecuteCommand

(* A command on a feed or a post keeps the bound of feeds: what is added   *)
(* is trimmed later by the same pipeline, and the trim is its last.        *)
LEMMA ExecuteKeepsBound ==
    ASSUME IInv, NEW g \in Goroutines, ExecuteCommand(g)
    PROVE  /\ feed' \in [Users -> SUBSET Posts]
           /\ untrimmed' \subseteq untrimmed
           /\ owed' \in [Posts -> SUBSET Users]
           /\ \A p \in Posts : owed'[p] \subseteq owed[p]
           /\ FeedBounded'
           /\ FeedsKnown'
<1> DEFINE c == sent[g][executed[g] + 1]
<1>1. /\ c \in Commands
      /\ executed[g] + 1 \in 1..Len(sent[g])
      /\ \A x \in Goroutines : x # g => sent'[x] = sent[x]
      /\ \/ sent'[g] = sent[g]
         \/ sent'[g] = <<>> /\ c = sent[g][Len(sent[g])]
      /\ SpendFault \/ UNCHANGED faults
  BY Executed
<1>2. /\ \/ OnFeed(g, c)
         \/ OnPost(c) /\ UNCHANGED <<feed, untrimmed, owed>>
      /\ everFriends' = everFriends /\ changes' = changes
  <2>1. \/ OnFeed(g, c) /\ UNCHANGED <<cached, revived>>
        \/ OnPost(c) /\ UNCHANGED <<feed, untrimmed, owed>>
    BY Zenon DEF ExecuteCommand
  <2>2. everFriends' = everFriends /\ changes' = changes
    BY DEF ExecuteCommand
  <2> QED
    BY <2>1, <2>2
<1> HIDE DEF c
<1>3. /\ feed \in [Users -> SUBSET Posts] /\ owed \in [Posts -> SUBSET Users]
      /\ untrimmed \subseteq Users
      /\ \A u \in Users : Cardinality(feed[u]) > MaxFeedSize =>
           u \in untrimmed \/ \E x \in Goroutines : Trims(x, u)
      /\ untrimmed # {} => faults > 0
  BY DEF IInv, CachesOK, TasksOK, FeedBounded
<1>4. faults \in Nat /\ faults' \in Nat /\ faults' >= faults
  BY <1>1, <1>2, FaultsStayBounded DEF IInv, TroublesOK
<1>5. ASSUME NEW v \in Users, NEW x \in Goroutines, Trims(x, v), c # Trim(v)
      PROVE  Trims(x, v)'
  BY <1>1, <1>5 DEF Trims
<1>6. SUFFICES /\ feed' \in [Users -> SUBSET Posts]
               /\ untrimmed' \subseteq untrimmed
               /\ owed' \in [Posts -> SUBSET Users]
               /\ \A p \in Posts : owed'[p] \subseteq owed[p]
               /\ \A v \in Users : Cardinality(feed'[v]) > MaxFeedSize =>
                    \/ /\ v \in untrimmed'
                    \/ \E x \in Goroutines : Trims(x, v)'
               /\ \A v \in Users : \A p \in feed'[v] : Author[p] \in Known(v)
  <2>1. untrimmed' # {} => faults' > 0
    BY <1>3, <1>4, <1>6
  <2> QED
    BY <1>2, <1>6, <2>1 DEF FeedBounded, FeedsKnown, Known
<1>7. \A v \in Users : \A p \in feed[v] : Author[p] \in Known(v)
  BY DEF IInv, FeedsKnown
<1>8. CASE c.op = "ZADD" /\ OnFeed(g, c)
  <2>1. PICK u \in Users, p \in Posts : c = ZAdd(u, p) /\ c.user = u /\ c.post = p
    BY <1>1, <1>8, CommandForms
  <2>2. /\ feed' = [feed EXCEPT ![u] = @ \union {p}]
        /\ untrimmed' = untrimmed
        /\ owed' = owed \/ owed' = [owed EXCEPT ![p] = @ \ {u}]
    BY <1>8, <2>1 DEF OnFeed
  <2>3. Author[p] \in Known(u) /\ sent[g][Len(sent[g])] = Trim(u)
    BY <1>1, <2>1 DEF IInv, PipesKnown, PipeKnown, c
  <2>4. \A v \in Users : c # Trim(v)
    BY <2>1, CommandsDiffer
  <2>5. Trims(g, u)'
    <3>1. sent[g] # <<>>
      BY DEF ExecuteCommand
    <3> QED
      BY <1>5, <2>3, <2>4, <3>1 DEF Trims
  <2>6. feed' \in [Users -> SUBSET Posts] /\ feed'[u] = feed[u] \union {p}
    BY <1>3, <2>2
  <2>7. \A v \in Users : v # u => feed'[v] = feed[v]
    BY <1>3, <2>2
  <2>8. owed' \in [Posts -> SUBSET Users] /\ \A q \in Posts : owed'[q] \subseteq owed[q]
    BY <1>3, <2>2
  <2> QED
    BY <1>3, <1>5, <1>7, <2>2, <2>3, <2>4, <2>5, <2>6, <2>7, <2>8
<1>9. CASE c.op = "ZREMRANGEBYRANK" /\ OnFeed(g, c)
  <2>1. PICK u \in Users : c = Trim(u) /\ c.user = u
    BY <1>1, <1>9, CommandForms
  <2>2. /\ feed' = [feed EXCEPT ![u] = Trimmed(@)]
        /\ untrimmed' = untrimmed \ {u}
        /\ owed' = owed
    BY <1>9, <2>1 DEF OnFeed
  <2>3. Trimmed(feed[u]) \subseteq feed[u] /\ ~ (Cardinality(Trimmed(feed[u])) > MaxFeedSize)
    BY <1>3, Within
  <2>4. \A v \in Users : v # u => c # Trim(v)
    BY <2>1, CommandsDiffer
  <2>5. feed' \in [Users -> SUBSET Posts] /\ feed'[u] = Trimmed(feed[u])
    BY <1>3, <2>2, <2>3
  <2>6. \A v \in Users : v # u => feed'[v] = feed[v]
    BY <1>3, <2>2
  <2> QED
    BY <1>3, <1>5, <1>7, <2>2, <2>3, <2>4, <2>5, <2>6
<1>10. CASE c.op = "DEL feed" /\ OnFeed(g, c)
  <2>1. PICK u \in Users : c = DelFeed(u) /\ c.user = u
    BY <1>1, <1>10, CommandForms
  <2>2. feed' = [feed EXCEPT ![u] = {}] /\ untrimmed' = untrimmed \ {u} /\ owed' = owed
    BY <1>10, <2>1 DEF OnFeed, DropFeed
  <2>3. ~ (Cardinality({}) > MaxFeedSize)
    BY Within
  <2>4. \A v \in Users : c # Trim(v)
    BY <2>1, CommandsDiffer
  <2>5. feed' \in [Users -> SUBSET Posts] /\ feed'[u] = {}
    BY <1>3, <2>2
  <2>6. \A v \in Users : v # u => feed'[v] = feed[v]
    BY <1>3, <2>2
  <2> QED
    BY <1>3, <1>5, <1>7, <2>2, <2>3, <2>4, <2>5, <2>6
<1>11. CASE c.op = "ZREM" /\ OnFeed(g, c)
  <2>1. PICK u \in Users, p \in Posts : c = ZRem(u, p) /\ c.user = u /\ c.post = p
    BY <1>1, <1>11, CommandForms
  <2>2. feed' = [feed EXCEPT ![u] = @ \ {p}] /\ untrimmed' = untrimmed /\ owed' = owed
    BY <1>11, <2>1 DEF OnFeed
  <2>3. \A v \in Users : c # Trim(v)
    BY <2>1, CommandsDiffer
  <2>4. feed' \in [Users -> SUBSET Posts] /\ \A v \in Users : feed'[v] \subseteq feed[v]
    BY <1>3, <2>2
  <2>5. \A v \in Users : Cardinality(feed'[v]) > MaxFeedSize => Cardinality(feed[v]) > MaxFeedSize
    BY <2>4, Shrunk
  <2> QED
    BY <1>3, <1>5, <1>7, <2>2, <2>3, <2>4, <2>5
<1>12. CASE OnPost(c) /\ UNCHANGED <<feed, untrimmed, owed>>
  <2>1. \A v \in Users : c # Trim(v)
    <3>1. c.op = "SET" \/ c.op = "DEL post"
      BY <1>12 DEF OnPost
    <3>2. \A v \in Users : Trim(v).op = "ZREMRANGEBYRANK"
      BY DEF Trim
    <3> QED
      BY <3>1, <3>2
  <2> QED
    BY <1>3, <1>5, <1>7, <1>12, <2>1
<1>13. OnFeed(g, c) => c.op \in {"ZADD", "ZREM", "ZREMRANGEBYRANK", "DEL feed"}
  BY DEF OnFeed
<1> QED
  BY <1>2, <1>8, <1>9, <1>10, <1>11, <1>12, <1>13

(* What a post is cached for: a removal ends with the post out of the      *)
(* cache, and a SET after it is noted.                                     *)
LEMMA ExecuteKeepsHidden ==
    ASSUME IInv, NEW g \in Goroutines, ExecuteCommand(g)
    PROVE  /\ cached' \subseteq Posts
           /\ revived' \subseteq Posts
           /\ Hidden'
<1> DEFINE c == sent[g][executed[g] + 1]
<1>1. /\ c \in Commands
      /\ \A x \in Goroutines : x # g => sent'[x] = sent[x]
      /\ \/ sent'[g] = sent[g]
         \/ sent'[g] = <<>> /\ c = sent[g][Len(sent[g])]
  BY Executed
<1>2. \/ OnFeed(g, c) /\ UNCHANGED <<cached, revived>>
      \/ OnPost(c)
  BY Zenon DEF ExecuteCommand
<1>3. deletePc' = deletePc /\ sent[g] # <<>>
  BY DEF ExecuteCommand
<1> HIDE DEF c
<1>4. cached \subseteq Posts /\ revived \subseteq Posts
  BY DEF IInv, CachesOK
<1>5. ASSUME NEW p \in Posts, Purged(p)', ~ Purged(p)
      PROVE  c = DelPost(p)
  <2>1. p \in Goroutines
    BY DEF Goroutines
  <2>2. p = g /\ sent'[g] = <<>>
    BY <1>1, <1>3, <1>5, <2>1 DEF Purged
  <2> QED
    BY <1>1, <1>3, <2>2 DEF IInv, PipesKnown, PipeKnown
<1>6. CASE OnFeed(g, c) /\ UNCHANGED <<cached, revived>>
  <2>1. \A p \in Posts : c # DelPost(p)
    <3>1. c.op # "DEL post"
      BY <1>6 DEF OnFeed
    <3>2. \A p \in Posts : DelPost(p).op = "DEL post"
      BY DEF DelPost
    <3> QED
      BY <3>1, <3>2
  <2>2. Hidden'
    BY <1>4, <1>5, <1>6, <2>1 DEF IInv, Hidden
  <2> QED
    BY <1>4, <1>6, <2>2
<1>7. CASE OnPost(c) /\ c.op = "SET"
  <2>1. PICK p \in Posts : c = SetPost(p) /\ c.post = p
    BY <1>1, <1>7, CommandForms
  <2>2. /\ cached' = cached \union {p}
        /\ revived' = IF Purged(p) THEN revived \union {p} ELSE revived
    BY <1>7, <2>1 DEF OnPost
  <2>3. \A q \in Posts : c # DelPost(q)
    BY <2>1, CommandsDiffer
  <2>4. Hidden'
    BY <1>4, <1>5, <2>2, <2>3 DEF IInv, Hidden
  <2> QED
    BY <1>4, <2>2, <2>4
<1>8. CASE OnPost(c) /\ c.op = "DEL post"
  <2>1. PICK p \in Posts : c = DelPost(p) /\ c.post = p
    BY <1>1, <1>8, CommandForms
  <2>2. cached' = cached \ {p} /\ revived' = revived
    BY <1>8, <2>1 DEF OnPost
  <2>3. \A q \in Posts : c = DelPost(q) => q = p
    BY <2>1, CommandsDiffer
  <2>4. Hidden'
    BY <1>4, <1>5, <2>2, <2>3 DEF IInv, Hidden
  <2> QED
    BY <1>4, <2>2, <2>4
<1> QED
  BY <1>2, <1>6, <1>7, <1>8 DEF OnPost

(* A user who is owed a post and not in a worker's list any more is ahead  *)
(* of it in its pipeline until the ZADD is executed, and then owed no more. *)
LEMMA ExecuteKeepsOwed ==
    ASSUME IInv, NEW g \in Goroutines, ExecuteCommand(g)
    PROVE  NobodySkipped'
<1> DEFINE c == sent[g][executed[g] + 1]
<1>1. /\ c \in Commands
      /\ executed[g] + 1 \in 1..Len(sent[g])
      /\ \A x \in Goroutines : x # g => sent'[x] = sent[x] /\ executed'[x] = executed[x]
      /\ \/ sent'[g] = sent[g] /\ executed'[g] \in 0..(executed[g] + 1)
         \/ sent'[g] = <<>> /\ executed'[g] = 0 /\ executed[g] + 1 = Len(sent[g])
  BY Executed
<1>2. /\ UNCHANGED workerVars
      /\ \A p \in Posts : owed'[p] \subseteq owed[p]
  BY ExecuteKeepsBound DEF ExecuteCommand
<1>3. ASSUME NEW u \in Users, NEW p \in Posts, c = ZAdd(u, p), g \in Workers
      PROVE  u \notin owed'[p]
  <2>1. c.op = "ZADD" /\ c.user = u /\ c.post = p
    BY <1>3 DEF ZAdd
  <2>2. \/ OnFeed(g, c)
        \/ OnPost(c)
    BY Zenon DEF ExecuteCommand
  <2>3. owed' = [owed EXCEPT ![p] = @ \ {u}]
    BY <1>3, <2>1, <2>2 DEF OnFeed, OnPost
  <2>4. owed \in [Posts -> SUBSET Users]
    BY DEF IInv, TasksOK
  <2> HIDE DEF c
  <2> QED
    BY <2>3, <2>4
<1> SUFFICES ASSUME NEW w \in Workers, workerPc[w] \in {"deliver", "last"},
                    NEW u \in owed'[task[w]]
             PROVE  u \in todo[w] \/ Awaits(w, u, task[w])'
  BY <1>2 DEF NobodySkipped, workerVars
<1>4. task[w] \in Posts /\ w \in Goroutines
  BY DEF IInv, WorkersHold, Goroutines
<1>5. u \in Users /\ u \in owed[task[w]]
  BY <1>2, <1>4 DEF IInv, TasksOK
<1>6. task' = task
  BY <1>2 DEF workerVars
<1>7. CASE Awaits(w, u, task[w]) /\ w # g
  BY <1>1, <1>4, <1>6, <1>7 DEF Awaits
<1>8. CASE Awaits(w, u, task[w]) /\ w = g
  <2>1. PICK i \in 1..Len(sent[g]) : i > executed[g] /\ sent[g][i] = ZAdd(u, task[w])
    BY <1>8 DEF Awaits
  <2>2. executed[g] \in Nat /\ Len(sent[g]) \in Nat
    BY <1>4, <1>8 DEF IInv, PipesOK
  <2>3. i # executed[g] + 1
    BY <1>3, <1>4, <1>5, <1>8, <2>1
  <2> HIDE DEF c
  <2>4. i > executed[g] + 1 /\ executed[g] + 1 # Len(sent[g])
    BY <2>1, <2>2, <2>3
  <2>5. sent'[g] = sent[g] /\ executed'[g] < i
    BY <1>1, <2>1, <2>2, <2>4
  <2> QED
    BY <1>6, <1>8, <2>1, <2>5 DEF Awaits
<1> QED
  BY <1>4, <1>5, <1>7, <1>8 DEF IInv, NobodySkipped

LEMMA ExecuteCommandKeeps ==
    ASSUME IInv, NEW g \in Goroutines, ExecuteCommand(g)
    PROVE  IInv'
<1>1. UNCHANGED <<dbVars, queue, createPc, deletePc, workerVars, buildVars, everFriends, changes>>
  BY DEF ExecuteCommand
<1>2. /\ PipesOK'
      /\ \A x \in Goroutines : sent'[x] = sent[x] \/ sent'[x] = <<>>
      /\ SpendFault \/ UNCHANGED faults
  BY Executed DEF PipesOK
<1>3. TroublesOK'
  BY <1>1, <1>2, FaultsStayBounded
<1>4. /\ feed' \in [Users -> SUBSET Posts]
      /\ untrimmed' \subseteq Users
      /\ owed' \in [Posts -> SUBSET Users]
      /\ \A p \in Posts : owed'[p] \subseteq owed[p]
      /\ FeedBounded' /\ FeedsKnown'
  BY ExecuteKeepsBound DEF IInv, CachesOK
<1>5. cached' \subseteq Posts /\ revived' \subseteq Posts /\ Hidden'
  BY ExecuteKeepsHidden
<1>6. CachesOK' /\ TasksOK'
  BY <1>1, <1>4, <1>5 DEF IInv, CachesOK, TasksOK
<1>7. PipesKnown'
  <2>1. \A x \in Goroutines : PipeKnown(x, sent'[x])
    BY <1>2 DEF IInv, PipesKnown, PipeKnown
  <2> QED
    BY <1>1, <2>1 DEF PipesKnown, PipeKnown, Known
<1>8. /\ TablesOK' /\ WorkersOK' /\ BuildersOK'
      /\ RowsKnown' /\ WorkersHold' /\ BuildersHold' /\ TasksMade'
  BY <1>1, TablesAlone, WorkersAlone, BuildersAlone, TasksAlone
<1>9. OwedAreFriends'
  BY <1>1, <1>4 DEF IInv, OwedAreFriends, dbVars
<1>10. NobodySkipped'
  BY ExecuteKeepsOwed
<1> QED
  BY <1>2, <1>3, <1>4, <1>5, <1>6, <1>7, <1>8, <1>9, <1>10 DEF IInv

(* A broken pipeline: its trim is noted as lost, the delivery it was for   *)
(* is owed no more, and the removal it was for has failed.                 *)
LEMMA LoseRestKeeps ==
    ASSUME IInv, NEW g \in Goroutines, LoseRest(g)
    PROVE  IInv'
<1>1. /\ UNCHANGED <<dbVars, feed, cached, revived, queue, createPc, workerVars, buildVars,
                     everFriends, changes>>
      /\ SpendFault
      /\ untrimmed' = untrimmed \union {u \in Users : Trims(g, u)}
      /\ owed' = [p \in Posts |-> {u \in owed[p] : ~(g \in Workers /\ Adds(g, u, p))}]
      /\ deletePc' = [p \in Posts |-> IF p = g THEN "failed" ELSE deletePc[p]]
  BY DEF LoseRest
<1>2. /\ sent' \in [Goroutines -> Seq(Commands)] /\ sent'[g] = <<>>
      /\ executed' \in [Goroutines -> Nat] /\ executed'[g] = 0
      /\ \A x \in Goroutines : x # g => sent'[x] = sent[x] /\ executed'[x] = executed[x]
  BY DEF IInv, PipesOK, LoseRest, EndExec
<1>3. PipesOK'
  BY <1>2 DEF IInv, PipesOK
<1>4. TroublesOK' /\ faults' > 0
  <2>1. TroublesOK'
    BY <1>1, FaultsStayBounded
  <2>2. faults' > 0
    BY <1>1 DEF IInv, TroublesOK, SpendFault
  <2> QED
    BY <2>1, <2>2
<1>5. /\ owed' \in [Posts -> SUBSET Users]
      /\ \A p \in Posts : owed'[p] \subseteq owed[p]
  <2>1. owed \in [Posts -> SUBSET Users]
    BY DEF IInv, TasksOK
  <2>2. \A p \in Posts : owed'[p] \subseteq owed[p]
    BY <1>1
  <2> QED
    BY <1>1, <2>1, <2>2
<1>6. deletePc' \in [Posts -> {"idle", "friends", "sent", "failed"}]
  <2>1. deletePc \in [Posts -> {"idle", "friends", "sent", "failed"}]
    BY DEF IInv, TasksOK
  <2> QED
    BY <1>1, <2>1
<1>7. FeedBounded'
  <2>1. ASSUME NEW u \in Users, NEW x \in Goroutines, Trims(x, u)
        PROVE  u \in untrimmed' \/ Trims(x, u)'
    BY <1>1, <1>2, <2>1 DEF Trims
  <2> QED
    BY <1>1, <1>4, <2>1 DEF IInv, FeedBounded
<1>8. CachesOK' /\ TasksOK'
  BY <1>1, <1>5, <1>6 DEF IInv, CachesOK, TasksOK
<1>9. FeedsKnown'
  <2>1. FeedsKnown /\ feed' = feed /\ everFriends' = everFriends
    BY <1>1 DEF IInv
  <2> QED
    BY <2>1 DEF FeedsKnown, Known
<1>10. PipesKnown'
  <2>1. \A x \in Goroutines : x # g => PipeKnown(x, sent'[x])
    BY <1>2 DEF IInv, PipesKnown
  <2>2. Len(sent'[g]) = 0
    BY <1>2
  <2>3. PipeKnown(g, sent'[g])
    BY <1>2, <2>2 DEF PipeKnown
  <2> QED
    BY <1>1, <2>1, <2>3 DEF PipesKnown, PipeKnown, Known
<1>11. Hidden'
  <2>1. ASSUME NEW p \in cached, Purged(p)'
        PROVE  Purged(p)
    <3>1. p \in Posts /\ p \in Goroutines
      BY DEF IInv, CachesOK, Goroutines
    <3> QED
      BY <1>1, <1>2, <2>1, <3>1 DEF Purged
  <2> QED
    BY <1>1, <2>1 DEF IInv, Hidden
<1>12. /\ TablesOK' /\ WorkersOK' /\ BuildersOK'
       /\ RowsKnown' /\ WorkersHold' /\ BuildersHold' /\ TasksMade'
  BY <1>1, TablesAlone, WorkersAlone, BuildersAlone, TasksAlone
<1>13. OwedAreFriends'
  BY <1>1, <1>5 DEF IInv, OwedAreFriends, dbVars
<1>14. NobodySkipped'
  <2> SUFFICES ASSUME NEW w \in Workers, workerPc[w] \in {"deliver", "last"},
                      NEW u \in owed'[task[w]]
               PROVE  u \in todo[w] \/ Awaits(w, u, task[w])'
    BY <1>1 DEF NobodySkipped, workerVars
  <2>1. task[w] \in Posts /\ w \in Goroutines
    BY DEF IInv, WorkersHold, Goroutines
  <2>2. u \in owed[task[w]] /\ ~(g \in Workers /\ Adds(g, u, task[w]))
    BY <1>1, <2>1
  <2>3. CASE w = g
    <3>1. ~ Awaits(w, u, task[w])
      <4>1. sent[g] \in Seq(Commands)
        BY DEF IInv, PipesOK
      <4>2. DOMAIN sent[g] = 1..Len(sent[g])
        BY <4>1
      <4>3. \A i \in 1..Len(sent[w]) : sent[w][i] # ZAdd(u, task[w])
        BY <2>2, <2>3, <4>2 DEF Adds
      <4> QED
        BY <4>3 DEF Awaits
    <3> QED
      BY <2>2, <3>1 DEF IInv, NobodySkipped
  <2>4. CASE w # g
    <3>1. sent'[w] = sent[w] /\ executed'[w] = executed[w] /\ task' = task
      BY <1>1, <1>2, <2>1, <2>4 DEF workerVars
    <3>2. u \in todo[w] \/ Awaits(w, u, task[w])
      BY <2>2 DEF IInv, NobodySkipped
    <3> QED
      BY <3>1, <3>2 DEF Awaits
  <2> QED
    BY <2>3, <2>4
<1> QED
  BY <1>3, <1>4, <1>7, <1>8, <1>9, <1>10, <1>11, <1>12, <1>13, <1>14 DEF IInv


-----------------------------------------------------------------------------
(* CreatePost owes the post to the friends all replicas know; no worker    *)
(* has it yet.                                                             *)
LEMMA CreatePostKeeps ==
    ASSUME IInv, NEW p \in Posts, CreatePost(p)
    PROVE  IInv'
<1>1. /\ UNCHANGED <<friends, replica, cacheVars, queue, deletePc, workerVars, buildVars,
                     pipeVars, everFriends, changes>>
      /\ SpendFault \/ UNCHANGED faults
      /\ createPc[p] = "idle"
      /\ owed' = [owed EXCEPT ![p] = SteadyFriends(Author[p])]
  BY DEF CreatePost, MayFail
<1>2. TroublesOK' /\ faults' >= faults
  BY <1>1, FaultsStayBounded
<1>3. /\ CachesOK' /\ PipesOK' /\ FeedBounded' /\ FeedsKnown' /\ PipesKnown' /\ Hidden'
      /\ BuildersOK' /\ BuildersHold' /\ WorkersOK' /\ WorkersHold'
  BY <1>1, <1>2, CachesAlone, BuildersAlone, WorkersAlone
<1>4. posts' \subseteq Posts
  BY DEF IInv, TablesOK, CreatePost
<1>5. TablesOK' /\ RowsKnown'
  BY <1>1, <1>4 DEF IInv, TablesOK, RowsKnown
<1>6. /\ createPc' \in [Posts -> {"idle", "enqueue", "done", "failed"}]
      /\ \A q \in Posts : createPc[q] # "idle" => createPc'[q] # "idle"
  <2>1. createPc \in [Posts -> {"idle", "enqueue", "done", "failed"}]
    BY DEF IInv, TasksOK
  <2>2. \E new \in {"enqueue", "failed"} : createPc' = [createPc EXCEPT ![p] = new]
    BY DEF CreatePost
  <2> QED
    BY <2>1, <2>2
<1>7. /\ owed' \in [Posts -> SUBSET Users]
      /\ owed'[p] = SteadyFriends(Author[p])
      /\ \A q \in Posts : q # p => owed'[q] = owed[q]
  <2>1. owed \in [Posts -> SUBSET Users]
    BY DEF IInv, TasksOK
  <2>2. SteadyFriends(Author[p]) \subseteq Users
    BY DEF SteadyFriends
  <2> QED
    BY <1>1, <2>1, <2>2
<1>8. TasksOK'
  BY <1>1, <1>6, <1>7 DEF IInv, TasksOK
<1>9. \A w \in Workers : workerPc[w] # "pop" => task[w] \in Posts /\ task[w] # p
  BY <1>1 DEF IInv, TasksMade, WorkersHold
<1>10. TasksMade'
  <2>1. queue \in Seq(Posts)
    BY DEF IInv, TasksOK
  <2>2. \A i \in 1..Len(queue) : queue[i] \in Posts
    BY <2>1
  <2> QED
    BY <1>1, <1>6, <1>9, <2>2 DEF IInv, TasksMade, workerVars
<1>11. OwedAreFriends'
  <2>1. \A d \in Replicas :
           SteadyFriends(Author[p]) \subseteq FriendsOf(Author[p], replica[d].friends)
    BY DEF SteadyFriends, FriendsOf
  <2> QED
    BY <1>1, <1>7, <2>1 DEF IInv, OwedAreFriends
<1>12. NobodySkipped'
  BY <1>1, <1>7, <1>9, SkippedAlone
<1> QED
  BY <1>2, <1>3, <1>5, <1>8, <1>10, <1>11, <1>12 DEF IInv

(* EnqueueFeedUpdate puts copies of the task in the list.                  *)
LEMMA EnqueueFeedUpdateKeeps ==
    ASSUME IInv, NEW p \in Posts, EnqueueFeedUpdate(p)
    PROVE  IInv'
<1>1. /\ UNCHANGED <<dbVars, cacheVars, deletePc, workerVars, buildVars, pipeVars, owed,
                     everFriends, changes>>
      /\ SpendFault \/ UNCHANGED faults
      /\ createPc[p] = "enqueue"
  BY DEF EnqueueFeedUpdate, MayFail
<1>2. TroublesOK' /\ faults' >= faults
  BY <1>1, FaultsStayBounded
<1>3. /\ CachesOK' /\ PipesOK' /\ FeedBounded' /\ FeedsKnown' /\ PipesKnown' /\ Hidden'
      /\ BuildersOK' /\ BuildersHold' /\ WorkersOK' /\ WorkersHold'
      /\ TablesOK' /\ RowsKnown'
  BY <1>1, <1>2, CachesAlone, BuildersAlone, WorkersAlone, TablesAlone
<1>4. /\ createPc' \in [Posts -> {"idle", "enqueue", "done", "failed"}]
      /\ \A q \in Posts : createPc[q] # "idle" => createPc'[q] # "idle"
      /\ createPc'[p] # "idle"
  <2>1. createPc \in [Posts -> {"idle", "enqueue", "done", "failed"}]
    BY DEF IInv, TasksOK
  <2>2. \E new \in {"done", "failed"} : createPc' = [createPc EXCEPT ![p] = new]
    BY DEF EnqueueFeedUpdate
  <2> QED
    BY <2>1, <2>2
<1>5. /\ queue \in Seq(Posts) /\ queue' \in Seq(Posts)
      /\ \A i \in 1..Len(queue') :
            queue'[i] = p \/ \E j \in 1..Len(queue) : queue'[i] = queue[j]
  <2>1. PICK copies \in 0..2 : queue' = queue \o [i \in 1..copies |-> p]
    BY DEF EnqueueFeedUpdate
  <2>2. queue \in Seq(Posts)
    BY DEF IInv, TasksOK
  <2> DEFINE tasks == [i \in 1..copies |-> p]
  <2>3. tasks \in Seq(Posts) /\ Len(tasks) = copies /\ \A i \in 1..copies : tasks[i] = p
    OBVIOUS
  <2>4. queue' = queue \o tasks
    BY <2>1
  <2> HIDE DEF tasks
  <2>5. queue' \in Seq(Posts) /\ Len(queue') = Len(queue) + copies
    BY <2>2, <2>3, <2>4
  <2>6. ASSUME NEW i \in 1..Len(queue')
        PROVE  queue'[i] = p \/ \E j \in 1..Len(queue) : queue'[i] = queue[j]
    <3>1. CASE i \in 1..Len(queue)
      BY <2>2, <2>3, <2>4, <3>1
    <3>2. CASE i \notin 1..Len(queue)
      <4>1. i - Len(queue) \in 1..copies /\ queue'[i] = tasks[i - Len(queue)]
        BY <2>2, <2>3, <2>4, <2>5, <3>2
      <4> QED
        BY <2>3, <4>1
    <3> QED
      BY <3>1, <3>2
  <2> QED
    BY <2>2, <2>5, <2>6
<1>6. TasksOK'
  BY <1>1, <1>4, <1>5 DEF IInv, TasksOK
<1>7. TasksMade'
  <2>1. \A j \in 1..Len(queue) : queue[j] \in Posts /\ createPc[queue[j]] # "idle"
    BY <1>5 DEF IInv, TasksMade
  <2>2. \A w \in Workers : workerPc[w] # "pop" => task[w] \in Posts /\ createPc[task[w]] # "idle"
    BY DEF IInv, TasksMade, WorkersHold
  <2> QED
    BY <1>1, <1>4, <1>5, <2>1, <2>2 DEF TasksMade, workerVars
<1>8. OwedAreFriends' /\ NobodySkipped'
  BY <1>1, OwedAlone, SkippedAlone DEF dbVars
<1> QED
  BY <1>2, <1>3, <1>6, <1>7, <1>8 DEF IInv

-----------------------------------------------------------------------------
(* A worker takes a task, or loses it on the way.                          *)
LEMMA TakeTaskKeeps ==
    ASSUME IInv, NEW w \in Workers, TakeTask(w)
    PROVE  IInv'
<1>1. /\ UNCHANGED <<dbVars, cacheVars, createPc, deletePc, todo, buildVars, pipeVars, owed,
                     everFriends, changes>>
      /\ SpendFault \/ UNCHANGED faults
      /\ queue # <<>> /\ queue' = Tail(queue)
      /\ workerPc[w] = "pop"
  BY DEF TakeTask
<1>2. TroublesOK' /\ faults' >= faults
  BY <1>1, FaultsStayBounded
<1>3. /\ CachesOK' /\ PipesOK' /\ FeedBounded' /\ FeedsKnown' /\ PipesKnown' /\ Hidden'
      /\ BuildersOK' /\ BuildersHold' /\ TablesOK' /\ RowsKnown'
  BY <1>1, <1>2, CachesAlone, BuildersAlone, TablesAlone
<1>4. /\ queue \in Seq(Posts) /\ queue' \in Seq(Posts)
      /\ Head(queue) \in Posts /\ createPc[Head(queue)] # "idle"
      /\ \A i \in 1..Len(queue') : createPc[queue'[i]] # "idle"
  <2>1. queue \in Seq(Posts)
    BY DEF IInv, TasksOK
  <2>2. \A i \in 1..Len(queue) : createPc[queue[i]] # "idle"
    BY DEF IInv, TasksMade
  <2>3. /\ 1 \in 1..Len(queue) /\ Head(queue) = queue[1]
        /\ \A i \in 1..Len(queue') : i + 1 \in 1..Len(queue) /\ queue'[i] = queue[i + 1]
    BY <1>1, <2>1
  <2> QED
    BY <1>1, <2>1, <2>2, <2>3
<1>5. /\ task' \in [Workers -> Posts \union {0}]
      /\ workerPc' \in [Workers -> {"pop", "friends", "deliver", "last", "hung"}]
      /\ \A x \in Workers : \/ workerPc'[x] = workerPc[x] /\ task'[x] = task[x]
                            \/ workerPc'[x] = "friends" /\ task'[x] = Head(queue)
  <2>1. /\ task \in [Workers -> Posts \union {0}]
        /\ workerPc \in [Workers -> {"pop", "friends", "deliver", "last", "hung"}]
    BY DEF IInv, WorkersOK
  <2>2. CASE /\ task' = [task EXCEPT ![w] = Head(queue)]
             /\ workerPc' = [workerPc EXCEPT ![w] = "friends"]
    BY <1>4, <2>1, <2>2
  <2>3. CASE UNCHANGED <<task, workerPc>>
    BY <2>1, <2>3
  <2> QED
    BY <2>2, <2>3 DEF TakeTask
<1>6. TasksOK' /\ WorkersOK'
  BY <1>1, <1>4, <1>5 DEF IInv, TasksOK, WorkersOK
<1>7. TasksMade'
  BY <1>1, <1>4, <1>5 DEF IInv, TasksMade
<1>8. WorkersHold'
  BY <1>1, <1>4, <1>5 DEF IInv, WorkersHold
<1>9. OwedAreFriends'
  BY <1>1, OwedAlone DEF dbVars
<1>10. NobodySkipped'
  BY <1>1, <1>5 DEF IInv, NobodySkipped, Awaits, pipeVars
<1> QED
  BY <1>2, <1>3, <1>6, <1>7, <1>8, <1>9, <1>10 DEF IInv

(* A worker that gives up, ends or dies holds nothing.                     *)
LEMMA LeavingKeeps ==
    ASSUME IInv, NEW w \in Workers, LeaveTask(w), SpendFault \/ UNCHANGED faults,
           UNCHANGED <<dbVars, cacheVars, queue, createPc, deletePc, buildVars, pipeVars, owed,
                       everFriends, changes>>
    PROVE  IInv'
<1>1. TroublesOK' /\ faults' >= faults
  BY FaultsStayBounded
<1>2. /\ CachesOK' /\ PipesOK' /\ FeedBounded' /\ FeedsKnown' /\ PipesKnown' /\ Hidden'
      /\ BuildersOK' /\ BuildersHold' /\ TablesOK' /\ RowsKnown'
  BY <1>1, CachesAlone, BuildersAlone, TablesAlone
<1>3. /\ workerPc \in [Workers -> {"pop", "friends", "deliver", "last", "hung"}]
      /\ task \in [Workers -> Posts \union {0}]
      /\ todo \in [Workers -> SUBSET Users]
  BY DEF IInv, WorkersOK
<1>4. /\ WorkersOK'
      /\ workerPc'[w] = "pop"
      /\ \A x \in Workers : x # w => /\ workerPc'[x] = workerPc[x]
                                     /\ task'[x] = task[x]
                                     /\ todo'[x] = todo[x]
  BY <1>3 DEF LeaveTask, WorkersOK
<1>5. WorkersHold'
  BY <1>4 DEF IInv, WorkersHold
<1>6. TasksOK' /\ OwedAreFriends'
  BY OwedAlone DEF IInv, TasksOK, dbVars
<1>7. TasksMade'
  BY <1>4 DEF IInv, TasksMade
<1>8. NobodySkipped'
  BY <1>4 DEF IInv, NobodySkipped, Awaits, pipeVars
<1> QED
  BY <1>1, <1>2, <1>4, <1>5, <1>6, <1>7, <1>8 DEF IInv

LEMMA EndTaskKeeps ==
    ASSUME IInv, NEW w \in Workers, EndTask(w) \/ CrashWorker(w)
    PROVE  IInv'
BY LeavingKeeps DEF EndTask, CrashWorker

(* A worker reads the friends on some replica: friends of today or of the  *)
(* past, and whoever is owed the post among them.                          *)
LEMMA ReadFriendsKeeps ==
    ASSUME IInv, NEW w \in Workers, ReadFriends(w)
    PROVE  IInv'
<1>1. /\ UNCHANGED <<dbVars, cacheVars, queue, createPc, deletePc, buildVars, pipeVars, owed,
                     everFriends, changes>>
      /\ workerPc[w] = "friends"
  BY DEF ReadFriends
<1>2. CASE SpendFault /\ LeaveTask(w)
  BY <1>1, <1>2, LeavingKeeps
<1>3. CASE /\ \E d \in Replicas :
                todo' = [todo EXCEPT ![w] = FriendsOf(Author[task[w]], replica[d].friends)]
           /\ workerPc' = [workerPc EXCEPT ![w] = "deliver"]
           /\ UNCHANGED <<task, faults>>
  <2>1. PICK d \in Replicas :
           todo' = [todo EXCEPT ![w] = FriendsOf(Author[task[w]], replica[d].friends)]
    BY <1>3
  <2> DEFINE found == FriendsOf(Author[task[w]], replica[d].friends)
  <2>2. task[w] \in Posts /\ Author[task[w]] \in Users
    BY <1>1, FeedAssumption DEF IInv, WorkersHold
  <2>3. found \subseteq Users /\ found \subseteq FriendsOf(Author[task[w]], everFriends)
    BY <2>2, FriendsSymmetric DEF IInv, RowsKnown
  <2>4. owed[task[w]] \subseteq found
    BY <2>2 DEF IInv, OwedAreFriends
  <2>5. todo' = [todo EXCEPT ![w] = found]
    BY <2>1
  <2> HIDE DEF found
  <2>6. /\ workerPc \in [Workers -> {"pop", "friends", "deliver", "last", "hung"}]
        /\ todo \in [Workers -> SUBSET Users]
    BY DEF IInv, WorkersOK
  <2>7. /\ todo' \in [Workers -> SUBSET Users]
        /\ todo'[w] = found /\ workerPc'[w] = "deliver" /\ task' = task
        /\ \A x \in Workers : x # w => todo'[x] = todo[x] /\ workerPc'[x] = workerPc[x]
        /\ workerPc' \in [Workers -> {"pop", "friends", "deliver", "last", "hung"}]
    BY <1>3, <2>3, <2>5, <2>6
  <2>8. WorkersOK'
    BY <2>7 DEF IInv, WorkersOK
  <2>9. WorkersHold'
    BY <1>1, <2>2, <2>3, <2>7 DEF IInv, WorkersHold
  <2>10. NobodySkipped'
    BY <1>1, <2>4, <2>7 DEF IInv, NobodySkipped, Awaits, pipeVars
  <2>11. TasksMade'
    BY <1>1, <2>7 DEF IInv, TasksMade
  <2>12. TasksOK' /\ OwedAreFriends'
    BY <1>1, OwedAlone DEF IInv, TasksOK, dbVars
  <2>13. TroublesOK' /\ faults' >= faults
    BY <1>1, <1>3, FaultsStayBounded
  <2>14. /\ CachesOK' /\ PipesOK' /\ FeedBounded' /\ FeedsKnown' /\ PipesKnown' /\ Hidden'
         /\ BuildersOK' /\ BuildersHold' /\ TablesOK' /\ RowsKnown'
    BY <1>1, <2>13, CachesAlone, BuildersAlone, TablesAlone
  <2> QED
    BY <2>8, <2>9, <2>10, <2>11, <2>12, <2>13, <2>14 DEF IInv
<1> QED
  BY <1>2, <1>3 DEF ReadFriends

(* A worker waits for nothing, and sends the post to the feed of u.        *)
LEMMA Delivers ==
    ASSUME IInv, NEW w \in Workers, NEW u \in Users, task[w] \in Posts,
           Author[task[w]] \in Known(u),
           Exec(w, AddPostToUserFeed(u, task[w])),
           SpendFault \/ UNCHANGED faults,
           UNCHANGED <<dbVars, cacheVars, queue, createPc, deletePc, task, buildVars, owed,
                       everFriends, changes>>
    PROVE  /\ TablesOK' /\ CachesOK' /\ TasksOK' /\ BuildersOK' /\ PipesOK' /\ TroublesOK'
           /\ FeedBounded' /\ RowsKnown' /\ BuildersHold' /\ FeedsKnown' /\ PipesKnown'
           /\ Hidden' /\ OwedAreFriends'
           /\ \A v \in Users : ~ Awaits(w, v, task[w])
           /\ Awaits(w, u, task[w])'
           /\ \A x \in Workers : x # w => sent'[x] = sent[x] /\ executed'[x] = executed[x]
<1>1. TroublesOK' /\ faults' >= faults
  BY FaultsStayBounded
<1>2. TasksOK' /\ OwedAreFriends' /\ BuildersOK' /\ BuildersHold' /\ TablesOK' /\ RowsKnown'
  BY BuildersAlone, TablesAlone, OwedAlone DEF IInv, TasksOK, dbVars
<1>3. w \in Goroutines /\ w \notin Posts /\ \A x \in Workers : x \in Goroutines
  BY FeedAssumption DEF Goroutines
<1> DEFINE s == AddPostToUserFeed(u, task[w])
<1>4. /\ s \in Seq(Commands) /\ s # <<>> /\ PipeKnown(w, s)
      /\ 1 \in 1..Len(s) /\ s[1] = ZAdd(u, task[w])
  BY AddPipeline
<1>5. Exec(w, s)
  OBVIOUS
<1> HIDE DEF s
<1>6. /\ CachesOK' /\ PipesOK'
      /\ executed'[w] = 0 /\ sent[w] = <<>> /\ sent'[w] = s
      /\ \A x \in Goroutines : x # w => sent'[x] = sent[x] /\ executed'[x] = executed[x]
      /\ FeedBounded' /\ FeedsKnown' /\ PipesKnown' /\ Hidden'
  BY <1>1, <1>3, <1>4, <1>5, ExecKeeps
<1>7. \A v \in Users : ~ Awaits(w, v, task[w])
  <2>1. Len(sent[w]) = 0
    BY <1>6
  <2> QED
    BY <2>1 DEF Awaits
<1>8. Awaits(w, u, task[w])'
  <2>1. sent'[w] = s /\ executed'[w] = 0 /\ 1 > 0 /\ task' = task
    BY <1>6
  <2> QED
    BY <1>4, <2>1 DEF Awaits
<1> QED
  BY <1>1, <1>2, <1>3, <1>6, <1>7, <1>8

(* A worker delivers to one of the friends it has left.                    *)
LEMMA DeliverToFriendKeeps ==
    ASSUME IInv, NEW w \in Workers, DeliverToFriend(w)
    PROVE  IInv'
<1>1. /\ UNCHANGED <<dbVars, cacheVars, queue, createPc, deletePc, task, buildVars,
                     owed, everFriends, changes>>
      /\ workerPc[w] = "deliver" /\ PushEvent(w, "deliver")
  BY DEF DeliverToFriend
<1>a. /\ SpendFault \/ UNCHANGED faults
      /\ workerPc' \in [Workers -> {"pop", "friends", "deliver", "last", "hung"}]
      /\ \A x \in Workers : workerPc'[x] = workerPc[x] \/ (x = w /\ workerPc'[x] = "hung")
  <2>1. workerPc \in [Workers -> {"pop", "friends", "deliver", "last", "hung"}]
    BY DEF IInv, WorkersOK
  <2> QED
    BY <1>1, <2>1 DEF PushEvent
<1>2. PICK u \in todo[w] : /\ todo' = [todo EXCEPT ![w] = @ \ {u}]
                           /\ Exec(w, AddPostToUserFeed(u, task[w]))
  BY DEF DeliverToFriend
<1>3. /\ task[w] \in Posts /\ u \in Users
      /\ u \in FriendsOf(Author[task[w]], everFriends)
  BY <1>1 DEF IInv, WorkersHold, WorkersOK
<1>4. Author[task[w]] \in Known(u)
  <2>1. Author[task[w]] \in Users
    BY <1>3, FeedAssumption
  <2> QED
    BY <1>3, <2>1, FriendsSymmetric DEF Known
<1>5. /\ TablesOK' /\ CachesOK' /\ TasksOK' /\ BuildersOK' /\ PipesOK' /\ TroublesOK'
      /\ FeedBounded' /\ RowsKnown' /\ BuildersHold' /\ FeedsKnown' /\ PipesKnown'
      /\ Hidden' /\ OwedAreFriends'
      /\ \A v \in Users : ~ Awaits(w, v, task[w])
      /\ Awaits(w, u, task[w])'
      /\ \A x \in Workers : x # w => sent'[x] = sent[x] /\ executed'[x] = executed[x]
  BY <1>1, <1>2, <1>3, <1>4, <1>a, Delivers
<1>6. /\ todo' \in [Workers -> SUBSET Users]
      /\ todo'[w] = todo[w] \ {u}
      /\ \A x \in Workers : x # w => todo'[x] = todo[x]
  <2>1. todo \in [Workers -> SUBSET Users]
    BY DEF IInv, WorkersOK
  <2> QED
    BY <1>2, <2>1
<1>7. WorkersOK' /\ TasksMade'
  BY <1>1, <1>6, <1>a DEF IInv, WorkersOK, TasksMade
<1>8. WorkersHold'
  BY <1>1, <1>6, <1>a DEF IInv, WorkersHold
<1>9. NobodySkipped'
  <2> SUFFICES ASSUME NEW x \in Workers, workerPc[x] \in {"deliver", "last"},
                      NEW v \in owed[task[x]]
               PROVE  v \in todo'[x] \/ Awaits(x, v, task[x])'
    BY <1>1, <1>a DEF NobodySkipped
  <2>1. v \in todo[x] \/ Awaits(x, v, task[x])
    BY DEF IInv, NobodySkipped
  <2>2. CASE x = w
    <3>1. v \in Users
      BY <1>3, <2>2 DEF IInv, TasksOK
    <3>2. v \in todo[w]
      BY <1>5, <2>1, <2>2, <3>1
    <3> QED
      BY <1>5, <1>6, <2>2, <3>2
  <2>3. CASE x # w
    <3>1. sent'[x] = sent[x] /\ executed'[x] = executed[x] /\ todo'[x] = todo[x] /\ task' = task
      BY <1>1, <1>5, <1>6, <2>3
    <3> QED
      BY <2>1, <3>1 DEF Awaits
  <2> QED
    BY <2>2, <2>3
<1> QED
  BY <1>5, <1>7, <1>8, <1>9 DEF IInv

(* The last delivery is to the author.                                     *)
LEMMA DeliverToAuthorKeeps ==
    ASSUME IInv, NEW w \in Workers, DeliverToAuthor(w)
    PROVE  IInv'
<1>1. /\ UNCHANGED <<dbVars, cacheVars, queue, createPc, deletePc, task, todo, buildVars, owed,
                     everFriends, changes>>
      /\ workerPc[w] = "deliver" /\ todo[w] = {}
      /\ PushEvent(w, "last")
      /\ Exec(w, AddPostToUserFeed(Author[task[w]], task[w]))
  BY DEF DeliverToAuthor
<1>2. task[w] \in Posts /\ Author[task[w]] \in Users
  BY <1>1, FeedAssumption DEF IInv, WorkersHold
<1>3. Author[task[w]] \in Known(Author[task[w]])
  BY DEF Known
<1>4. /\ TablesOK' /\ CachesOK' /\ TasksOK' /\ BuildersOK' /\ PipesOK' /\ TroublesOK'
      /\ FeedBounded' /\ RowsKnown' /\ BuildersHold' /\ FeedsKnown' /\ PipesKnown'
      /\ Hidden' /\ OwedAreFriends'
      /\ \A v \in Users : ~ Awaits(w, v, task[w])
      /\ \A x \in Workers : x # w => sent'[x] = sent[x] /\ executed'[x] = executed[x]
  BY <1>1, <1>2, <1>3, Delivers DEF PushEvent
<1>5. /\ workerPc' \in [Workers -> {"pop", "friends", "deliver", "last", "hung"}]
      /\ workerPc'[w] \in {"last", "hung"}
      /\ \A x \in Workers : x # w => workerPc'[x] = workerPc[x]
  <2>1. workerPc \in [Workers -> {"pop", "friends", "deliver", "last", "hung"}]
    BY DEF IInv, WorkersOK
  <2> QED
    BY <1>1, <2>1 DEF PushEvent
<1>6. WorkersOK' /\ TasksMade'
  BY <1>1, <1>5 DEF IInv, WorkersOK, TasksMade
<1>7. WorkersHold'
  BY <1>1, <1>2, <1>5 DEF IInv, WorkersHold
<1>8. NobodySkipped'
  <2> SUFFICES ASSUME NEW x \in Workers, workerPc'[x] \in {"deliver", "last"},
                      NEW v \in owed[task[x]]
               PROVE  v \in todo[x] \/ Awaits(x, v, task[x])'
    BY <1>1 DEF NobodySkipped
  <2>1. v \in todo[x] \/ Awaits(x, v, task[x])
    BY <1>1, <1>5 DEF IInv, NobodySkipped
  <2>2. x # w
    <3>1. ASSUME x = w
          PROVE  v \in Users
      BY <1>2, <3>1 DEF IInv, TasksOK
    <3> QED
      BY <1>1, <1>4, <2>1, <3>1
  <2>3. sent'[x] = sent[x] /\ executed'[x] = executed[x] /\ task' = task
    BY <1>1, <1>4, <2>2
  <2> QED
    BY <2>1, <2>3 DEF Awaits
<1> QED
  BY <1>4, <1>6, <1>7, <1>8 DEF IInv

-----------------------------------------------------------------------------
(* DeletePost: the row is gone, the removal from the caches is ahead.      *)
LEMMA DeletePostKeeps ==
    ASSUME IInv, NEW p \in Deletions, DeletePost(p)
    PROVE  IInv'
<1>1. /\ UNCHANGED <<friends, replica, cacheVars, queue, createPc, workerVars, buildVars,
                     pipeVars, owed, everFriends, changes>>
      /\ SpendFault \/ UNCHANGED faults
  BY DEF DeletePost, MayFail
<1>2. TroublesOK' /\ faults' >= faults
  BY <1>1, FaultsStayBounded
<1>3. /\ deletePc' \in [Posts -> {"idle", "friends", "sent", "failed"}]
      /\ \A q \in Posts : deletePc'[q] = "sent" => deletePc[q] = "sent"
  <2>1. deletePc \in [Posts -> {"idle", "friends", "sent", "failed"}]
    BY DEF IInv, TasksOK
  <2>2. \E new \in {"friends", "failed"} : deletePc' = [deletePc EXCEPT ![p] = new]
    BY DEF DeletePost
  <2> QED
    BY <2>1, <2>2
<1>4. TablesOK' /\ RowsKnown'
  BY <1>1 DEF IInv, TablesOK, RowsKnown, DeletePost
<1>5. CachesOK' /\ TasksOK' /\ PipesOK'
  BY <1>1, <1>3 DEF IInv, CachesOK, TasksOK, PipesOK, cacheVars, pipeVars
<1>6. FeedBounded'
  BY <1>1, <1>2 DEF IInv, TroublesOK, FeedBounded, Trims, cacheVars, pipeVars
<1>7. PipesKnown' /\ FeedsKnown'
  BY <1>1 DEF IInv, PipesKnown, PipeKnown, FeedsKnown, Known, cacheVars, pipeVars
<1>8. Hidden'
  <2>1. cached \subseteq Posts
    BY DEF IInv, CachesOK
  <2> QED
    BY <1>1, <1>3, <2>1 DEF IInv, Hidden, Purged, cacheVars, pipeVars
<1>9. /\ WorkersOK' /\ WorkersHold' /\ BuildersOK' /\ BuildersHold'
      /\ TasksMade' /\ OwedAreFriends' /\ NobodySkipped'
  BY <1>1, WorkersAlone, BuildersAlone, TasksAlone, OwedAlone, SkippedAlone
<1> QED
  BY <1>2, <1>4, <1>5, <1>6, <1>7, <1>8, <1>9 DEF IInv

(* removePostFromFeeds sends its pipeline, or fails.                       *)
LEMMA RemovePostKeeps ==
    ASSUME IInv, NEW p \in Deletions, RemovePostFromFeeds(p)
    PROVE  IInv'
<1>1. /\ UNCHANGED <<dbVars, cacheVars, queue, createPc, workerVars, buildVars, owed,
                     everFriends, changes>>
      /\ SpendFault \/ UNCHANGED faults
  BY DEF RemovePostFromFeeds
<1>2. TroublesOK' /\ faults' >= faults
  BY <1>1, FaultsStayBounded
<1>3. p \in Posts /\ p \in Goroutines /\ p \notin Workers /\ Author[p] \in Users
  BY FeedAssumption DEF Goroutines
<1>4. /\ deletePc' \in [Posts -> {"idle", "friends", "sent", "failed"}]
      /\ \A q \in Posts : q # p => deletePc'[q] = deletePc[q]
  <2>1. deletePc \in [Posts -> {"idle", "friends", "sent", "failed"}]
    BY DEF IInv, TasksOK
  <2>2. \E new \in {"sent", "failed"} : deletePc' = [deletePc EXCEPT ![p] = new]
    BY DEF RemovePostFromFeeds
  <2> QED
    BY <2>1, <2>2
<1>5. /\ TablesOK' /\ RowsKnown' /\ BuildersOK' /\ BuildersHold' /\ WorkersOK' /\ WorkersHold'
      /\ TasksMade' /\ OwedAreFriends'
  BY <1>1, TablesAlone, BuildersAlone, WorkersAlone, TasksAlone, OwedAlone DEF dbVars
<1>6. TasksOK'
  BY <1>1, <1>4 DEF IInv, TasksOK
<1>7. CASE /\ SpendFault
           /\ deletePc' = [deletePc EXCEPT ![p] = "failed"]
           /\ UNCHANGED pipeVars
  <2>1. CachesOK' /\ PipesOK'
    BY <1>1, <1>7 DEF IInv, CachesOK, PipesOK, cacheVars, pipeVars
  <2>2. FeedBounded'
    BY <1>1, <1>2, <1>7 DEF IInv, TroublesOK, FeedBounded, Trims, cacheVars, pipeVars
  <2>3. PipesKnown' /\ FeedsKnown'
    BY <1>1, <1>7 DEF IInv, PipesKnown, PipeKnown, FeedsKnown, Known, cacheVars, pipeVars
  <2>4. Hidden'
    <3>1. cached \subseteq Posts /\ deletePc'[p] # "sent"
      BY <1>3, <1>7 DEF IInv, CachesOK, TasksOK
    <3> QED
      BY <1>1, <1>4, <1>7, <3>1 DEF IInv, Hidden, Purged, cacheVars, pipeVars
  <2>5. NobodySkipped'
    BY <1>1, <1>7, SkippedAlone
  <2> QED
    BY <1>2, <1>5, <1>6, <2>1, <2>2, <2>3, <2>4, <2>5 DEF IInv
<1>8. CASE /\ \E d \in Replicas :
                \E order \in Orders(FriendsOf(Author[p], replica[d].friends)) :
                    Exec(p, PurgeCommands(<<Author[p]>> \o order, p))
           /\ UNCHANGED faults
  <2>1. PICK d \in Replicas : \E order \in Orders(FriendsOf(Author[p], replica[d].friends)) :
                                  Exec(p, PurgeCommands(<<Author[p]>> \o order, p))
    BY <1>8
  <2> DEFINE found == FriendsOf(Author[p], replica[d].friends)
  <2>2. PICK order \in Orders(found) : Exec(p, PurgeCommands(<<Author[p]>> \o order, p))
    BY <2>1
  <2>3. found \subseteq Users /\ IsFiniteSet(found)
    <3>1. found \subseteq Users
      BY DEF FriendsOf
    <3> QED
      BY <3>1, FeedAssumption, FS_Subset
  <2> HIDE DEF found
  <2>4. order \in Seq(Users)
    <3>1. order \in Seq(found)
      BY <2>3, OrdersAreSequences
    <3> QED
      BY <2>3, <3>1
  <2>5. <<Author[p]>> \o order \in Seq(Users)
    BY <1>3, <2>4, Prepended
  <2> DEFINE s == PurgeCommands(<<Author[p]>> \o order, p)
  <2>6. s \in Seq(Commands) /\ s # <<>> /\ PipeKnown(p, s)
    BY <1>3, <2>5, PurgePipeline
  <2>7. Exec(p, s)
    BY <2>2
  <2> HIDE DEF s
  <2>8. /\ CachesOK' /\ PipesOK'
        /\ \A x \in Goroutines : x # p => sent'[x] = sent[x] /\ executed'[x] = executed[x]
        /\ FeedBounded' /\ FeedsKnown' /\ PipesKnown' /\ Hidden'
    BY <1>1, <1>2, <1>3, <1>4, <1>8, <2>6, <2>7, ExecKeeps
  <2>9. NobodySkipped'
    <3>1. \A w \in Workers : sent'[w] = sent[w] /\ executed'[w] = executed[w]
      BY <1>3, <2>8 DEF Goroutines
    <3> QED
      BY <1>1, <3>1 DEF IInv, NobodySkipped, Awaits, workerVars
  <2> QED
    BY <1>2, <1>5, <1>6, <2>8, <2>9 DEF IInv
<1> QED
  BY <1>7, <1>8 DEF RemovePostFromFeeds

-----------------------------------------------------------------------------
(* A request that is answered from the database begins.                    *)
LEMMA GetUserFeedKeeps ==
    ASSUME IInv, NEW b \in Builders, NEW last \in Posts \union {0}, GetUserFeed(b, last)
    PROVE  IInv'
<1>1. /\ UNCHANGED <<dbVars, cacheVars, queue, createPc, deletePc, workerVars, friendIDs,
                     pipeVars, owed, everFriends, changes>>
      /\ SpendFault \/ UNCHANGED faults
  BY DEF GetUserFeed, MayFail
<1>2. TroublesOK' /\ faults' >= faults
  BY <1>1, FaultsStayBounded
<1>3. /\ CachesOK' /\ PipesOK' /\ FeedBounded' /\ FeedsKnown' /\ PipesKnown' /\ Hidden'
      /\ TablesOK' /\ RowsKnown' /\ WorkersOK' /\ WorkersHold'
      /\ TasksMade' /\ OwedAreFriends' /\ NobodySkipped'
  BY <1>1, <1>2, CachesAlone, TablesAlone, WorkersAlone, TasksAlone, OwedAlone, SkippedAlone
     DEF dbVars
<1>4. TasksOK'
  BY <1>1 DEF IInv, TasksOK
<1>5. /\ request' \in [Builders -> Request]
      /\ buildPc' \in [Builders -> {"idle", "friends", "posts", "done"}]
      /\ \A x \in Builders : buildPc'[x] = buildPc[x] \/ buildPc'[x] = "friends"
  BY DEF IInv, BuildersOK, GetUserFeed, Request
<1>6. BuildersOK' /\ BuildersHold'
  BY <1>1, <1>5 DEF IInv, BuildersOK, BuildersHold, Known
<1> QED
  BY <1>2, <1>3, <1>4, <1>6 DEF IInv

(* The feed of u is dropped.                                               *)
LEMMA DropKeeps ==
    ASSUME IInv, NEW u \in Users, DropFeed(u), TroublesOK', faults' >= faults,
           UNCHANGED <<cached, revived, deletePc, pipeVars, everFriends>>
    PROVE  CachesOK' /\ PipesOK' /\ FeedBounded' /\ FeedsKnown' /\ PipesKnown' /\ Hidden'
<1>1. /\ feed \in [Users -> SUBSET Posts] /\ untrimmed \subseteq Users
      /\ faults \in Nat /\ faults' \in Nat
  BY DEF IInv, CachesOK, TroublesOK
<1>2. /\ feed' \in [Users -> SUBSET Posts] /\ feed'[u] = {}
      /\ \A v \in Users : v # u => feed'[v] = feed[v]
      /\ untrimmed' = untrimmed \ {u}
  BY <1>1 DEF DropFeed
<1>3. CachesOK' /\ PipesOK'
  BY <1>1, <1>2 DEF IInv, CachesOK, PipesOK, pipeVars
<1>4. FeedBounded'
  <2>1. ~ (Cardinality({}) > MaxFeedSize)
    BY Within
  <2>2. \A v \in Users : Cardinality(feed'[v]) > MaxFeedSize =>
                            v # u /\ Cardinality(feed[v]) > MaxFeedSize
    BY <1>2, <2>1
  <2>3. \A g \in Goroutines, v \in Users : Trims(g, v) => Trims(g, v)'
    BY DEF Trims, pipeVars
  <2>4. untrimmed' # {} => faults' > 0
    BY <1>1, <1>2 DEF IInv, FeedBounded
  <2> QED
    BY <1>2, <2>2, <2>3, <2>4 DEF IInv, FeedBounded
<1>5. FeedsKnown'
  <2>1. \A v \in Users : feed'[v] \subseteq feed[v]
    BY <1>2
  <2> QED
    BY <2>1 DEF IInv, FeedsKnown, Known
<1>6. PipesKnown' /\ Hidden'
  BY DEF IInv, PipesKnown, PipeKnown, Known, Hidden, Purged, pipeVars
<1> QED
  BY <1>3, <1>4, <1>5, <1>6

(* A rebuild begins by dropping the feed.                                  *)
LEMMA RebuildUserFeedKeeps ==
    ASSUME IInv, NEW b \in Builders, RebuildUserFeed(b)
    PROVE  IInv'
<1>1. /\ UNCHANGED <<dbVars, cached, revived, queue, createPc, deletePc, workerVars, friendIDs,
                     pipeVars, owed, everFriends, faults, changes>>
      /\ DropFeed(Reader[b])
  BY DEF RebuildUserFeed
<1>2. TroublesOK' /\ faults' >= faults
  BY <1>1, FaultsStayBounded
<1>3. Reader[b] \in Users
  BY FeedAssumption
<1>4. CachesOK' /\ PipesOK' /\ FeedBounded' /\ FeedsKnown' /\ PipesKnown' /\ Hidden'
  BY <1>1, <1>2, <1>3, DropKeeps
<1>5. /\ TablesOK' /\ RowsKnown' /\ WorkersOK' /\ WorkersHold'
      /\ TasksMade' /\ OwedAreFriends' /\ NobodySkipped'
  BY <1>1, TablesAlone, WorkersAlone, TasksAlone, OwedAlone, SkippedAlone DEF dbVars
<1>6. TasksOK'
  BY <1>1 DEF IInv, TasksOK
<1>7. /\ request' \in [Builders -> Request]
      /\ buildPc' \in [Builders -> {"idle", "friends", "posts", "done"}]
      /\ \A x \in Builders : buildPc'[x] = buildPc[x] \/ buildPc'[x] = "friends"
  BY DEF IInv, BuildersOK, RebuildUserFeed, Request
<1>8. BuildersOK' /\ BuildersHold'
  BY <1>1, <1>7 DEF IInv, BuildersOK, BuildersHold, Known
<1> QED
  BY <1>2, <1>4, <1>5, <1>6, <1>8 DEF IInv

(* A builder that ends holds nothing.                                      *)
LEMMA EndKeeps ==
    ASSUME IInv, NEW b \in Builders, EndBuild(b), UNCHANGED everFriends
    PROVE  BuildersOK' /\ BuildersHold'
<1>1. NoRequest \in Request
  BY DEF NoRequest, Request
<1>2. BuildersOK'
  BY <1>1 DEF IInv, BuildersOK, EndBuild
<1>3. /\ buildPc'[b] = "done"
      /\ \A x \in Builders : x # b => buildPc'[x] = buildPc[x] /\ friendIDs'[x] = friendIDs[x]
  BY DEF IInv, BuildersOK, EndBuild
<1> QED
  BY <1>2, <1>3 DEF IInv, BuildersHold, Known

(* The builder reads the friends on some replica.                          *)
LEMMA BuildFriendsKeeps ==
    ASSUME IInv, NEW b \in Builders, BuildFriends(b)
    PROVE  IInv'
<1>1. UNCHANGED <<dbVars, cacheVars, queue, createPc, deletePc, workerVars, pipeVars, owed,
                  everFriends, faults, changes>>
  BY DEF BuildFriends
<1>2. TroublesOK' /\ faults' >= faults
  BY <1>1, FaultsStayBounded
<1>3. /\ CachesOK' /\ PipesOK' /\ FeedBounded' /\ FeedsKnown' /\ PipesKnown' /\ Hidden'
      /\ TablesOK' /\ RowsKnown' /\ WorkersOK' /\ WorkersHold'
      /\ TasksMade' /\ OwedAreFriends' /\ NobodySkipped'
  BY <1>1, <1>2, CachesAlone, TablesAlone, WorkersAlone, TasksAlone, OwedAlone, SkippedAlone
     DEF dbVars
<1>4. TasksOK'
  BY <1>1 DEF IInv, TasksOK
<1>5. PICK d \in Replicas :
         IF FriendsOf(Reader[b], replica[d].friends) = {} THEN EndBuild(b)
         ELSE /\ friendIDs' = [friendIDs EXCEPT ![b] =
                     FriendsOf(Reader[b], replica[d].friends) \union {Reader[b]}]
              /\ buildPc' = [buildPc EXCEPT ![b] = "posts"]
              /\ UNCHANGED request
  BY DEF BuildFriends
<1> DEFINE found == FriendsOf(Reader[b], replica[d].friends)
<1>6. /\ Reader[b] \in Users
      /\ found \subseteq Users
      /\ found \union {Reader[b]} \subseteq Known(Reader[b])
  <2>1. Reader[b] \in Users
    BY FeedAssumption
  <2>2. replica[d].friends \subseteq everFriends
    BY DEF IInv, RowsKnown
  <2>3. found \subseteq FriendsOf(Reader[b], everFriends) /\ found \subseteq Users
    BY <2>1, <2>2, FriendsSymmetric
  <2> QED
    BY <2>1, <2>3 DEF Known
<1> HIDE DEF found
<1>7. BuildersOK' /\ BuildersHold'
  <2>1. CASE EndBuild(b)
    BY <2>1, <1>1, EndKeeps
  <2>2. CASE /\ friendIDs' = [friendIDs EXCEPT ![b] = found \union {Reader[b]}]
             /\ buildPc' = [buildPc EXCEPT ![b] = "posts"]
             /\ UNCHANGED request
    <3>1. /\ friendIDs' \in [Builders -> SUBSET Users]
          /\ buildPc' \in [Builders -> {"idle", "friends", "posts", "done"}]
          /\ friendIDs'[b] = found \union {Reader[b]} /\ buildPc'[b] = "posts"
          /\ \A x \in Builders : x # b => friendIDs'[x] = friendIDs[x] /\ buildPc'[x] = buildPc[x]
      BY <2>2, <1>6 DEF IInv, BuildersOK
    <3>2. BuildersHold'
      BY <1>1, <1>6, <3>1 DEF IInv, BuildersHold, Known
    <3> QED
      BY <2>2, <3>1, <3>2 DEF IInv, BuildersOK
  <2> QED
    BY <1>5, <2>1, <2>2 DEF found
<1> QED
  BY <1>2, <1>3, <1>4, <1>7 DEF IInv

(* The builder reads a page of their posts, perhaps on another replica,    *)
(* and sends it to the cache.                                              *)
LEMMA BuildPostsKeeps ==
    ASSUME IInv, NEW b \in Builders, BuildPosts(b)
    PROVE  IInv'
<1>1. /\ UNCHANGED <<dbVars, cacheVars, queue, createPc, deletePc, workerVars, owed,
                     everFriends, faults, changes>>
      /\ EndBuild(b)
      /\ buildPc[b] = "posts"
  BY Zenon DEF BuildPosts
<1>2. TroublesOK' /\ faults' >= faults
  BY <1>1, FaultsStayBounded
<1>3. /\ TablesOK' /\ RowsKnown' /\ WorkersOK' /\ WorkersHold' /\ TasksMade' /\ OwedAreFriends'
      /\ BuildersOK' /\ BuildersHold'
  BY <1>1, TablesAlone, WorkersAlone, TasksAlone, OwedAlone, EndKeeps DEF dbVars
<1>4. TasksOK'
  BY <1>1 DEF IInv, TasksOK
<1> DEFINE mine(d) == {p \in replica[d].posts : Author[p] \in friendIDs[b]}
           found(d) == Newest({p \in mine(d) : request[b].last = 0 \/ p < request[b].last},
                              request[b].limit)
<1>5. PICK d \in Replicas : CacheFeed(b, found(d))
  BY DEF BuildPosts
<1>6. /\ found(d) \subseteq Posts
      /\ \A p \in found(d) : Author[p] \in Known(Reader[b])
  <2>1. found(d) \subseteq mine(d)
    BY DEF Newest
  <2>2. replica[d].posts \subseteq Posts
    BY DEF IInv, TablesOK
  <2>3. friendIDs[b] \subseteq Known(Reader[b])
    BY <1>1 DEF IInv, BuildersHold
  <2> QED
    BY <2>1, <2>2, <2>3
<1> HIDE DEF found
<1>7. CASE UNCHANGED pipeVars
  <2>1. CachesOK' /\ PipesOK' /\ FeedBounded' /\ FeedsKnown' /\ PipesKnown' /\ Hidden'
    BY <1>1, <1>2, <1>7, CachesAlone
  <2>2. NobodySkipped'
    BY <1>1, <1>7, SkippedAlone
  <2> QED
    BY <1>2, <1>3, <1>4, <2>1, <2>2 DEF IInv
<1>8. CASE \E list \in PageOrders(found(d)) : Exec(b, CacheCommands(Reader[b], list))
  <2>1. PICK list \in PageOrders(found(d)) : Exec(b, CacheCommands(Reader[b], list))
    BY <1>8
  <2>2. IsFiniteSet(found(d))
    BY <1>6, FeedAssumption, FS_Subset
  <2>3. list \in Seq(found(d))
    BY <2>2, OrdersAreSequences DEF PageOrders
  <2>4. /\ list \in Seq(Posts)
        /\ \A i \in 1..Len(list) : Author[list[i]] \in Known(Reader[b])
    BY <1>6, <2>3
  <2>5. Reader[b] \in Users /\ b \in Goroutines /\ b \notin Posts /\ b \notin Workers
    BY FeedAssumption DEF Goroutines
  <2> DEFINE s == CacheCommands(Reader[b], list)
  <2>6. s \in Seq(Commands) /\ s # <<>> /\ PipeKnown(b, s)
    BY <2>4, <2>5, CachePipeline
  <2>7. Exec(b, s)
    BY <2>1
  <2> HIDE DEF s
  <2>8. /\ CachesOK' /\ PipesOK'
        /\ \A x \in Goroutines : x # b => sent'[x] = sent[x] /\ executed'[x] = executed[x]
        /\ FeedBounded' /\ FeedsKnown' /\ PipesKnown' /\ Hidden'
    BY <1>1, <1>2, <2>5, <2>6, <2>7, ExecKeeps
  <2>9. NobodySkipped'
    <3>1. \A w \in Workers : sent'[w] = sent[w] /\ executed'[w] = executed[w]
      BY <2>5, <2>8 DEF Goroutines
    <3> QED
      BY <1>1, <3>1 DEF IInv, NobodySkipped, Awaits, workerVars
  <2> QED
    BY <1>2, <1>3, <1>4, <2>8, <2>9 DEF IInv
<1> QED
  BY <1>5, <1>7, <1>8 DEF CacheFeed

(* A builder fails.                                                        *)
LEMMA BuildFailsKeeps ==
    ASSUME IInv, NEW b \in Builders, BuildFails(b)
    PROVE  IInv'
<1>1. /\ UNCHANGED <<dbVars, cacheVars, queue, createPc, deletePc, workerVars, pipeVars, owed,
                     everFriends, changes>>
      /\ EndBuild(b) /\ SpendFault
  BY DEF BuildFails
<1>2. TroublesOK' /\ faults' >= faults
  BY <1>1, FaultsStayBounded
<1>3. /\ CachesOK' /\ PipesOK' /\ FeedBounded' /\ FeedsKnown' /\ PipesKnown' /\ Hidden'
      /\ TablesOK' /\ RowsKnown' /\ WorkersOK' /\ WorkersHold' /\ BuildersOK' /\ BuildersHold'
      /\ TasksMade' /\ OwedAreFriends' /\ NobodySkipped'
  BY <1>1, <1>2, CachesAlone, TablesAlone, WorkersAlone, TasksAlone, OwedAlone, SkippedAlone,
     EndKeeps DEF dbVars
<1>4. TasksOK'
  BY <1>1 DEF IInv, TasksOK
<1> QED
  BY <1>2, <1>3, <1>4 DEF IInv

-----------------------------------------------------------------------------
(* A key expires or is dropped, or a friendship changes.                   *)
LEMMA ChangesStayBounded ==
    ASSUME IInv, SpendChange, UNCHANGED faults
    PROVE  TroublesOK' /\ faults' >= faults
<1>1. /\ faults \in Nat /\ changes \in Nat /\ faults + changes <= MaxTroubles
      /\ MaxTroubles \in Nat
  BY FeedAssumption DEF IInv, TroublesOK
<1> QED
  BY <1>1 DEF SpendChange, TroublesOK

LEMMA InvalidateUserFeedKeeps ==
    ASSUME IInv, NEW u \in Users, InvalidateUserFeed(u)
    PROVE  IInv'
<1>1. /\ UNCHANGED <<dbVars, cached, revived, queue, createPc, deletePc, workerVars, buildVars,
                     pipeVars, owed, everFriends, faults>>
      /\ SpendChange /\ DropFeed(u)
  BY DEF InvalidateUserFeed
<1>2. TroublesOK' /\ faults' >= faults
  BY <1>1, ChangesStayBounded
<1>3. CachesOK' /\ PipesOK' /\ FeedBounded' /\ FeedsKnown' /\ PipesKnown' /\ Hidden'
  BY <1>1, <1>2, DropKeeps
<1>4. /\ TablesOK' /\ RowsKnown' /\ WorkersOK' /\ WorkersHold' /\ BuildersOK' /\ BuildersHold'
      /\ TasksMade' /\ OwedAreFriends' /\ NobodySkipped'
  BY <1>1, TablesAlone, WorkersAlone, BuildersAlone, TasksAlone, OwedAlone, SkippedAlone
     DEF dbVars
<1>5. TasksOK'
  BY <1>1 DEF IInv, TasksOK
<1> QED
  BY <1>2, <1>3, <1>4, <1>5 DEF IInv

LEMMA ExpirePostKeeps ==
    ASSUME IInv, NEW p \in Posts, ExpirePost(p)
    PROVE  IInv'
<1>1. /\ UNCHANGED <<dbVars, feed, revived, untrimmed, queue, createPc, deletePc, workerVars,
                     buildVars, pipeVars, owed, everFriends, faults>>
      /\ SpendChange
      /\ cached' \subseteq cached
  BY DEF ExpirePost
<1>2. TroublesOK' /\ faults' >= faults
  BY <1>1, ChangesStayBounded
<1>3. CachesOK' /\ PipesOK' /\ TasksOK'
  BY <1>1 DEF IInv, CachesOK, PipesOK, TasksOK, pipeVars
<1>4. FeedBounded' /\ PipesKnown'
  BY <1>1 DEF IInv, FeedBounded, Trims, PipesKnown, PipeKnown, Known, pipeVars
<1>5. FeedsKnown' /\ Hidden'
  BY <1>1 DEF IInv, FeedsKnown, Known, Hidden, Purged, pipeVars
<1>6. /\ TablesOK' /\ RowsKnown' /\ WorkersOK' /\ WorkersHold' /\ BuildersOK' /\ BuildersHold'
      /\ TasksMade' /\ OwedAreFriends' /\ NobodySkipped'
  BY <1>1, TablesAlone, WorkersAlone, BuildersAlone, TasksAlone, OwedAlone, SkippedAlone
     DEF dbVars
<1> QED
  BY <1>2, <1>3, <1>4, <1>5, <1>6 DEF IInv

(* When everFriends grows, whoever was known stays known.                  *)
LEMMA KnownGrows ==
    ASSUME IInv, everFriends \subseteq everFriends',
           UNCHANGED <<replica, cacheVars, workerVars, buildVars, pipeVars>>
    PROVE  RowsKnown' /\ WorkersHold' /\ BuildersHold' /\ FeedsKnown' /\ PipesKnown'
<1>1. \A u \in Users : FriendsOf(u, everFriends) \subseteq FriendsOf(u, everFriends')
  BY DEF FriendsOf
<1>2. \A u \in Users : Known(u) \subseteq Known(u)'
  BY <1>1 DEF Known
<1>3. RowsKnown'
  BY DEF IInv, RowsKnown
<1>4. FeedsKnown'
  <2> HIDE DEF Known
  <2> QED
    BY <1>2 DEF IInv, FeedsKnown, cacheVars
<1>5. PipesKnown'
  <2> HIDE DEF Known
  <2> QED
    BY <1>2 DEF IInv, PipesKnown, PipeKnown, pipeVars
<1>6. WorkersHold'
  <2>1. \A w \in Workers : workerPc[w] # "pop" => Author[task[w]] \in Users
    BY FeedAssumption DEF IInv, WorkersHold
  <2> QED
    BY <1>1, <2>1 DEF IInv, WorkersHold, workerVars
<1>7. BuildersHold'
  <2>1. \A b \in Builders : Reader[b] \in Users
    BY FeedAssumption
  <2> HIDE DEF Known
  <2> QED
    BY <1>2, <2>1 DEF IInv, BuildersHold, buildVars
<1> QED
  BY <1>3, <1>4, <1>5, <1>6, <1>7

(* A friendship is made or ended.                                          *)
LEMMA FriendshipKeeps ==
    ASSUME IInv, NEW u \in Users, NEW v \in Users, ApproveFriend(u, v) \/ DeleteFriend(u, v)
    PROVE  IInv'
<1>1. /\ UNCHANGED <<posts, replica, cacheVars, queue, createPc, deletePc, workerVars,
                     buildVars, pipeVars, owed, faults>>
      /\ SpendChange
  BY DEF ApproveFriend, DeleteFriend
<1>2. /\ everFriends \subseteq everFriends'
      /\ friends' \subseteq everFriends'
      /\ everFriends' \subseteq Users \X Users
  BY DEF IInv, TablesOK, ApproveFriend, DeleteFriend
<1>3. TroublesOK' /\ faults' >= faults
  BY <1>1, ChangesStayBounded
<1>4. TablesOK'
  BY <1>1, <1>2 DEF IInv, TablesOK
<1>5. CachesOK' /\ TasksOK' /\ PipesOK'
  BY <1>1 DEF IInv, CachesOK, TasksOK, PipesOK, cacheVars, pipeVars
<1>6. WorkersOK' /\ BuildersOK'
  BY <1>1 DEF IInv, WorkersOK, BuildersOK, workerVars, buildVars
<1>7. RowsKnown' /\ WorkersHold' /\ BuildersHold' /\ FeedsKnown' /\ PipesKnown'
  BY <1>1, <1>2, KnownGrows
<1>8. FeedBounded' /\ Hidden'
  BY <1>1 DEF IInv, FeedBounded, Trims, Hidden, Purged, cacheVars, pipeVars
<1>9. TasksMade' /\ OwedAreFriends' /\ NobodySkipped'
  BY <1>1, TasksAlone, OwedAlone, SkippedAlone
<1> QED
  BY <1>3, <1>4, <1>5, <1>6, <1>7, <1>8, <1>9 DEF IInv

(* A replica catches up: whoever it no longer shows as a friend is owed    *)
(* nothing more.                                                           *)
LEMMA ReplicateKeeps ==
    ASSUME IInv, NEW d \in Replicas, Replicate(d)
    PROVE  IInv'
<1>1. /\ UNCHANGED <<posts, friends, cacheVars, queue, createPc, deletePc, workerVars,
                     buildVars, pipeVars, everFriends, faults, changes>>
      /\ owed' = [p \in Posts |-> owed[p] \intersect SteadyFriends(Author[p])']
  BY DEF Replicate
<1>2. TroublesOK' /\ faults' >= faults
  BY <1>1, FaultsStayBounded
<1>3. /\ CachesOK' /\ PipesOK' /\ FeedBounded' /\ FeedsKnown' /\ PipesKnown' /\ Hidden'
      /\ WorkersOK' /\ WorkersHold' /\ BuildersOK' /\ BuildersHold' /\ TasksMade'
  BY <1>1, <1>2, CachesAlone, WorkersAlone, BuildersAlone, TasksAlone
<1>4. /\ replica' \in [Replicas -> [posts : SUBSET Posts, friends : SUBSET (Users \X Users)]]
      /\ \A e \in Replicas : replica'[e].friends \in {replica[e].friends, friends}
  BY DEF IInv, TablesOK, Replicate
<1>5. TablesOK' /\ RowsKnown'
  BY <1>1, <1>4 DEF IInv, TablesOK, RowsKnown
<1>6. /\ owed' \in [Posts -> SUBSET Users]
      /\ \A p \in Posts : owed'[p] \subseteq owed[p]
  <2>1. owed \in [Posts -> SUBSET Users]
    BY DEF IInv, TasksOK
  <2> QED
    BY <1>1, <2>1
<1>7. TasksOK'
  BY <1>1, <1>6 DEF IInv, TasksOK
<1>8. OwedAreFriends'
  <2>1. \A p \in Posts : \A e \in Replicas :
           SteadyFriends(Author[p])' \subseteq FriendsOf(Author[p], replica'[e].friends)
    BY DEF SteadyFriends, FriendsOf
  <2> QED
    BY <1>1, <2>1 DEF OwedAreFriends
<1>9. NobodySkipped'
  <2>1. \A w \in Workers : workerPc[w] # "pop" => task[w] \in Posts
    BY DEF IInv, WorkersHold
  <2> QED
    BY <1>1, <1>6, <2>1, SkippedAlone
<1> QED
  BY <1>2, <1>3, <1>5, <1>7, <1>8, <1>9 DEF IInv

-----------------------------------------------------------------------------
LEMMA StepHolds == IInv /\ [Next]_vars => IInv'
<1> SUFFICES ASSUME IInv, [Next]_vars
             PROVE  IInv'
  OBVIOUS
<1>1. ASSUME NEW p \in Posts, CreatePost(p) \/ EnqueueFeedUpdate(p) \/ ExpirePost(p)
      PROVE  IInv'
  BY <1>1, CreatePostKeeps, EnqueueFeedUpdateKeeps, ExpirePostKeeps
<1>2. ASSUME NEW p \in Deletions, DeletePost(p) \/ RemovePostFromFeeds(p)
      PROVE  IInv'
  BY <1>2, DeletePostKeeps, RemovePostKeeps
<1>3. ASSUME NEW w \in Workers, Worker(w) \/ CrashWorker(w)
      PROVE  IInv'
  BY <1>3, TakeTaskKeeps, ReadFriendsKeeps, DeliverToFriendKeeps, DeliverToAuthorKeeps,
     EndTaskKeeps DEF Worker
<1>4. ASSUME NEW b \in Builders, Build(b)
      PROVE  IInv'
  <2>1. LastIDs \subseteq Posts \union {0}
    BY FeedAssumption
  <2> QED
    BY <1>4, <2>1, GetUserFeedKeeps, RebuildUserFeedKeeps, BuildFriendsKeeps, BuildPostsKeeps,
       BuildFailsKeeps DEF Build
<1>5. ASSUME NEW g \in Goroutines, ExecuteCommand(g) \/ LoseRest(g)
      PROVE  IInv'
  BY <1>5, ExecuteCommandKeeps, LoseRestKeeps
<1>6. ASSUME NEW u \in Users, InvalidateUserFeed(u)
      PROVE  IInv'
  BY <1>6, InvalidateUserFeedKeeps
<1>7. ASSUME NEW c \in Changing, ApproveFriend(c[1], c[2]) \/ DeleteFriend(c[1], c[2])
      PROVE  IInv'
  <2>1. c[1] \in Users /\ c[2] \in Users
    BY FeedAssumption
  <2> QED
    BY <1>7, <2>1, FriendshipKeeps
<1>8. ASSUME NEW d \in Replicas, Replicate(d)
      PROVE  IInv'
  BY <1>8, ReplicateKeeps
<1>9. CASE UNCHANGED vars
  <2>1. /\ UNCHANGED <<dbVars, cacheVars, queue, createPc, deletePc, workerVars, buildVars,
                       pipeVars, owed, everFriends, faults, changes>>
    BY <1>9 DEF vars
  <2>2. TroublesOK' /\ faults' >= faults
    BY <2>1, FaultsStayBounded
  <2>3. /\ CachesOK' /\ PipesOK' /\ FeedBounded' /\ FeedsKnown' /\ PipesKnown' /\ Hidden'
        /\ TablesOK' /\ RowsKnown' /\ WorkersOK' /\ WorkersHold' /\ BuildersOK' /\ BuildersHold'
        /\ TasksMade' /\ OwedAreFriends' /\ NobodySkipped'
    BY <2>1, <2>2, CachesAlone, TablesAlone, WorkersAlone, BuildersAlone, TasksAlone, OwedAlone,
       SkippedAlone DEF dbVars
  <2>4. TasksOK'
    BY <2>1 DEF IInv, TasksOK
  <2> QED
    BY <2>2, <2>3, <2>4 DEF IInv
<1> QED
  BY <1>1, <1>2, <1>3, <1>4, <1>5, <1>6, <1>7, <1>8, <1>9 DEF Next

(* IInv holds in every state.                                              *)
THEOREM Inductive == Spec => []IInv
  BY InitHolds, StepHolds, PTL DEF Spec

(* A feed outgrows MAX_FEED_SIZE only while a pipeline that ends in its    *)
(* trim is under way, or after a connection broke in one, however the      *)
(* commands of workers, builders and removals interleave; and tasks, pages *)
(* and feeds hold posts.                                                   *)
THEOREM FeedTypeCorrect == Spec => []TypeOK
<1>1. IInv => TypeOK
  BY DEF IInv, TypeOK, TablesOK, CachesOK, TasksOK, WorkersOK, BuildersOK, PipesOK, TroublesOK
<1> QED
  BY <1>1, Inductive, PTL

(* A post whose removal has been carried out is in no feed a reader sees,  *)
(* unless a task or a page cached it again.                                *)
THEOREM PurgedPostsAreHidden == Spec => []PurgedIsHidden
<1>1. IInv => PurgedIsHidden
  BY DEF IInv, Hidden, PurgedIsHidden, Visible
<1> QED
  BY <1>1, Inductive, PTL

(* No feed holds a post of a user who never was a friend, through stale    *)
(* reads and friendships that end while a post or a page is under way.     *)
THEOREM FeedsAreOfFriends == Spec => []FeedOfFriends
<1>1. IInv => FeedOfFriends
  BY DEF IInv, FeedsKnown, Known, FeedOfFriends, Former
<1> QED
  BY <1>1, Inductive, PTL

(* A worker at the end of a fan-out has had the post put in the feed of    *)
(* everybody who has been a friend on every replica since the post was     *)
(* made, but for those in whose delivery the connection broke, through     *)
(* friendships that change and replicas that lag meanwhile.                *)
THEOREM FanOutsReachFriends == Spec => []FanOutReachesFriends
<1>1. IInv => FanOutReachesFriends
  <2> SUFFICES ASSUME IInv, NEW w \in Workers, FannedOut(w), NEW u \in owed[task[w]]
               PROVE  FALSE
    BY DEF FanOutReachesFriends
  <2>1. workerPc[w] = "last" /\ Len(sent[w]) = 0
    BY DEF FannedOut
  <2>2. todo[w] = {}
    BY <2>1 DEF IInv, WorkersHold
  <2>3. ~ Awaits(w, u, task[w])
    BY <2>1 DEF Awaits
  <2> QED
    BY <2>1, <2>2, <2>3 DEF IInv, NobodySkipped
<1> QED
  BY <1>1, Inductive, PTL
=============================================================================

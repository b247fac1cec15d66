----------------------------- MODULE RedisDialog -----------------------------
(***************************************************************************)
(* One dialog of RedisDialogService (src/services/redis_dialog_service.go) *)
(* and the three keys that hold it: the sorted set dialog:a:b of messages, *)
(* the hash unread:a:b and the hash stats:a:b.  Dialogs share no key.      *)
(*                                                                         *)
(* Redis runs a Lua script atomically, so the steps are the scripts; what  *)
(* can interleave is the retry of a script whose reply was lost, the       *)
(* expiry of keys and their eviction (allkeys-lru in docker-compose.yml).  *)
(*                                                                         *)
(* A member of the sorted set is the JSON of a message: marking a message  *)
(* as read changes the member.  It is written <<m, mark>> here.  Texts and *)
(* times, which only order the list, are left out.                         *)
(***************************************************************************)
EXTENDS Integers, FiniteSets

CONSTANTS
    Parties,       \* the two users of the dialog
    Messages,      \* the calls of SendMessage
    To,            \* the recipient of each of them
    Lifetime,      \* the TTL of the keys: 30 days in the code
    MaxFaults,     \* bound on lost calls and replies
    MaxEvictions   \* bound on keys evicted by Redis

ASSUME DialogAssumption ==
    /\ IsFiniteSet(Messages)
    /\ To \in [Messages -> Parties]
    /\ Lifetime \in Nat \ {0}
    /\ MaxFaults \in Nat
    /\ MaxEvictions \in Nat

Keys == {"dialog", "unread", "stats"}

(* is_read in the JSON of a message.                                       *)
Marks == {"unread", "read"}

VARIABLES
    members,     \* the members of dialog:a:b
    unreadCount, \* the hash unread:a:b; a missing field is 0
    total,       \* total_messages in stats:a:b; a missing field is 0
    keys,        \* the keys that exist
    persistent,  \* the keys that exist without a TTL
    ttl,         \* ttl[k]: what is left of the TTL of key k
    sendPc,      \* where each call of SendMessage is
    damaged,     \* history: the users whose unread count was broken
    faults, resends, evictions

vars == <<members, unreadCount, total, keys, persistent, ttl, sendPc, damaged,
          faults, resends, evictions>>

SendStates == {"idle", "retry", "done", "failed"}

TypeOK ==
    /\ members \subseteq Messages \X Marks
    /\ unreadCount \in [Parties -> Nat]
    /\ total \in Nat
    /\ keys \subseteq Keys
    /\ persistent \subseteq keys
    /\ ttl \in [Keys -> 0..Lifetime]
    /\ sendPc \in [Messages -> SendStates]
    /\ damaged \subseteq Parties
    /\ faults \in 0..MaxFaults
    /\ resends \in Nat
    /\ evictions \in 0..MaxEvictions

Init ==
    /\ members = {}
    /\ unreadCount = [u \in Parties |-> 0]
    /\ total = 0
    /\ keys = {}
    /\ persistent = {}
    /\ ttl = [k \in Keys |-> 0]
    /\ sendPc = [m \in Messages |-> "idle"]
    /\ damaged = {}
    /\ faults = 0
    /\ resends = 0
    /\ evictions = 0

(* The unread messages to u the sorted set holds.                          *)
Unread(u) == {m \in Messages : To[m] = u /\ <<m, "unread">> \in members}

SpendFault == faults < MaxFaults /\ faults' = faults + 1

-----------------------------------------------------------------------------
(* Mutants: the total is incremented instead of read back with ZCARD; the  *)
(* EXPIRE of the dialog is forgotten.                                      *)
SendScriptAdds(m) ==
    /\ members' = members \union {<<m, "unread">>}
    /\ unreadCount' = [unreadCount EXCEPT ![To[m]] = @ + 1]
    /\ total' = total + 1
    /\ keys' = Keys
    /\ persistent' = {}
    /\ ttl' = [k \in Keys |-> Lifetime]

SendScriptNoExpire(m) ==
    /\ members' = members \union {<<m, "unread">>}
    /\ unreadCount' = [unreadCount EXCEPT ![To[m]] = @ + 1]
    /\ total' = Cardinality(members')
    /\ keys' = Keys
    /\ persistent' = IF "dialog" \in keys \ persistent THEN {} ELSE {"dialog"}
    /\ ttl' = [k \in Keys |-> IF k = "dialog" THEN ttl[k] ELSE Lifetime]

(* sendMessageScript: ZADD, HINCRBY, HSET and an EXPIRE of each key.       *)
SendScript(m) ==
    /\ members' = members \union {<<m, "unread">>}
    /\ unreadCount' = [unreadCount EXCEPT ![To[m]] = @ + 1]
    /\ total' = Cardinality(members')
    /\ keys' = Keys
    /\ persistent' = {}
    /\ ttl' = [k \in Keys |-> Lifetime]

(* SendMessage: the script runs; when its reply is lost go-redis sends the *)
(* same call again, with the same message id.                              *)
SendMessage(m) ==
    /\ sendPc[m] = "idle"
    /\ SendScript(m)
    /\ \/ sendPc' = [sendPc EXCEPT ![m] = "done"] /\ UNCHANGED faults
       \/ sendPc' = [sendPc EXCEPT ![m] = "retry"] /\ SpendFault
    /\ UNCHANGED <<damaged, resends, evictions>>

(* The second run: ZADD finds the member in place, unless it was marked    *)
(* read or has expired meanwhile, but HINCRBY counts the message again.    *)
ResendMessage(m) ==
    /\ sendPc[m] = "retry"
    /\ SendScript(m)
    /\ sendPc' = [sendPc EXCEPT ![m] = "done"]
    /\ resends' = resends + 1
    /\ damaged' = IF <<m, "unread">> \in members THEN damaged \union {To[m]} ELSE damaged
    /\ UNCHANGED <<faults, evictions>>

(* The call never reaches Redis, or the client gives up on its retries:    *)
(* the sender is told the message was not sent.                            *)
SendFails(m) ==
    /\ \/ sendPc[m] = "idle" /\ SpendFault
       \/ sendPc[m] = "retry" /\ UNCHANGED faults
    /\ sendPc' = [sendPc EXCEPT ![m] = "failed"]
    /\ UNCHANGED <<members, unreadCount, total, keys, persistent, ttl, damaged,
                   resends, evictions>>

(* Mutants: the count is decremented instead of set to 0; it is left as it *)
(* is; the unread copy of a message is not removed.                        *)
MarkAsReadSubtracts(u) ==
    /\ members' = (members \ {<<m, "unread">> : m \in Unread(u)})
                    \union {<<m, "read">> : m \in Unread(u)}
    /\ unreadCount' = [unreadCount EXCEPT ![u] = @ - Cardinality(Unread(u))]
    /\ UNCHANGED <<total, keys, persistent, ttl, sendPc, damaged, faults, resends,
                   evictions>>

MarkAsReadKeepsCount(u) ==
    /\ members' = (members \ {<<m, "unread">> : m \in Unread(u)})
                    \union {<<m, "read">> : m \in Unread(u)}
    /\ UNCHANGED <<unreadCount, total, keys, persistent, ttl, sendPc, damaged,
                   faults, resends, evictions>>

MarkAsReadAdds(u) ==
    /\ members' = members \union {<<m, "read">> : m \in Unread(u)}
    /\ unreadCount' = [unreadCount EXCEPT ![u] = 0]
    /\ keys' = keys \union {"unread"}
    /\ UNCHANGED <<total, persistent, ttl, sendPc, damaged, faults, resends,
                   evictions>>

(* markAsReadScript.  Each unread message is removed and added again as    *)
(* read; removing the only member deletes the key, so the key the addition *)
(* creates has no TTL.  HSET creates the hash, without a TTL, when it does *)
(* not exist.  The statistics are not updated.                             *)
MarkAsRead(u) ==
    LET fresh == Unread(u) IN
    /\ members' = (members \ {<<m, "unread">> : m \in fresh})
                    \union {<<m, "read">> : m \in fresh}
    /\ unreadCount' = [unreadCount EXCEPT ![u] = 0]
    /\ keys' = keys \union {"unread"}
    /\ persistent' = persistent
         \union (IF "unread" \in keys THEN {} ELSE {"unread"})
         \union (IF fresh # {} /\ Cardinality(members) = 1 THEN {"dialog"} ELSE {})
    /\ damaged' = damaged \ {u}
    /\ UNCHANGED <<total, ttl, sendPc, faults, resends, evictions>>

-----------------------------------------------------------------------------
(* What Redis does with a key that goes away.                              *)
Forget(gone) ==
    /\ keys' = keys \ gone
    /\ persistent' = persistent \ gone
    /\ members' = IF "dialog" \in gone THEN {} ELSE members
    /\ unreadCount' = IF "unread" \in gone THEN [u \in Parties |-> 0] ELSE unreadCount
    /\ total' = IF "stats" \in gone THEN 0 ELSE total

(* Time passes for every key with a TTL, and the keys it runs out for are  *)
(* deleted.                                                                *)
Tick ==
    LET aging == keys \ persistent IN
    /\ aging # {}
    /\ Forget({k \in aging : ttl[k] = 1})
    /\ ttl' = [k \in Keys |-> IF k \in aging THEN ttl[k] - 1 ELSE ttl[k]]
    /\ UNCHANGED <<sendPc, damaged, faults, resends, evictions>>

(* Redis is out of memory and evicts one key of the three.                 *)
Evict(k) ==
    /\ k \in keys
    /\ evictions < MaxEvictions
    /\ evictions' = evictions + 1
    /\ Forget({k})
    /\ damaged' = IF k = "stats" THEN damaged
                  ELSE damaged \union {u \in Parties : Unread(u) # {}}
    /\ UNCHANGED <<ttl, sendPc, faults, resends>>

Next ==
    \/ \E m \in Messages : SendMessage(m) \/ ResendMessage(m) \/ SendFails(m)
    \/ \E u \in Parties : MarkAsRead(u)
    \/ Tick
    \/ \E k \in Keys : Evict(k)

Spec == Init /\ [][Next]_vars

-----------------------------------------------------------------------------
(* The unread count kept in the hash is the number of unread messages in   *)
(* the sorted set, although the two keys are updated by different commands *)
(* and expire on their own.  Only a repeated send and an eviction break    *)
(* it, until the user next reads the dialog.                               *)
UnreadExact ==
    \A u \in Parties \ damaged : unreadCount[u] = Cardinality(Unread(u))

(* The total GetDialogStats returns is the length of the list GetMessages  *)
(* returns, as long as the statistics have not expired.                    *)
TotalExact ==
    evictions = 0 /\ resends = 0 /\ "stats" \in keys => total = Cardinality(members)

(* A message is listed once, read or unread, unless it was sent twice:     *)
(* ZADD tells messages apart by their JSON, which includes is_read.        *)
ListedOnce ==
    resends = 0 =>
        \A m \in Messages : <<m, "read">> \in members => <<m, "unread">> \notin members

(* Unread messages are never kept for ever: a dialog can only lose its TTL *)
(* when there is nothing left to read in it, and a new message gives it    *)
(* back.                                                                   *)
UnreadExpires ==
    "dialog" \in persistent => \A u \in Parties : Unread(u) = {}

-----------------------------------------------------------------------------
(* How a dialog maps to an inbox: a call that may still be repeated has    *)
(* sent its message, whoever has been told so.                             *)
PhaseOf(m) ==
    IF sendPc[m] = "idle" THEN "new"
    ELSE IF sendPc[m] = "retry" THEN "sent" ELSE "over"

Inbox == INSTANCE DialogInbox WITH
    phase    <- [m \in Messages |-> PhaseOf(m)],
    waiting  <- {m \in Messages : <<m, "unread">> \in members},
    badge    <- unreadCount,
    doubtful <- damaged

(* Three keys, two of them counted and expiring on their own, behave like  *)
(* one inbox: the badge follows the messages step by step, and both lapse  *)
(* in the same step.                                                       *)
ImplementsInbox == Inbox!Spec
=============================================================================

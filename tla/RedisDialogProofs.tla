-------------------------- MODULE RedisDialogProofs --------------------------
(***************************************************************************)
(* Theorems about RedisDialog, for any set of messages and any lifetime.   *)
(***************************************************************************)
EXTENDS RedisDialog, FiniteSetTheorems, TLAPS

(* A key that does not exist reads as empty, and a key with a TTL has some *)
(* of it left.                                                             *)
KeysHold ==
    /\ "dialog" \notin keys => members = {}
    /\ "unread" \notin keys => \A u \in Parties : unreadCount[u] = 0
    /\ \A k \in keys \ persistent : ttl[k] > 0

(* The two keys UnreadExact compares expire together, unless the one that  *)
(* stays has nothing to say.                                               *)
ExpireTogether ==
    /\ {"dialog", "unread"} \subseteq keys \ persistent => ttl["dialog"] = ttl["unread"]
    /\ "unread" \in persistent => \A u \in Parties : unreadCount[u] = 0
    /\ UnreadExpires

(* A message that was not sent is not listed.                              *)
NotSentNotListed ==
    \A m \in Messages, mark \in Marks :
        sendPc[m] = "idle" => <<m, mark>> \notin members

IInv ==
    /\ TypeOK
    /\ KeysHold
    /\ ExpireTogether
    /\ NotSentNotListed
    /\ UnreadExact

-----------------------------------------------------------------------------
(* The sorted set is finite, and so is what is unread in it.               *)
LEMMA MembersFinite ==
    ASSUME TypeOK
    PROVE  /\ IsFiniteSet(members)
           /\ Cardinality(members) \in Nat
           /\ \A u \in Parties : /\ IsFiniteSet(Unread(u))
                                 /\ Cardinality(Unread(u)) \in Nat
<1>1. IsFiniteSet(Messages)
  BY DialogAssumption
<1>2. IsFiniteSet(Marks)
  <2>1. IsFiniteSet({"unread"} \union {"read"})
    BY FS_Singleton, FS_AddElement
  <2>2. Marks = {"unread"} \union {"read"}
    BY DEF Marks
  <2> QED
    BY <2>1, <2>2
<1>3. IsFiniteSet(Messages \X Marks)
  BY <1>1, <1>2, FS_Product
<1>4. IsFiniteSet(members)
  BY <1>3, FS_Subset DEF TypeOK
<1>5. \A u \in Parties : IsFiniteSet(Unread(u))
  BY <1>1, FS_Subset DEF Unread
<1> QED
  BY <1>4, <1>5, FS_CardinalityType

(* sendMessageScript adds one unread message, and counts it, when it was   *)
(* not in the list: what SendMessage and a late ResendMessage rest on.     *)
LEMMA SendCountsOne ==
    ASSUME TypeOK, UnreadExact, NEW m \in Messages, SendScript(m),
           <<m, "unread">> \notin members,
           damaged' = damaged
    PROVE  UnreadExact'
<1> SUFFICES ASSUME NEW u \in Parties, u \notin damaged
             PROVE  unreadCount'[u] = Cardinality(Unread(u)')
  BY DEF UnreadExact
<1>1. unreadCount[u] = Cardinality(Unread(u))
  BY DEF UnreadExact
<1>2. CASE u = To[m]
  <2>1. Unread(u)' = Unread(u) \union {m}
    BY <1>2 DEF Unread, SendScript
  <2>2. m \notin Unread(u)
    BY DEF Unread
  <2>3. Cardinality(Unread(u)') = Cardinality(Unread(u)) + 1
    BY <2>1, <2>2, MembersFinite, FS_AddElement
  <2>4. unreadCount'[u] = unreadCount[u] + 1
    BY <1>2 DEF TypeOK, SendScript
  <2> QED
    BY <1>1, <2>3, <2>4
<1>3. CASE u # To[m]
  <2>1. Unread(u)' = Unread(u)
    BY <1>3 DEF Unread, SendScript
  <2>2. unreadCount'[u] = unreadCount[u]
    BY <1>3 DEF TypeOK, SendScript
  <2> QED
    BY <1>1, <2>1, <2>2
<1> QED
  BY <1>2, <1>3

(* The three keys are rewritten with a fresh TTL by sendMessageScript.     *)
LEMMA SendRefreshesKeys ==
    ASSUME TypeOK, NEW m \in Messages, SendScript(m)
    PROVE  KeysHold' /\ ExpireTogether'
  BY DialogAssumption DEF SendScript, KeysHold, ExpireTogether, UnreadExpires, Keys, TypeOK

(* The types survive sendMessageScript.                                    *)
LEMMA SendTypes ==
    ASSUME TypeOK, NEW m \in Messages, SendScript(m)
    PROVE  /\ members' \subseteq Messages \X Marks
           /\ unreadCount' \in [Parties -> Nat]
           /\ total' \in Nat
           /\ keys' \subseteq Keys
           /\ persistent' \subseteq keys'
           /\ ttl' \in [Keys -> 0..Lifetime]
<1>1. members' \subseteq Messages \X Marks
  BY DEF SendScript, TypeOK, Marks
<1>2. total' \in Nat
  <2>1. IsFiniteSet(members')
    BY MembersFinite, FS_AddElement DEF SendScript
  <2> QED
    BY <2>1, FS_CardinalityType DEF SendScript
<1>3. unreadCount' \in [Parties -> Nat]
  BY DialogAssumption DEF SendScript, TypeOK
<1>4. ttl' \in [Keys -> 0..Lifetime]
  BY DialogAssumption DEF SendScript
<1> QED
  BY <1>1, <1>2, <1>3, <1>4 DEF SendScript

-----------------------------------------------------------------------------
LEMMA InitIInv == Init => IInv
<1> SUFFICES ASSUME Init PROVE IInv
  OBVIOUS
<1>1. TypeOK
  BY DialogAssumption DEF Init, TypeOK, SendStates
<1>2. UnreadExact
  <2>1. \A u \in Parties : Unread(u) = {}
    BY DEF Init, Unread
  <2> QED
    BY <2>1, FS_EmptySet DEF Init, UnreadExact
<1> QED
  BY <1>1, <1>2 DEF Init, IInv, KeysHold, ExpireTogether, UnreadExpires, NotSentNotListed

LEMMA SendMessageStep ==
    ASSUME IInv, NEW m \in Messages, SendMessage(m)
    PROVE  IInv'
<1> USE DEF IInv
<1>1. SendScript(m) /\ damaged' = damaged /\ <<m, "unread">> \notin members
  BY DEF SendMessage, NotSentNotListed, Marks
<1>2. TypeOK'
  BY <1>1, SendTypes, DialogAssumption DEF SendMessage, SpendFault, TypeOK, SendStates
<1>3. KeysHold' /\ ExpireTogether'
  BY <1>1, SendRefreshesKeys
<1>4. NotSentNotListed'
  BY <1>1 DEF NotSentNotListed, Marks, SendMessage, SendScript, TypeOK
<1>5. UnreadExact'
  BY <1>1, SendCountsOne
<1> QED
  BY <1>2, <1>3, <1>4, <1>5

LEMMA ResendMessageStep ==
    ASSUME IInv, NEW m \in Messages, ResendMessage(m)
    PROVE  IInv'
<1> USE DEF IInv
<1>1. SendScript(m)
  BY DEF ResendMessage
<1>2. TypeOK'
  <2>1. sendPc' \in [Messages -> SendStates]
    BY DEF ResendMessage, TypeOK, SendStates
  <2>2. damaged' \subseteq Parties
    BY DialogAssumption DEF ResendMessage, TypeOK
  <2>3. resends' \in Nat /\ faults' \in 0..MaxFaults /\ evictions' \in 0..MaxEvictions
    BY DEF ResendMessage, TypeOK
  <2> QED
    BY <1>1, <2>1, <2>2, <2>3, SendTypes DEF TypeOK
<1>3. KeysHold' /\ ExpireTogether'
  BY <1>1, SendRefreshesKeys
<1>4. NotSentNotListed'
  BY <1>1 DEF NotSentNotListed, Marks, ResendMessage, SendScript, TypeOK
<1>5. UnreadExact'
  <2>1. CASE <<m, "unread">> \notin members
    BY <1>1, <2>1, SendCountsOne DEF ResendMessage
  <2>2. CASE <<m, "unread">> \in members
    <3> SUFFICES ASSUME NEW u \in Parties, u \notin damaged'
                 PROVE  unreadCount'[u] = Cardinality(Unread(u)')
      BY DEF UnreadExact
    <3>1. u # To[m] /\ u \notin damaged
      BY <2>2 DEF ResendMessage
    <3>2. Unread(u)' = Unread(u)
      BY <1>1, <2>2 DEF Unread, SendScript
    <3>3. unreadCount'[u] = unreadCount[u]
      BY <1>1, <3>1 DEF SendScript, TypeOK
    <3> QED
      BY <3>1, <3>2, <3>3 DEF UnreadExact
  <2> QED
    BY <2>1, <2>2
<1> QED
  BY <1>2, <1>3, <1>4, <1>5

LEMMA SendFailsStep ==
    ASSUME IInv, NEW m \in Messages, SendFails(m)
    PROVE  IInv'
<1> USE DEF IInv
<1>1. TypeOK'
  BY DialogAssumption DEF SendFails, SpendFault, TypeOK, SendStates
<1>2. KeysHold' /\ ExpireTogether'
  BY DEF SendFails, KeysHold, ExpireTogether, UnreadExpires, Unread
<1>3. NotSentNotListed'
  BY DEF NotSentNotListed, SendFails, TypeOK
<1>4. UnreadExact'
  BY DEF SendFails, UnreadExact, Unread
<1> QED
  BY <1>1, <1>2, <1>3, <1>4

(* After markAsReadScript nothing to u is unread, and nothing to the other *)
(* user has changed.                                                       *)
LEMMA MarkAsReadUnread ==
    ASSUME NEW u \in Parties, MarkAsRead(u)
    PROVE  \A v \in Parties : Unread(v)' = IF v = u THEN {} ELSE Unread(v)
<1>1. ASSUME NEW m \in Messages
      PROVE  <<m, "unread">> \in members' <=>
                 <<m, "unread">> \in members /\ m \notin Unread(u)
  BY DEF MarkAsRead
<1> QED
  BY <1>1 DEF Unread

LEMMA MarkAsReadStep ==
    ASSUME IInv, NEW u \in Parties, MarkAsRead(u)
    PROVE  IInv'
<1> USE DEF IInv
<1>1. Unread(u) # {} => "dialog" \in keys
  BY DEF KeysHold, Unread
<1>2. TypeOK'
  <2>1. members' \subseteq Messages \X Marks
    <3>1. members' = (members \ {<<m, "unread">> : m \in Unread(u)})
                        \union {<<m, "read">> : m \in Unread(u)}
      BY DEF MarkAsRead
    <3>2. {<<m, "read">> : m \in Unread(u)} \subseteq Messages \X Marks
      <4>1. Unread(u) \subseteq Messages
        BY DEF Unread
      <4>2. \A m \in Unread(u) : <<m, "read">> \in Messages \X {"unread", "read"}
        BY ONLY <4>1
      <4> QED
        BY ONLY <4>2 DEF Marks
    <3>3. members \subseteq Messages \X Marks
      BY DEF TypeOK
    <3> QED
      BY ONLY <3>1, <3>2, <3>3
  <2>2. keys' \subseteq Keys /\ persistent' \subseteq keys'
    BY <1>1 DEF MarkAsRead, TypeOK, Keys
  <2>3. unreadCount' \in [Parties -> Nat]
    BY DEF MarkAsRead, TypeOK
  <2>4. damaged' \subseteq Parties
    BY DEF MarkAsRead, TypeOK
  <2>5. UNCHANGED <<total, ttl, sendPc, faults, resends, evictions>>
    BY DEF MarkAsRead
  <2> QED
    BY <2>1, <2>2, <2>3, <2>4, <2>5 DEF TypeOK
<1>3. KeysHold'
  <2>1. members = {} => members' = {}
    BY DEF MarkAsRead, Unread
  <2> QED
    BY <2>1 DEF MarkAsRead, KeysHold, TypeOK, Keys
<1>4. ExpireTogether'
  <2>1. \A v \in Parties : "unread" \in persistent' => unreadCount'[v] = 0
    BY DEF MarkAsRead, TypeOK, KeysHold, ExpireTogether
  <2>2. ASSUME "dialog" \in persistent', NEW v \in Parties PROVE Unread(v)' = {}
    <3>1. CASE "dialog" \in persistent
      BY <3>1, MarkAsReadUnread DEF ExpireTogether, UnreadExpires
    <3>2. CASE "dialog" \notin persistent
      <4>1. Unread(u) # {} /\ Cardinality(members) = 1
        BY <2>2, <3>2 DEF MarkAsRead
      <4>2. PICK e : members = {e}
        BY <4>1, MembersFinite, FS_Singleton
      <4>3. Unread(v) \subseteq Unread(u)
        BY <4>1, <4>2 DEF Unread
      <4>4. v # u => Unread(v) = {}
        BY <4>3 DEF Unread
      <4> QED
        BY <4>4, MarkAsReadUnread
    <3> QED
      BY <3>1, <3>2
  <2>3. {"dialog", "unread"} \subseteq keys' \ persistent' => ttl'["dialog"] = ttl'["unread"]
    BY DEF MarkAsRead, ExpireTogether
  <2> QED
    BY <2>1, <2>2, <2>3 DEF ExpireTogether, UnreadExpires
<1>5. NotSentNotListed'
  BY DEF MarkAsRead, NotSentNotListed, Unread, Marks
<1>6. UnreadExact'
  <2> SUFFICES ASSUME NEW v \in Parties, v \notin damaged'
               PROVE  unreadCount'[v] = Cardinality(Unread(v)')
    BY DEF UnreadExact
  <2>1. CASE v = u
    BY <2>1, MarkAsReadUnread, FS_EmptySet DEF MarkAsRead, TypeOK
  <2>2. CASE v # u
    BY <2>2, MarkAsReadUnread DEF MarkAsRead, TypeOK, UnreadExact
  <2> QED
    BY <2>1, <2>2
<1> QED
  BY <1>2, <1>3, <1>4, <1>5, <1>6

-----------------------------------------------------------------------------
(* What expiry and eviction have in common.                                *)
LEMMA ForgetTypes ==
    ASSUME TypeOK, NEW gone, Forget(gone)
    PROVE  /\ members' \in {members, {}}
           /\ unreadCount' \in [Parties -> Nat]
           /\ total' \in Nat
           /\ keys' \subseteq keys
           /\ persistent' \subseteq keys'
  BY DEF Forget, TypeOK

LEMMA TickStep ==
    ASSUME IInv, Tick
    PROVE  IInv'
<1> USE DEF IInv
<1> DEFINE aging == keys \ persistent
           gone  == {k \in aging : ttl[k] = 1}
<1>1. Forget(gone)
  BY DEF Tick
<1>2. /\ keys' = keys \ gone
      /\ persistent' = persistent
  BY <1>1 DEF Forget
<1>3. ttl' = [k \in Keys |-> IF k \in aging THEN ttl[k] - 1 ELSE ttl[k]]
  BY DEF Tick
<1>4. TypeOK'
  <2>1. ttl' \in [Keys -> 0..Lifetime]
    BY <1>3, DialogAssumption DEF KeysHold, TypeOK
  <2>2. members' \subseteq Messages \X Marks
    BY <1>1, ForgetTypes DEF TypeOK
  <2> QED
    BY <1>1, <2>1, <2>2, ForgetTypes DEF Tick, TypeOK
<1>5. KeysHold'
  <2>1. "dialog" \notin keys' => members' = {}
    BY <1>1, <1>2 DEF Forget, KeysHold
  <2>2. "unread" \notin keys' => \A u \in Parties : unreadCount'[u] = 0
    BY <1>1, <1>2 DEF Forget, KeysHold
  <2>3. ASSUME NEW k \in keys' \ persistent' PROVE ttl'[k] > 0
    <3>1. k \in aging /\ k \in Keys /\ ttl[k] # 1
      BY <1>2, <2>3 DEF TypeOK
    <3>2. ttl[k] \in Nat /\ ttl[k] > 0
      BY <3>1, DialogAssumption DEF KeysHold, TypeOK
    <3> QED
      BY <1>3, <3>1, <3>2
  <2> QED
    BY <2>1, <2>2, <2>3 DEF KeysHold
<1>6. ASSUME NEW u \in Parties PROVE Unread(u)' \subseteq Unread(u)
  BY <1>1 DEF Forget, Unread
<1>7. ExpireTogether'
  <2>1. {"dialog", "unread"} \subseteq keys' \ persistent' => ttl'["dialog"] = ttl'["unread"]
    BY <1>2, <1>3 DEF ExpireTogether, Keys
  <2>2. "unread" \in persistent' => \A u \in Parties : unreadCount'[u] = 0
    BY <1>1, <1>2 DEF ExpireTogether, Forget
  <2>3. UnreadExpires'
    BY <1>2, <1>6 DEF ExpireTogether, UnreadExpires
  <2> QED
    BY <2>1, <2>2, <2>3 DEF ExpireTogether
<1>8. NotSentNotListed'
  BY <1>1, ForgetTypes DEF Tick, NotSentNotListed
<1>9. UnreadExact'
  <2> SUFFICES ASSUME NEW u \in Parties, u \notin damaged
               PROVE  unreadCount'[u] = Cardinality(Unread(u)')
    BY DEF Tick, UnreadExact
  <2>1. unreadCount[u] = Cardinality(Unread(u))
    BY DEF UnreadExact
  <2>2. CASE "dialog" \notin gone /\ "unread" \notin gone
    BY <1>1, <2>1, <2>2 DEF Forget, Unread
  <2>3. CASE "dialog" \in gone
    <3>1. Unread(u)' = {}
      BY <1>1, <2>3 DEF Forget, Unread
    <3>2. unreadCount'[u] = 0
      <4>1. CASE "unread" \in aging
        <5>1. "unread" \in gone
          BY <2>3, <4>1 DEF ExpireTogether
        <5> QED
          BY <1>1, <5>1 DEF Forget
      <4>2. CASE "unread" \notin aging
        BY <1>1, <4>2 DEF Forget, KeysHold, ExpireTogether
      <4> QED
        BY <4>1, <4>2
    <3> QED
      BY <3>1, <3>2, FS_EmptySet
  <2>4. CASE "dialog" \notin gone /\ "unread" \in gone
    <3>1. unreadCount'[u] = 0
      BY <1>1, <2>4 DEF Forget
    <3>2. "dialog" \notin aging
      BY <2>4 DEF ExpireTogether
    <3>3. Unread(u) = {}
      BY <3>2 DEF KeysHold, ExpireTogether, UnreadExpires, Unread
    <3> QED
      BY <1>6, <3>1, <3>3, FS_EmptySet
  <2> QED
    BY <2>2, <2>3, <2>4
<1> QED
  BY <1>4, <1>5, <1>7, <1>8, <1>9

LEMMA EvictStep ==
    ASSUME IInv, NEW k \in Keys, Evict(k)
    PROVE  IInv'
<1> USE DEF IInv
<1>1. Forget({k}) /\ ttl' = ttl
  BY DEF Evict
<1>2. TypeOK'
  <2>1. members' \subseteq Messages \X Marks
    BY <1>1, ForgetTypes DEF TypeOK
  <2>2. damaged' \subseteq Parties
    BY DEF Evict, TypeOK
  <2> QED
    BY <1>1, <2>1, <2>2, ForgetTypes, DialogAssumption DEF Evict, TypeOK
<1>3. KeysHold'
  BY <1>1 DEF Forget, KeysHold
<1>4. ASSUME NEW u \in Parties PROVE Unread(u)' \subseteq Unread(u)
  BY <1>1 DEF Forget, Unread
<1>5. ExpireTogether'
  BY <1>1, <1>4 DEF Forget, ExpireTogether, UnreadExpires
<1>6. NotSentNotListed'
  BY <1>1, ForgetTypes DEF Evict, NotSentNotListed
<1>7. UnreadExact'
  <2> SUFFICES ASSUME NEW u \in Parties, u \notin damaged'
               PROVE  unreadCount'[u] = Cardinality(Unread(u)')
    BY DEF UnreadExact
  <2>1. u \notin damaged
    BY DEF Evict
  <2>2. unreadCount[u] = Cardinality(Unread(u))
    BY <2>1 DEF UnreadExact
  <2>3. CASE k = "stats"
    BY <1>1, <2>2, <2>3 DEF Forget, Unread
  <2>4. CASE k # "stats"
    <3>1. Unread(u) = {}
      BY <2>4 DEF Evict
    <3>2. unreadCount[u] = 0 /\ Unread(u)' = {}
      BY <1>4, <2>2, <3>1, FS_EmptySet
    <3> QED
      BY <1>1, <3>2, FS_EmptySet DEF Forget
  <2> QED
    BY <2>3, <2>4
<1> QED
  BY <1>2, <1>3, <1>5, <1>6, <1>7

-----------------------------------------------------------------------------
LEMMA NextIInv == IInv /\ [Next]_vars => IInv'
<1> SUFFICES ASSUME IInv, [Next]_vars PROVE IInv'
  OBVIOUS
<1>1. ASSUME NEW m \in Messages, SendMessage(m) PROVE IInv'
  BY <1>1, SendMessageStep
<1>2. ASSUME NEW m \in Messages, ResendMessage(m) PROVE IInv'
  BY <1>2, ResendMessageStep
<1>3. ASSUME NEW m \in Messages, SendFails(m) PROVE IInv'
  BY <1>3, SendFailsStep
<1>4. ASSUME NEW u \in Parties, MarkAsRead(u) PROVE IInv'
  BY <1>4, MarkAsReadStep
<1>5. CASE Tick
  BY <1>5, TickStep
<1>6. ASSUME NEW k \in Keys, Evict(k) PROVE IInv'
  BY <1>6, EvictStep
<1>7. CASE UNCHANGED vars
  BY <1>7 DEF vars, IInv, TypeOK, KeysHold, ExpireTogether, UnreadExpires,
              NotSentNotListed, UnreadExact, Unread
<1> QED
  BY <1>1, <1>2, <1>3, <1>4, <1>5, <1>6, <1>7 DEF Next

(* The strengthened invariant holds in every state of every behaviour.     *)
THEOREM Inductive == Spec => []IInv
  BY InitIInv, NextIInv, PTL DEF Spec

(* Every variable has its type.                                            *)
THEOREM DialogTypeCorrect == Spec => []TypeOK
<1>1. IInv => TypeOK
  BY DEF IInv
<1> QED
  BY <1>1, Inductive, PTL

(* The hash counts the unread messages of the sorted set, for any number   *)
(* of messages, retries, marks, expiries and evictions.                    *)
THEOREM UnreadCountIsExact == Spec => []UnreadExact
<1>1. IInv => UnreadExact
  BY DEF IInv
<1> QED
  BY <1>1, Inductive, PTL

(* A dialog that has lost its TTL holds no unread message.                 *)
THEOREM UnreadMessagesExpire == Spec => []UnreadExpires
<1>1. IInv => UnreadExpires
  BY DEF IInv, ExpireTogether
<1> QED
  BY <1>1, Inductive, PTL

-----------------------------------------------------------------------------
(* The total and the list.                                                 *)

(* The statistics are never without a TTL and expire with the list, unless *)
(* the list has lost its own.                                              *)
StatsExpire ==
    /\ "stats" \notin persistent
    /\ {"dialog", "stats"} \subseteq keys \ persistent => ttl["dialog"] = ttl["stats"]

TotalInv == IInv /\ StatsExpire /\ ListedOnce /\ TotalExact

(* Setting messages to read keeps their number, unless one is listed twice. *)
LEMMA MarkKeepsTotal ==
    ASSUME TypeOK, NEW u \in Parties, MarkAsRead(u),
           \A m \in Messages : <<m, "read">> \in members => <<m, "unread">> \notin members
    PROVE  Cardinality(members') = Cardinality(members)
<1> DEFINE fresh == Unread(u)
           f == [p \in members |->
                  IF p[1] \in fresh /\ p[2] = "unread" THEN <<p[1], "read">> ELSE p]
<1>1. members' = (members \ {<<m, "unread">> : m \in fresh})
                   \union {<<m, "read">> : m \in fresh}
  BY DEF MarkAsRead
<1>2. fresh \subseteq Messages /\ \A m \in fresh : <<m, "unread">> \in members
  BY DEF Unread
<1>3. \A p \in members : \E m \in Messages, k \in Marks : p = <<m, k>>
  BY DEF TypeOK
<1> HIDE DEF fresh
<1>4. f \in [members -> members']
  BY <1>1, <1>2, <1>3
<1>5. ASSUME NEW p \in members, NEW q \in members, f[p] = f[q] PROVE p = q
  BY <1>2, <1>3, <1>5 DEF Marks
<1>6. ASSUME NEW y \in members' PROVE \E p \in members : f[p] = y
  <2>1. CASE \E m \in fresh : y = <<m, "read">>
    <3>1. PICK m \in fresh : y = <<m, "read">>
      BY <2>1
    <3>2. <<m, "unread">> \in members /\ f[<<m, "unread">>] = y
      BY <1>2, <3>1
    <3> QED
      BY <3>2
  <2>2. CASE y \in members \ {<<m, "unread">> : m \in fresh}
    <3>1. f[y] = y
      BY <1>3, <2>2
    <3> QED
      BY <2>2, <3>1
  <2> QED
    BY <1>1, <2>1, <2>2
<1> HIDE DEF f
<1>7. f \in Bijection(members, members')
  BY <1>4, <1>5, <1>6 DEF Bijection, Injection, Surjection, IsInjective
<1>8. ExistsBijection(members, members')
  BY <1>7 DEF ExistsBijection
<1> QED
  BY <1>8, MembersFinite, FS_Bijection

LEMMA TotalStep ==
    ASSUME TotalInv, IInv', [Next]_vars
    PROVE  StatsExpire' /\ ListedOnce' /\ TotalExact'
<1> USE DEF TotalInv, IInv
<1>1. ASSUME NEW m \in Messages, SendMessage(m)
      PROVE  StatsExpire' /\ ListedOnce' /\ TotalExact'
  <2>1. SendScript(m) /\ sendPc[m] = "idle" /\ UNCHANGED <<resends, evictions>>
    BY <1>1 DEF SendMessage
  <2>2. StatsExpire'
    BY <2>1 DEF SendScript, StatsExpire, Keys
  <2>3. ListedOnce'
    BY <2>1 DEF SendScript, ListedOnce, NotSentNotListed, Marks
  <2>4. TotalExact'
    BY <2>1 DEF SendScript, TotalExact
  <2> QED
    BY <2>2, <2>3, <2>4
<1>2. ASSUME NEW m \in Messages, ResendMessage(m)
      PROVE  StatsExpire' /\ ListedOnce' /\ TotalExact'
  <2>1. SendScript(m) /\ resends' = resends + 1 /\ resends \in Nat
    BY <1>2 DEF ResendMessage, TypeOK
  <2>2. StatsExpire'
    BY <2>1 DEF SendScript, StatsExpire, Keys
  <2>3. resends' # 0
    BY <2>1
  <2> QED
    BY <2>2, <2>3 DEF ListedOnce, TotalExact
<1>3. ASSUME NEW m \in Messages, SendFails(m)
      PROVE  StatsExpire' /\ ListedOnce' /\ TotalExact'
  BY <1>3 DEF SendFails, StatsExpire, ListedOnce, TotalExact
<1>4. ASSUME NEW u \in Parties, MarkAsRead(u)
      PROVE  StatsExpire' /\ ListedOnce' /\ TotalExact'
  <2>1. UNCHANGED <<total, ttl, resends, evictions>> /\ keys' = keys \union {"unread"}
    BY <1>4 DEF MarkAsRead
  <2>2. StatsExpire'
    BY <1>4 DEF MarkAsRead, StatsExpire, Unread, KeysHold
  <2>3. ListedOnce'
    BY <1>4 DEF MarkAsRead, ListedOnce, Unread
  <2>4. TotalExact'
    BY <1>4, <2>1, MarkKeepsTotal DEF TotalExact, ListedOnce
  <2> QED
    BY <2>2, <2>3, <2>4
<1>5. ASSUME Tick
      PROVE  StatsExpire' /\ ListedOnce' /\ TotalExact'
  <2> DEFINE aging == keys \ persistent
             gone  == {k \in aging : ttl[k] = 1}
  <2>1. Forget(gone) /\ UNCHANGED <<resends, evictions>>
        /\ ttl' = [k \in Keys |-> IF k \in aging THEN ttl[k] - 1 ELSE ttl[k]]
    BY <1>5 DEF Tick
  <2>2. StatsExpire'
    BY <2>1 DEF Forget, StatsExpire, Keys
  <2>3. ListedOnce'
    BY <2>1 DEF Forget, ListedOnce
  <2>4. TotalExact'
    <3> SUFFICES ASSUME evictions = 0, resends = 0, "stats" \in keys, "stats" \notin gone
                 PROVE  total' = Cardinality(members')
      BY <2>1 DEF Forget, TotalExact
    <3>1. "dialog" \notin gone
      BY DEF StatsExpire
    <3> QED
      BY <2>1, <3>1 DEF Forget, TotalExact
  <2> QED
    BY <2>2, <2>3, <2>4
<1>6. ASSUME NEW k \in Keys, Evict(k)
      PROVE  StatsExpire' /\ ListedOnce' /\ TotalExact'
  <2>1. Forget({k}) /\ evictions' = evictions + 1 /\ evictions \in Nat
        /\ UNCHANGED <<resends, ttl>>
    BY <1>6, DialogAssumption DEF Evict, TypeOK
  <2>2. evictions' # 0
    BY <2>1
  <2> QED
    BY <2>1, <2>2 DEF Forget, StatsExpire, ListedOnce, TotalExact
<1>7. CASE UNCHANGED vars
  BY <1>7 DEF vars, StatsExpire, ListedOnce, TotalExact
<1> QED
  BY <1>1, <1>2, <1>3, <1>4, <1>5, <1>6, <1>7 DEF Next

LEMMA TotalInductive == Spec => []TotalInv
<1>1. Init => StatsExpire /\ ListedOnce /\ TotalExact
  BY DEF Init, StatsExpire, ListedOnce, TotalExact
<1>2. TotalInv /\ IInv' /\ [Next]_vars => TotalInv'
  BY TotalStep DEF TotalInv
<1> QED
  BY <1>1, <1>2, InitIInv, Inductive, PTL DEF Spec, TotalInv

(* The total is the length of the list while the statistics live, for any  *)
(* number of sends and marks, as long as nothing is repeated or evicted.   *)
THEOREM TotalIsExact == Spec => []TotalExact
  BY TotalInductive, PTL DEF TotalInv

(* No message is listed both read and unread unless one was sent twice.    *)
THEOREM MessagesAreListedOnce == Spec => []ListedOnce
  BY TotalInductive, PTL DEF TotalInv

-----------------------------------------------------------------------------
(* The three keys behave like one inbox.                                   *)
Waiting == {m \in Messages : <<m, "unread">> \in members}
Phases  == [m \in Messages |-> PhaseOf(m)]

LEMMA InboxInit == Init => Inbox!Init
<1> SUFFICES ASSUME Init PROVE Inbox!Init
  OBVIOUS
<1>1. Phases = [m \in Messages |-> "new"]
  BY DEF Init, Phases, PhaseOf
<1>2. Waiting = {}
  BY DEF Init, Waiting
<1> QED
  BY <1>1, <1>2 DEF Init, Inbox!Init, Inbox!Empty, Phases, Waiting

(* The phase of a message moves with its call.                             *)
LEMMA PhaseMoves ==
    ASSUME TypeOK, NEW m \in Messages, NEW pc \in SendStates,
           sendPc' = [sendPc EXCEPT ![m] = pc]
    PROVE  Phases' = [Phases EXCEPT ![m] = IF pc = "idle" THEN "new"
                                           ELSE IF pc = "retry" THEN "sent" ELSE "over"]
<1>1. ASSUME NEW n \in Messages
      PROVE  sendPc'[n] = IF n = m THEN pc ELSE sendPc[n]
  BY DEF TypeOK
<1> QED
  BY <1>1 DEF Phases, PhaseOf

(* sendMessageScript puts a message and counts it.                         *)
LEMMA ScriptPuts ==
    ASSUME TypeOK, NEW m \in Messages, SendScript(m)
    PROVE  Inbox!Put(m)
<1>1. Waiting' = Waiting \union {m}
  BY DEF SendScript, Waiting
<1> QED
  BY <1>1 DEF SendScript, Inbox!Put, Waiting

LEMMA SendMessageDelivers ==
    ASSUME IInv, NEW m \in Messages, SendMessage(m)
    PROVE  Inbox!Deliver(m)
<1> USE DEF IInv
<1>1. PICK pc \in {"done", "retry"} : sendPc' = [sendPc EXCEPT ![m] = pc]
  BY DEF SendMessage
<1>2. Phases[m] = "new" /\ m \notin Waiting
  BY DEF SendMessage, Phases, PhaseOf, Waiting, NotSentNotListed, Marks
<1>3. \E next \in {"sent", "over"} : Phases' = [Phases EXCEPT ![m] = next]
  BY <1>1, PhaseMoves DEF SendStates
<1>4. Inbox!Put(m) /\ damaged' = damaged
  BY ScriptPuts DEF SendMessage
<1> QED
  BY <1>2, <1>3, <1>4 DEF Inbox!Deliver, Phases, Waiting

LEMMA ResendMessageDelivers ==
    ASSUME IInv, NEW m \in Messages, ResendMessage(m)
    PROVE  Inbox!DeliverAgain(m)
<1> USE DEF IInv
<1>1. Phases[m] = "sent"
  BY DEF ResendMessage, Phases, PhaseOf
<1>2. Phases' = [Phases EXCEPT ![m] = "over"]
  BY PhaseMoves DEF ResendMessage, SendStates
<1>3. Inbox!Put(m)
  BY ScriptPuts DEF ResendMessage
<1>4. damaged' = IF m \in Waiting THEN damaged \union {To[m]} ELSE damaged
  BY DEF ResendMessage, Waiting
<1> QED
  BY <1>1, <1>2, <1>3, <1>4 DEF Inbox!DeliverAgain, Phases, Waiting

LEMMA SendFailsGivesUp ==
    ASSUME IInv, NEW m \in Messages, SendFails(m)
    PROVE  Inbox!GiveUp(m)
<1> USE DEF IInv
<1>1. Phases[m] \in {"new", "sent"}
  BY DEF SendFails, Phases, PhaseOf
<1>2. Phases' = [Phases EXCEPT ![m] = "over"]
  BY PhaseMoves DEF SendFails, SendStates
<1>3. UNCHANGED <<members, unreadCount, damaged>> /\ Waiting' = Waiting
  BY DEF SendFails, Waiting
<1> QED
  BY <1>1, <1>2, <1>3 DEF Inbox!GiveUp, Phases, Waiting

LEMMA MarkAsReadReads ==
    ASSUME IInv, NEW u \in Parties, MarkAsRead(u)
    PROVE  Inbox!Read(u)
<1>1. ASSUME NEW m \in Messages
      PROVE  m \in Waiting' <=> m \in Waiting /\ To[m] # u
  <2>1. m \in Unread(u)' <=> FALSE
    BY MarkAsReadUnread
  <2>2. To[m] # u => (<<m, "unread">> \in members' <=> <<m, "unread">> \in members)
    BY DEF MarkAsRead, Unread
  <2> QED
    BY <2>1, <2>2 DEF Waiting, Unread
<1>2. Waiting' = {m \in Waiting : To[m] # u}
  BY <1>1 DEF Waiting
<1>3. Phases' = Phases
  BY DEF MarkAsRead, Phases, PhaseOf
<1> QED
  BY <1>2, <1>3 DEF MarkAsRead, Inbox!Read, Phases, Waiting

(* Whichever of the two keys runs out, nothing is left in the other: that  *)
(* is what ExpireTogether and KeysHold say.                                *)
LEMMA TickLapses ==
    ASSUME IInv, Tick
    PROVE  Inbox!Lapse \/ UNCHANGED Inbox!inboxVars
<1> USE DEF IInv
<1> DEFINE aging == keys \ persistent
           gone  == {k \in aging : ttl[k] = 1}
<1>1. Forget(gone) /\ damaged' = damaged
  BY DEF Tick
<1>2. Phases' = Phases
  BY DEF Tick, Phases, PhaseOf
<1>3. unreadCount \in [Parties -> Nat]
  BY DEF TypeOK
<1>4. CASE "dialog" \notin gone /\ "unread" \notin gone
  <2>1. members' = members /\ unreadCount' = unreadCount
    BY <1>1, <1>4 DEF Forget
  <2>2. Waiting' = Waiting
    BY <2>1 DEF Waiting
  <2> QED
    BY <1>1, <1>2, <2>1, <2>2 DEF Inbox!inboxVars, Phases, Waiting
<1>5. CASE "dialog" \in gone
  <2>1. Waiting' = {}
    BY <1>1, <1>5 DEF Forget, Waiting
  <2>2. \A u \in Parties : unreadCount'[u] = 0
    <3>1. CASE "unread" \in gone
      BY <1>1, <3>1 DEF Forget
    <3>2. CASE "unread" \notin gone
      <4>1. "unread" \notin aging
        BY <1>5, <3>2 DEF ExpireTogether
      <4> QED
        BY <1>1, <3>2, <4>1 DEF Forget, KeysHold, ExpireTogether
    <3> QED
      BY <3>1, <3>2
  <2>3. unreadCount' = Inbox!Empty
    BY <1>1, <1>3, <2>2 DEF Forget, Inbox!Empty
  <2> QED
    BY <1>1, <1>2, <2>1, <2>3 DEF Inbox!Lapse, Phases, Waiting
<1>6. CASE "dialog" \notin gone /\ "unread" \in gone
  <2>1. "dialog" \notin aging
    BY <1>6 DEF ExpireTogether
  <2>2. \A m \in Messages : <<m, "unread">> \notin members
    BY <2>1, DialogAssumption DEF KeysHold, ExpireTogether, UnreadExpires, Unread
  <2>3. Waiting' = {} /\ unreadCount' = Inbox!Empty
    BY <1>1, <1>6, <2>2 DEF Forget, Waiting, Inbox!Empty
  <2> QED
    BY <1>1, <1>2, <2>3 DEF Inbox!Lapse, Phases, Waiting
<1> QED
  BY <1>4, <1>5, <1>6

LEMMA EvictLoses ==
    ASSUME IInv, NEW k \in Keys, Evict(k)
    PROVE  Inbox!LoseHalf \/ UNCHANGED Inbox!inboxVars
<1>1. Forget({k})
  BY DEF Evict
<1>2. Phases' = Phases
  BY DEF Evict, Phases, PhaseOf
<1>3. CASE k = "stats"
  <2>1. UNCHANGED <<members, unreadCount, damaged>>
    BY <1>1, <1>3 DEF Forget, Evict
  <2>2. Waiting' = Waiting
    BY <2>1 DEF Waiting
  <2> QED
    BY <1>2, <2>1, <2>2 DEF Inbox!inboxVars, Phases, Waiting
<1>4. CASE k # "stats"
  <2>1. {u \in Parties : Unread(u) # {}} = {u \in Parties : \E m \in Waiting : To[m] = u}
    BY DEF Unread, Waiting
  <2>2. damaged' = damaged \union {u \in Parties : \E m \in Waiting : To[m] = u}
    BY <1>4, <2>1 DEF Evict
  <2>3. CASE k = "dialog"
    <3>1. Waiting' = {} /\ unreadCount' = unreadCount
      BY <1>1, <2>3 DEF Forget, Waiting
    <3> QED
      BY <1>2, <2>2, <3>1 DEF Inbox!LoseHalf, Phases, Waiting
  <2>4. CASE k = "unread"
    <3>1. Waiting' = Waiting /\ unreadCount' = Inbox!Empty
      BY <1>1, <2>4 DEF Forget, Waiting, Inbox!Empty
    <3> QED
      BY <1>2, <2>2, <3>1 DEF Inbox!LoseHalf, Phases, Waiting
  <2> QED
    BY <1>4, <2>3, <2>4 DEF Keys
<1> QED
  BY <1>3, <1>4

LEMMA InboxStep == IInv /\ [Next]_vars => [Inbox!Next]_(Inbox!inboxVars)
<1> SUFFICES ASSUME IInv, [Next]_vars PROVE [Inbox!Next]_(Inbox!inboxVars)
  OBVIOUS
<1>1. ASSUME NEW m \in Messages, SendMessage(m) PROVE Inbox!Next
  BY <1>1, SendMessageDelivers DEF Inbox!Next
<1>2. ASSUME NEW m \in Messages, ResendMessage(m) PROVE Inbox!Next
  BY <1>2, ResendMessageDelivers DEF Inbox!Next
<1>3. ASSUME NEW m \in Messages, SendFails(m) PROVE Inbox!Next
  BY <1>3, SendFailsGivesUp DEF Inbox!Next
<1>4. ASSUME NEW u \in Parties, MarkAsRead(u) PROVE Inbox!Next
  BY <1>4, MarkAsReadReads DEF Inbox!Next
<1>5. CASE Tick
  BY <1>5, TickLapses DEF Inbox!Next
<1>6. ASSUME NEW k \in Keys, Evict(k) PROVE [Inbox!Next]_(Inbox!inboxVars)
  BY <1>6, EvictLoses DEF Inbox!Next
<1>7. CASE UNCHANGED vars
  <2>1. Waiting' = Waiting /\ Phases' = Phases
    BY <1>7 DEF vars, Waiting, Phases, PhaseOf
  <2> QED
    BY <1>7, <2>1 DEF vars, Inbox!inboxVars, Waiting, Phases
<1> QED
  BY <1>1, <1>2, <1>3, <1>4, <1>5, <1>6, <1>7 DEF Next

(* For any number of messages, any lifetime and any bounds, the service    *)
(* implements the inbox: whatever expires, messages and badge go in one    *)
(* step; only a repeated send and an eviction part them.                   *)
THEOREM DialogImplementsInbox == Spec => ImplementsInbox
  BY InboxInit, InboxStep, Inductive, PTL DEF Spec, ImplementsInbox, Inbox!Spec
=============================================================================

-------------------------- MODULE UnreadBadgeProofs --------------------------
(***************************************************************************)
(* The sagas of CounterSaga implement UnreadBadge, for any number of       *)
(* users, messages, marks, reconcilers and failures.  The proof rests on   *)
(* the inductive invariant of CounterSagaProofs: as long as a counter is   *)
(* exact before and after a step, the step moves it by the messages that   *)
(* begin or cease to be counted; otherwise its user is in doubt.           *)
(***************************************************************************)
EXTENDS CounterSagaProofs

LEMMA SameCardinality == \A S : Badge!Cardinality(S) = Cardinality(S)
  BY DEF Badge!Cardinality, Cardinality

(* The messages that wait are those that are counted.                      *)
LEMMA WaitingIsCounted ==
    ASSUME IInv, NEW u \in Users
    PROVE  /\ Badge!Waiting(u) = Counted(u)
           /\ \A s \in Counted(u) : s \in Sends /\ To[s] = u /\ sendPc[s] # "idle"
<1>1. ASSUME NEW s \in Counted(u) PROVE s \in Sends /\ To[s] = u /\ sendPc[s] # "idle"
  BY DEF Counted, InFlight, BeingMarked, IInv, MarkedOnce, RowsWereSaved, TypeOK
<1>2. \A s \in Sends : Phase(s) = "waiting" <=> (sendPc[s] # "idle" /\ s \in Counted(To[s]))
  BY DEF Phase
<1>3. Badge!Waiting(u) = {s \in Sends : To[s] = u /\ Phase(s) = "waiting"}
  BY DEF Badge!Waiting
<1> QED
  BY <1>1, <1>2, <1>3

(* The counter of u follows the messages counted, or u is in doubt.        *)
LEMMA CounterFollows ==
    ASSUME IInv, IInv', NEW u \in Users, NEW delta \in Int,
           \A v \in Users \ {u} : counter'[v] = counter[v],
           tainted' \in {tainted, tainted \union {u}},
           Cardinality(Counted(u)') = Cardinality(Counted(u)) + delta
    PROVE  Badge!Adjust(u, delta)
<1>1. counter' \in [Users -> Nat] /\ counter \in [Users -> Nat]
  BY DEF IInv, TypeOK
<1>2. CASE u \in tainted'
  <2>1. tainted' = tainted \union {u}
    BY <1>2
  <2> QED
    BY <1>1, <2>1 DEF Badge!Adjust, Badge!Doubt
<1>3. CASE u \notin tainted'
  <2>1. tainted' = tainted /\ u \notin tainted
    BY <1>3
  <2>2. /\ counter[u] = Cardinality(Counted(u))
        /\ counter'[u] = Cardinality(Counted(u)')
    BY <1>3, <2>1 DEF IInv, CounterExact
  <2>3. counter'[u] = counter[u] + delta
    BY <2>2
  <2>4. counter' = [counter EXCEPT ![u] = @ + delta]
    BY <1>1, <2>3
  <2> QED
    BY <2>1, <2>4 DEF Badge!Adjust
<1> QED
  BY <1>2, <1>3

(* A step after which fewer messages are counted settles the others.       *)
LEMMA FewerSettles ==
    ASSUME IInv, IInv', NEW u \in Users,
           \A v \in Users \ {u} : counter'[v] = counter[v] /\ Counted(v)' = Counted(v),
           Counted(u)' \subseteq Counted(u),
           tainted' \in {tainted, tainted \union {u}},
           \A s \in Sends : sendPc'[s] = "idle" <=> sendPc[s] = "idle"
    PROVE  Badge!Next
<1> DEFINE S == Counted(u) \ Counted(u)'
<1>1. Counted(u) \in SUBSET Sends /\ Counted(u)' \in SUBSET Sends
  BY FiniteCounts DEF Counted
<1>2. S \in SUBSET Sends /\ S \subseteq Badge!Waiting(u)
  BY <1>1, WaitingIsCounted
<1>3. Cardinality(Counted(u)') = Cardinality(Counted(u)) + (-Cardinality(S))
  <2>1. IsFiniteSet(Counted(u)) /\ IsFiniteSet(Counted(u)')
    BY <1>1, FiniteCounts
  <2>2. Counted(u) \intersect Counted(u)' = Counted(u)'
    OBVIOUS
  <2>3. Cardinality(S) = Cardinality(Counted(u)) - Cardinality(Counted(u)')
    BY <2>1, <2>2, FS_Difference
  <2>4. Cardinality(Counted(u)) \in Nat /\ Cardinality(Counted(u)') \in Nat
    BY <1>1, FiniteCounts
  <2> HIDE DEF S
  <2> QED
    BY <2>3, <2>4
<1>4. -Cardinality(S) \in Int
  BY <1>2, FiniteCounts
<1>5. Badge!Adjust(u, -Cardinality(S))
  <2> HIDE DEF S
  <2> QED
    BY <1>3, <1>4, CounterFollows
<1>6. ASSUME NEW s \in Sends
      PROVE  Phase(s)' = IF s \in S THEN "settled" ELSE Phase(s)
  <2>1. To[s] \in Users
    BY ConstantsAssumption
  <2>2. \A v \in Users : s \in Counted(v) => To[s] = v /\ sendPc[s] # "idle"
    BY WaitingIsCounted
  <2>3. Counted(To[s])' = IF To[s] = u THEN Counted(u)' ELSE Counted(To[s])
    BY <2>1
  <2> QED
    BY <2>1, <2>2, <2>3 DEF Phase
<1>7. [s \in Sends |-> Phase(s)]'
        = [s \in Sends |-> IF s \in S THEN "settled" ELSE Phase(s)]
  BY <1>6
<1>8. Badge!Settle(u, S)
  <2> HIDE DEF S
  <2> QED
    BY <1>2, <1>5, <1>7, SameCardinality DEF Badge!Settle
<1> QED
  BY <1>2, <1>8 DEF Badge!Next

(* Counters and messages as they were: a stutter, but for the doubt.       *)
LEMMA NothingMoves ==
    ASSUME IInv, IInv',
           UNCHANGED <<counter, unread, sendPc, markPc, marked, tainted>>
    PROVE  Badge!Next
<1>1. PICK u \in Users : TRUE
  BY AnyUserType
<1>2. \A v \in Users : Counted(v)' = Counted(v)
  BY DEF Counted, InFlight, BeingMarked
<1> QED
  BY <1>2, FewerSettles

(* A counter that is made exact is repaired.                               *)
LEMMA ExactRepairs ==
    ASSUME IInv, NEW u \in Users,
           counter' = [counter EXCEPT ![u] = Cardinality(Counted(u))],
           tainted' = tainted \ {u},
           UNCHANGED <<unread, sendPc, markPc, marked>>
    PROVE  Badge!Next
<1>1. \A v : Counted(v)' = Counted(v)
  BY DEF Counted, InFlight, BeingMarked
<1>2. [s \in Sends |-> Phase(s)]' = [s \in Sends |-> Phase(s)]
  BY <1>1 DEF Phase
<1>3. Badge!Repair(u)
  BY <1>2, WaitingIsCounted, SameCardinality DEF Badge!Repair
<1> QED
  BY <1>3 DEF Badge!Next

-----------------------------------------------------------------------------
(* The first step of a send counts its message, or turns it away.          *)
LEMMA IncrementArrives ==
    ASSUME IInv, IInv', NEW s \in Sends, IncrementUnreadCounter(s)
    PROVE  Badge!Next
<1> DEFINE u == To[s]
<1> USE DEF IInv
<1>1. PICK o \in Outcomes :
        /\ counter' = [counter EXCEPT ![u] = Apply(@, 1, o)]
        /\ sendPc' = [sendPc EXCEPT ![s] = IF Failed(o) THEN "failed" ELSE "save"]
        /\ TaintIf(o \in {"lost", "resent"}, u)
  BY DEF IncrementUnreadCounter
<1>2. sendPc[s] = "idle" /\ UNCHANGED <<rows, unread, markPc, marked>>
  BY DEF IncrementUnreadCounter, dbVars, markVars
<1>3. u \in Users
  BY ConstantsAssumption
<1>4. /\ \A v \in Users \ {u} : counter'[v] = counter[v]
      /\ tainted' \in {tainted, tainted \union {u}}
  BY <1>1, <1>3 DEF TaintIf, TypeOK
<1>5. Counted(u) \in SUBSET Sends /\ s \notin Counted(u)
  BY <1>2, <1>3, WaitingIsCounted, FiniteCounts
<1>6. /\ \A x \in Sends \ {s} : sendPc'[x] = sendPc[x]
      /\ sendPc'[s] = IF Failed(o) THEN "failed" ELSE "save"
  BY <1>1 DEF TypeOK
<1>7. ASSUME NEW v \in Users
      PROVE  Counted(v)' = IF v = u /\ ~Failed(o) THEN Counted(v) \union {s} ELSE Counted(v)
  <2>1. s \notin unread /\ \A m \in Marks : s \notin marked[m]
    BY <1>2 DEF RowsWereSaved, MarkedOnce, TypeOK
  <2> QED
    BY <1>2, <1>6, <2>1 DEF Counted, InFlight, BeingMarked
<1>8. ASSUME NEW x \in Sends, x # s PROVE Phase(x)' = Phase(x)
  <2>1. To[x] \in Users
    BY ConstantsAssumption
  <2>2. Counted(To[x])' \in {Counted(To[x]), Counted(To[x]) \union {s}}
    BY <1>7, <2>1
  <2> QED
    BY <1>6, <1>8, <2>2 DEF Phase
<1>9. Phase(s) = "new" /\ Phase(s)' = IF Failed(o) THEN "settled" ELSE "waiting"
  <2>1. Counted(u)' = IF Failed(o) THEN Counted(u) ELSE Counted(u) \union {s}
    BY <1>3, <1>7
  <2> QED
    BY <1>2, <1>5, <1>6, <2>1 DEF Phase
<1>10. CASE Failed(o)
  <2>1. Cardinality(Counted(u)') = Cardinality(Counted(u)) + 0
    BY <1>3, <1>5, <1>7, <1>10, FiniteCounts
  <2>2. Badge!Adjust(u, 0)
    BY <1>3, <1>4, <2>1, CounterFollows
  <2>3. [x \in Sends |-> Phase(x)]'
          = [[x \in Sends |-> Phase(x)] EXCEPT ![s] = "settled"]
    BY <1>8, <1>9, <1>10
  <2>4. Badge!Decline(s)
    BY <1>9, <2>2, <2>3 DEF Badge!Decline
  <2> QED
    BY <2>4 DEF Badge!Next
<1>11. CASE ~Failed(o)
  <2>1. Counted(u)' = Counted(u) \union {s}
    BY <1>3, <1>7, <1>11
  <2>2. Cardinality(Counted(u)') = Cardinality(Counted(u)) + 1
    BY <1>5, <2>1, FiniteCounts, FS_AddElement
  <2>3. Badge!Adjust(u, 1)
    BY <1>3, <1>4, <2>2, CounterFollows
  <2>4. [x \in Sends |-> Phase(x)]'
          = [[x \in Sends |-> Phase(x)] EXCEPT ![s] = "waiting"]
    BY <1>8, <1>9, <1>11
  <2>5. Badge!Arrive(s)
    BY <1>9, <2>3, <2>4 DEF Badge!Arrive
  <2> QED
    BY <2>5 DEF Badge!Next
<1> QED
  BY <1>10, <1>11

(* The other steps of a send end, at most, the count of its message.       *)
LEMMA SendSettles ==
    ASSUME IInv, IInv', NEW s \in Sends, Send(s), ~IncrementUnreadCounter(s)
    PROVE  Badge!Next
<1> DEFINE u == To[s]
<1> USE DEF IInv
<1>1. u \in Users
  BY ConstantsAssumption
<1>2. PICK pc \in SendStates \ {"idle", "save"} : sendPc' = [sendPc EXCEPT ![s] = pc]
  BY DEF Send, SaveMessagePanics, SaveMessageToDb, CompensateIncrement,
         InsertIntoShard, CrashSend, SendStates
<1>3. /\ sendPc[s] # "idle" /\ tainted' \in {tainted, tainted \union {u}}
      /\ UNCHANGED <<markPc, marked>>
  BY DEF Send, SaveMessagePanics, SaveMessageToDb, CompensateIncrement,
         InsertIntoShard, CrashSend, TaintIf, markVars
<1>4. \A v \in Users \ {u} : counter'[v] = counter[v]
  BY DEF Send, SaveMessagePanics, SaveMessageToDb, CompensateIncrement,
         InsertIntoShard, CrashSend, TypeOK
<1>5. \/ UNCHANGED unread
      \/ sendPc[s] = "save" /\ unread' = unread \union {s}
  BY DEF Send, SaveMessagePanics, SaveMessageToDb, CompensateIncrement,
         InsertIntoShard, CrashSend, dbVars
<1>6. pc = "compensate" => sendPc[s] = "save"
  BY <1>2 DEF Send, SaveMessagePanics, SaveMessageToDb, CompensateIncrement,
         InsertIntoShard, CrashSend, TypeOK
<1>7. \A v \in Users \ {u} : Counted(v)' = Counted(v)
  BY <1>2, <1>3, <1>5 DEF Counted, InFlight, BeingMarked, TypeOK
<1>8. Counted(u)' \subseteq Counted(u)
  BY <1>2, <1>3, <1>5, <1>6 DEF Counted, InFlight, BeingMarked, TypeOK
<1>9. \A x \in Sends : sendPc'[x] = "idle" <=> sendPc[x] = "idle"
  BY <1>2, <1>3 DEF TypeOK
<1> QED
  BY <1>1, <1>3, <1>4, <1>7, <1>8, <1>9, FewerSettles

(* A mark ends the count of the messages it has set to read.               *)
LEMMA MarkSettles ==
    ASSUME IInv, IInv', NEW m \in Marks, Mark(m)
    PROVE  Badge!Next
<1> DEFINE u == Reader[m]
<1> USE DEF IInv
<1>1. u \in Users
  BY ConstantsAssumption
<1>2. PICK pc \in MarkStates : markPc' = [markPc EXCEPT ![m] = pc]
  BY DEF Mark, CountUnreadMessages, MarkMessagesAsRead, UpdateCounter,
         SkipCounterUpdate, CrashMark, EndMark, MarkStates
<1>3. tainted' \in {tainted, tainted \union {u}} /\ UNCHANGED sendPc
  BY DEF Mark, CountUnreadMessages, MarkMessagesAsRead, UpdateCounter,
         SkipCounterUpdate, CrashMark, TaintIf, sendVars
<1>4. \A v \in Users \ {u} : counter'[v] = counter[v]
  BY DEF Mark, CountUnreadMessages, MarkMessagesAsRead, UpdateCounter,
         SkipCounterUpdate, CrashMark, TypeOK
<1>5. \/ UNCHANGED <<unread, marked>> /\ pc # "update"
      \/ /\ markPc[m] = "mark" /\ UNCHANGED marked /\ pc # "update"
         /\ unread' \in {unread, unread \ InDialog(m, unread)}
      \/ /\ markPc[m] = "mark" /\ marked' = [marked EXCEPT ![m] = InDialog(m, unread)]
         /\ unread' = unread \ InDialog(m, unread)
  <2>1. CASE MarkMessagesAsRead(m)
    BY <1>2, <2>1 DEF MarkMessagesAsRead, EndMark, TypeOK
  <2>2. CASE CountUnreadMessages(m) \/ SkipCounterUpdate(m) \/ CrashMark(m)
    BY <1>2, <2>2 DEF CountUnreadMessages, SkipCounterUpdate, CrashMark, EndMark,
       dbVars, TypeOK
  <2>3. CASE UpdateCounter(m)
    BY <1>2, <2>3 DEF UpdateCounter, EndMark, dbVars, TypeOK
  <2> QED
    BY <2>1, <2>2, <2>3 DEF Mark
<1>6. ASSUME NEW x \in Sends, x \in InDialog(m, unread) \/ x \in marked[m]
      PROVE  To[x] = u
  BY <1>6 DEF InDialog, MarkedOnce
<1>7. marked[m] \subseteq Sends /\ InDialog(m, unread) \subseteq unread
  BY DEF TypeOK, InDialog
<1>8. ASSUME NEW v \in Users \ {u} PROVE Counted(v)' = Counted(v)
  <2>1. ASSUME NEW x \in Sends, To[x] = v
        PROVE  /\ x \in unread' <=> x \in unread
               /\ x \notin marked[m] /\ x \notin marked'[m]
    BY <1>5, <1>6, <2>1 DEF TypeOK
  <2>2. \A n \in Marks \ {m} : markPc'[n] = markPc[n] /\ marked'[n] = marked[n]
    BY <1>2, <1>5 DEF TypeOK
  <2>3. ASSUME NEW x \in Sends, To[x] = v PROVE BeingMarked(x)' <=> BeingMarked(x)
    BY <2>1, <2>2, <2>3 DEF BeingMarked
  <2> QED
    BY <1>3, <2>1, <2>3 DEF Counted, InFlight
<1>9. Counted(u)' \subseteq Counted(u)
  BY <1>2, <1>3, <1>5, <1>7 DEF Counted, InFlight, BeingMarked, TypeOK
<1> QED
  BY <1>1, <1>3, <1>4, <1>8, <1>9, FewerSettles

(* A reconciliation repairs a counter, throws it into doubt or leaves it.  *)
LEMMA ReconcileRepairs ==
    ASSUME IInv, IInv', NEW r \in Reconcilers, Reconcile(r)
    PROVE  Badge!Next
<1> DEFINE u == recUser[r]
<1> USE DEF IInv
<1>1. u \in Users /\ UNCHANGED <<unread, sendPc, markPc, marked>>
  BY DEF Reconcile, CountActual, CompareCounter, SetCounterValue, dbVars, sendVars,
         markVars, TypeOK
<1>2. \A v \in Users : Counted(v)' = Counted(v)
  BY <1>1 DEF Counted, InFlight, BeingMarked
<1>3. CASE CountActual(r)
  BY <1>1, <1>3, NothingMoves DEF CountActual
<1>4. CASE CompareCounter(r)
  <2>1. CASE tainted' = tainted
    BY <1>1, <1>4, <2>1, NothingMoves DEF CompareCounter
  <2>2. CASE tainted' # tainted
    <3>1. /\ recPc[r] = "get" /\ r \in clean /\ tainted' = tainted \ {u}
          /\ counter' = counter /\ counter[u] = actualCount[r]
      BY <1>4, <2>2 DEF CompareCounter
    <3>2. counter' = [counter EXCEPT ![u] = Cardinality(Counted(u))]
      BY <1>1, <3>1, CleanCountIsCounted DEF TypeOK
    <3> QED
      BY <1>1, <3>1, <3>2, ExactRepairs
  <2> QED
    BY <2>1, <2>2
<1>5. CASE SetCounterValue(r)
  <2>1. CASE counter' = counter /\ tainted' = tainted
    BY <1>1, <2>1, NothingMoves
  <2>2. CASE /\ r \in clean /\ tainted' = tainted \ {u}
             /\ counter' = [counter EXCEPT ![u] = actualCount[r]]
    <3>1. counter' = [counter EXCEPT ![u] = Cardinality(Counted(u))]
      BY <1>5, <2>2, CleanCountIsCounted DEF SetCounterValue
    <3> QED
      BY <1>1, <2>2, <3>1, ExactRepairs
  <2>3. CASE /\ tainted' = tainted \union {u}
             /\ counter' = [counter EXCEPT ![u] = actualCount[r]]
    <3>1. \A v \in Users \ {u} : counter'[v] = counter[v]
      BY <2>3 DEF TypeOK
    <3> QED
      BY <1>1, <1>2, <2>3, <3>1, FewerSettles
  <2> QED
    BY <1>5, <2>1, <2>2, <2>3 DEF SetCounterValue
<1> QED
  BY <1>3, <1>4, <1>5 DEF Reconcile

(* What happens to a counter outside of the sagas.                         *)
LEMMA OverwriteDoubts ==
    ASSUME IInv, IInv', NEW u \in Users,
           ClearCounter(u) \/ \E delta \in ManualDeltas : ManualIncrement(u, delta)
    PROVE  Badge!Next
<1>1. /\ \A v \in Users \ {u} : counter'[v] = counter[v]
      /\ tainted' \in {tainted, tainted \union {u}}
      /\ UNCHANGED <<unread, sendPc, markPc, marked>>
  BY DEF ClearCounter, ManualIncrement, TaintIf, dbVars, sendVars, markVars, IInv, TypeOK
<1>2. \A v \in Users : Counted(v)' = Counted(v)
  BY <1>1 DEF Counted, InFlight, BeingMarked
<1> QED
  BY <1>1, <1>2, FewerSettles

LEMMA StepFollowsBadge ==
    ASSUME IInv, IInv', [Next]_vars
    PROVE  Badge!Next
<1>1. ASSUME NEW s \in Sends, Send(s) PROVE Badge!Next
  BY <1>1, IncrementArrives, SendSettles
<1>2. ASSUME NEW m \in Marks, Mark(m) PROVE Badge!Next
  BY <1>2, MarkSettles
<1>3. ASSUME NEW r \in Reconcilers,
             FullReconciliation(r) \/ ConsistencyCheck(r) \/ ServeReconcile(r)
      PROVE  Badge!Next
  <2>1. CASE Reconcile(r)
    BY <2>1, ReconcileRepairs
  <2>2. CASE ~Reconcile(r)
    <3>1. UNCHANGED <<counter, unread, sendPc, markPc, marked, tainted>>
      BY <1>3, <2>2 DEF FullReconciliation, ConsistencyCheck, ServeReconcile,
         ListActiveUsers, ReconcileNextUser, GroupRecentUnread, CheckNextUser,
         RequestReconcile, dbVars, sendVars, markVars
    <3> QED
      BY <3>1, NothingMoves
  <2> QED
    BY <2>1, <2>2
<1>4. ASSUME NEW u \in Users,
             ClearCounter(u) \/ \E delta \in ManualDeltas : ManualIncrement(u, delta)
      PROVE  Badge!Next
  BY <1>4, OverwriteDoubts
<1>5. ASSUME (\E p \in Replicas : Replicate(p)) \/ UNCHANGED vars PROVE Badge!Next
  <2>1. UNCHANGED <<counter, unread, sendPc, markPc, marked, tainted>>
    BY <1>5 DEF Replicate, vars, dbVars, sendVars, markVars
  <2> QED
    BY <2>1, NothingMoves
<1> QED
  BY <1>1, <1>2, <1>3, <1>4, <1>5 DEF Next, Reconcilers

(* The sagas, marks and reconciliations implement UnreadBadge: messages    *)
(* are counted and settled once and in order, and the counter moves with   *)
(* them until its user falls into doubt, which only an exact               *)
(* reconciliation ends.                                                    *)
THEOREM SagasImplementBadge == Spec => ImplementsBadge
<1>1. Init => Badge!Init
  BY DEF Init, Badge!Init, Phase
<1>2. IInv /\ IInv' /\ [Next]_vars => [Badge!Next]_(Badge!badgeVars)
  BY StepFollowsBadge
<1> QED
  BY <1>1, <1>2, Inductive, PTL DEF Spec, ImplementsBadge, Badge!Spec
=============================================================================

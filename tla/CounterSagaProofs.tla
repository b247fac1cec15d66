-------------------------- MODULE CounterSagaProofs --------------------------
(***************************************************************************)
(* Theorems about CounterSaga, for any number of users, messages, marks,   *)
(* reconcilers and failures.                                               *)
(***************************************************************************)
EXTENDS CounterSaga, FiniteSetTheorems, TLAPS

(* A row was written by its own saga, after the increment.                 *)
RowsWereSaved == \A s \in rows : sendPc[s] \notin {"idle", "save"}

(* A message is set to read by one mark, of its recipient.                 *)
MarkedOnce ==
    \A m \in Marks :
        /\ marked[m] \subseteq rows \ unread
        /\ \A s \in marked[m] : To[s] = Reader[m]
        /\ markPc[m] \in {"idle", "mark"} => marked[m] = {}
        /\ \A n \in Marks \ {m} : marked[m] \intersect marked[n] = {}

(* A saga that compensates an insert which was committed after all is      *)
(* known to break the counter.                                             *)
LostInsertTaints ==
    \A s \in rows : sendPc[s] = "compensate" => To[s] \in tainted

(* The count of an undisturbed reconciler is the present one.              *)
CleanCounts ==
    \A r \in clean :
        recPc[r] \in {"get", "set"} =>
            /\ Quiet(recUser[r])
            /\ actualCount[r] = Cardinality(SentTo(recUser[r], unread))

IInv ==
    /\ TypeOK
    /\ RowsWereSaved
    /\ MarkedOnce
    /\ LostInsertTaints
    /\ CleanCounts
    /\ CounterExact

(* What BadgeBounded needs on top: no reconciler has counted more.         *)
CountsBounded ==
    \A r \in Reconcilers :
        recPc[r] \in {"get", "set"} =>
            actualCount[r] <= Cardinality(Started(recUser[r]))

-----------------------------------------------------------------------------
(* Every outcome of a call leaves a natural number in the counter.         *)
LEMMA ApplyType ==
    ASSUME NEW c \in Nat, NEW d \in Int, NEW o \in Outcomes
    PROVE  Apply(c, d, o) \in Nat
  BY DEF Apply, IncrementCount, Outcomes

(* One execution of an increment adds one, two executions at most two.     *)
LEMMA ApplyIncrement ==
    ASSUME NEW c \in Nat, NEW o \in Outcomes
    PROVE  /\ o = "ok" => Apply(c, 1, o) = c + 1
           /\ o = "refused" => Apply(c, 1, o) = c
           /\ o = "resent" => Apply(c, 1, o) = c + 2
           /\ Apply(c, 1, o) <= c + 2
           /\ o # "resent" => Apply(c, 1, o) <= c + 1
  BY DEF Apply, IncrementCount, Outcomes

(* A decrement never adds, and is exact when it runs once and is covered.  *)
LEMMA ApplyDecrement ==
    ASSUME NEW c \in Nat, NEW d \in Nat, NEW o \in Outcomes
    PROVE  /\ Apply(c, -d, o) <= c
           /\ Once(o) /\ d <= c => Apply(c, -d, o) = c - d
           /\ o = "refused" => Apply(c, -d, o) = c
  BY DEF Apply, IncrementCount, Outcomes, Once

(* A manual increment adds no more than it is recorded to have added.      *)
LEMMA ApplyGain ==
    ASSUME NEW c \in Nat, NEW d \in Int, NEW o \in Outcomes
    PROVE  /\ Executions(o) * Gain(d) \in Nat
           /\ Apply(c, d, o) <= c + Executions(o) * Gain(d)
           /\ Apply(c, d, o) \in Nat
<1>1. Apply(c, d, o) \in Nat
  BY ApplyType
<1>2. CASE o = "refused"
  <2>1. Executions(o) = 0 /\ Apply(c, d, o) = c /\ Gain(d) \in Nat
    BY <1>2 DEF Executions, Apply, Gain
  <2> QED
    BY <1>1, <2>1
<1>3. CASE o = "resent"
  <2>1. Executions(o) = 2 /\ Apply(c, d, o) <= c + 2 * Gain(d) /\ Gain(d) \in Nat
    BY <1>3 DEF Executions, Apply, Gain, IncrementCount
  <2> QED
    BY <1>1, <2>1
<1>4. CASE o \in {"ok", "lost"}
  <2>1. Executions(o) = 1 /\ Apply(c, d, o) <= c + Gain(d) /\ Gain(d) \in Nat
    BY <1>4 DEF Executions, Apply, Gain, IncrementCount
  <2> QED
    BY <1>1, <2>1
<1> QED
  BY <1>2, <1>3, <1>4 DEF Outcomes

(* All the sets that are counted are finite.                               *)
LEMMA FiniteCounts ==
    /\ \A S \in SUBSET Sends : IsFiniteSet(S) /\ Cardinality(S) \in Nat
    /\ \A u : Counted(u) \in SUBSET Sends /\ Started(u) \in SUBSET Sends
    /\ \A u, S : S \in SUBSET Sends => SentTo(u, S) \in SUBSET Sends
    /\ \A m, S : S \in SUBSET Sends => InDialog(m, S) \in SUBSET Sends
<1>1. IsFiniteSet(Sends)
  BY ConstantsAssumption
<1>2. ASSUME NEW S \in SUBSET Sends PROVE IsFiniteSet(S) /\ Cardinality(S) \in Nat
  BY <1>1, FS_Subset, FS_CardinalityType
<1> QED
  BY <1>2 DEF Counted, Started, SentTo, InDialog

LEMMA AnyUserType == AnyUser \in Users
  BY ConstantsAssumption DEF AnyUser

(* Without a saga under way the messages counted are the unread rows.      *)
LEMMA QuietCount ==
    ASSUME TypeOK, MarkedOnce, NEW u \in Users, Quiet(u)
    PROVE  Counted(u) = SentTo(u, unread)
<1>1. ASSUME NEW s \in Sends, To[s] = u PROVE ~InFlight(s) /\ ~BeingMarked(s)
  BY <1>1 DEF Quiet, BeingMarked, MarkedOnce
<1>2. unread \subseteq Sends
  BY DEF TypeOK
<1> QED
  BY <1>1, <1>2 DEF Counted, SentTo

(* A step that leaves the counters and what they stand for alone keeps     *)
(* them exact.                                                             *)
LEMMA SameCounts ==
    ASSUME CounterExact, counter' = counter, tainted \subseteq tainted',
           \A u \in Users \ tainted' : Counted(u)' = Counted(u)
    PROVE  CounterExact'
  BY DEF CounterExact

(* What a step that is not part of a saga leaves alone.                    *)
LEMMA OutsideSagas ==
    ASSUME UNCHANGED <<rows, unread, sendPc, markPc, marked>>
    PROVE  /\ \A u : Counted(u)' = Counted(u)
           /\ \A u : Quiet(u)' = Quiet(u)
           /\ \A u : Started(u)' = Started(u)
           /\ RowsWereSaved => RowsWereSaved'
           /\ MarkedOnce => MarkedOnce'
<1>1. \A u : Counted(u)' = Counted(u)
  BY DEF Counted, InFlight, BeingMarked
<1>2. \A u : Quiet(u)' = Quiet(u)
  BY DEF Quiet, InFlight
<1> QED
  BY <1>1, <1>2 DEF Started, RowsWereSaved, MarkedOnce

-----------------------------------------------------------------------------
LEMMA InitIInv == Init => IInv
<1> SUFFICES ASSUME Init PROVE IInv
  OBVIOUS
<1>1. TypeOK
  BY ConstantsAssumption, AnyUserType DEF Init, TypeOK, SendStates, MarkStates, RecStates
<1>2. RowsWereSaved /\ MarkedOnce /\ LostInsertTaints /\ CleanCounts
  BY DEF Init, RowsWereSaved, MarkedOnce, LostInsertTaints, CleanCounts
<1>3. CounterExact
  <2>1. ASSUME NEW u \in Users PROVE Counted(u) = {}
    BY DEF Init, Counted, InFlight, BeingMarked
  <2> QED
    BY <2>1, FS_EmptySet DEF Init, CounterExact
<1> QED
  BY <1>1, <1>2, <1>3 DEF IInv

-----------------------------------------------------------------------------
(* The steps of a send.                                                    *)
LEMMA IncrementStep ==
    ASSUME IInv, NEW s \in Sends, IncrementUnreadCounter(s)
    PROVE  IInv'
<1> USE DEF IInv
<1>1. PICK o \in Outcomes :
        /\ SpendFault(o)
        /\ counter' = [counter EXCEPT ![To[s]] = Apply(@, 1, o)]
        /\ sendPc' = [sendPc EXCEPT ![s] = IF Failed(o) THEN "failed" ELSE "save"]
        /\ TaintIf(o \in {"lost", "resent"}, To[s])
  BY DEF IncrementUnreadCounter
<1>2. /\ sendPc[s] = "idle"
      /\ clean' = {r \in clean : recUser[r] # To[s]}
      /\ UNCHANGED <<rows, unread, replica, shards, markPc, unreadCount, marked,
                     recPc, recUser, actualCount, todo, overwrites, granted>>
  BY DEF IncrementUnreadCounter, Disturb, dbVars, markVars, recVars
<1>3. To[s] \in Users
  BY ConstantsAssumption
<1>4. tainted \subseteq tainted' /\ tainted' \subseteq Users
  BY <1>1, <1>3 DEF TaintIf, TypeOK
<1>5. TypeOK'
  <2>1. counter' \in [Users -> Nat]
    BY <1>1, <1>3, ApplyType DEF TypeOK
  <2>2. sendPc' \in [Sends -> SendStates]
    BY <1>1 DEF TypeOK, SendStates
  <2>3. faults' \in 0..MaxFaults
    BY <1>1, ConstantsAssumption DEF SpendFault, TypeOK
  <2> QED
    BY <1>2, <1>4, <2>1, <2>2, <2>3 DEF TypeOK
<1>6. s \notin rows
  BY <1>2 DEF RowsWereSaved
<1>7. RowsWereSaved'
  BY <1>1, <1>2, <1>6 DEF RowsWereSaved, TypeOK
<1>8. MarkedOnce'
  BY <1>2 DEF MarkedOnce
<1>9. LostInsertTaints'
  BY <1>1, <1>2, <1>4, <1>6 DEF LostInsertTaints, TypeOK
<1>10. CleanCounts'
  BY <1>1, <1>2 DEF CleanCounts, Quiet, InFlight, TypeOK
<1>11. CounterExact'
  <2> SUFFICES ASSUME NEW u \in Users, u \notin tainted'
               PROVE  counter'[u] = Cardinality(Counted(u)')
    BY DEF CounterExact
  <2>1. counter[u] = Cardinality(Counted(u)) /\ counter[u] \in Nat
    BY <1>4 DEF CounterExact, TypeOK
  <2>2. s \notin Counted(u)
    BY <1>2, <1>6 DEF Counted, InFlight, BeingMarked, MarkedOnce, TypeOK
  <2>3. CASE u = To[s] /\ ~Failed(o)
    <3>1. o = "ok"
      BY <1>1, <2>3 DEF TaintIf, Outcomes, Failed
    <3>2. Counted(u)' = Counted(u) \union {s}
      BY <1>1, <1>2, <2>3 DEF Counted, InFlight, BeingMarked, TypeOK
    <3>3. Cardinality(Counted(u)') = Cardinality(Counted(u)) + 1
      BY <2>2, <3>2, FiniteCounts, FS_AddElement
    <3>4. counter'[u] = counter[u] + 1
      BY <1>1, <2>1, <2>3, <3>1, ApplyIncrement DEF TypeOK
    <3> QED
      BY <2>1, <3>3, <3>4
  <2>4. CASE u # To[s] \/ Failed(o)
    <3>1. Counted(u)' = Counted(u)
      BY <1>1, <1>2, <2>2, <2>4 DEF Counted, InFlight, BeingMarked, TypeOK
    <3>2. counter'[u] = counter[u]
      <4>1. CASE u # To[s]
        BY <1>1, <4>1 DEF TypeOK
      <4>2. CASE u = To[s]
        <5>1. o = "refused"
          BY <1>1, <2>4, <4>2 DEF TaintIf, Failed
        <5> QED
          BY <1>1, <2>1, <4>2, <5>1, ApplyIncrement DEF TypeOK
      <4> QED
        BY <4>1, <4>2
    <3> QED
      BY <2>1, <3>1, <3>2
  <2> QED
    BY <2>3, <2>4
<1> QED
  BY <1>5, <1>7, <1>8, <1>9, <1>10, <1>11

LEMMA SaveMessagePanicsStep ==
    ASSUME IInv, NEW s \in Sends, SaveMessagePanics(s)
    PROVE  IInv'
<1> USE DEF IInv
<1>1. /\ sendPc[s] = "save"
      /\ sendPc' = [sendPc EXCEPT ![s] = "panicked"]
      /\ tainted' = tainted \union {To[s]}
      /\ UNCHANGED <<counter, rows, unread, replica, shards, markPc, unreadCount,
                     marked, recPc, recUser, actualCount, todo, clean, faults,
                     overwrites, granted>>
  BY DEF SaveMessagePanics, TaintIf, dbVars, markVars, recVars
<1>2. TypeOK'
  <2>1. sendPc' \in [Sends -> SendStates]
    BY <1>1 DEF TypeOK, SendStates
  <2>2. tainted' \subseteq Users
    BY <1>1, ConstantsAssumption DEF TypeOK
  <2> QED
    BY <1>1, <2>1, <2>2 DEF TypeOK
<1>3. RowsWereSaved' /\ MarkedOnce' /\ LostInsertTaints'
  BY <1>1 DEF RowsWereSaved, MarkedOnce, LostInsertTaints, TypeOK
<1>4. CleanCounts'
  BY <1>1 DEF CleanCounts, Quiet, InFlight, TypeOK
<1>5. CounterExact'
  <2>1. ASSUME NEW u \in Users \ tainted' PROVE Counted(u)' = Counted(u)
    BY <1>1 DEF Counted, InFlight, BeingMarked, TypeOK
  <2> QED
    BY <1>1, <2>1, SameCounts
<1> QED
  BY <1>2, <1>3, <1>4, <1>5

LEMMA SaveMessageToDbStep ==
    ASSUME IInv, NEW s \in Sends, SaveMessageToDb(s)
    PROVE  IInv'
<1> USE DEF IInv
<1>1. PICK o \in DbOutcomes :
        /\ SpendFault(o)
        /\ IF o = "refused" THEN UNCHANGED dbVars
           ELSE /\ rows' = rows \union {s}
                /\ unread' = unread \union {s}
        /\ sendPc' = [sendPc EXCEPT ![s] = IF o = "ok" THEN "shard" ELSE "compensate"]
        /\ TaintIf(o = "lost", To[s])
  BY DEF SaveMessageToDb
<1>2. /\ sendPc[s] = "save"
      /\ UNCHANGED <<counter, replica, shards, markPc, unreadCount, marked,
                     recPc, recUser, actualCount, todo, clean, overwrites, granted>>
  BY DEF SaveMessageToDb, markVars, recVars
<1>3. s \notin rows
  BY <1>2 DEF RowsWereSaved
<1>4. /\ rows \subseteq rows' /\ rows' \subseteq rows \union {s}
      /\ unread \subseteq unread' /\ unread' \subseteq unread \union {s}
      /\ rows' \ unread' = rows \ unread
      /\ o = "ok" => s \in unread'
  BY <1>1, <1>3 DEF dbVars, TypeOK
<1>5. tainted \subseteq tainted' /\ tainted' \subseteq Users
  <2>1. tainted \subseteq Users /\ To[s] \in Users
    BY ConstantsAssumption DEF TypeOK
  <2>2. tainted' = tainted \/ tainted' = tainted \union {To[s]}
    BY <1>1 DEF TaintIf
  <2> QED
    BY <2>1, <2>2
<1>6. TypeOK'
  <2>1. sendPc' \in [Sends -> SendStates]
    BY <1>1 DEF TypeOK, SendStates
  <2>2. faults' \in 0..MaxFaults
    BY <1>1, ConstantsAssumption DEF SpendFault, TypeOK
  <2>3. rows' \subseteq Sends /\ unread' \subseteq rows'
    BY <1>1, <1>4 DEF dbVars, TypeOK
  <2> QED
    BY <1>2, <1>5, <2>1, <2>2, <2>3 DEF TypeOK
<1>7. RowsWereSaved'
  BY <1>1, <1>2, <1>4 DEF RowsWereSaved, TypeOK
<1>8. MarkedOnce'
  BY <1>2, <1>4 DEF MarkedOnce
<1>9. LostInsertTaints'
  <2> SUFFICES ASSUME NEW x \in rows', sendPc'[x] = "compensate"
               PROVE  To[x] \in tainted'
    BY DEF LostInsertTaints
  <2>1. CASE x = s
    BY <1>1, <1>3, <2>1 DEF TaintIf, DbOutcomes, dbVars, TypeOK
  <2>2. CASE x # s
    BY <1>1, <1>4, <1>5, <2>2 DEF LostInsertTaints, TypeOK
  <2> QED
    BY <2>1, <2>2
<1>10. CleanCounts'
  <2> SUFFICES ASSUME NEW r \in clean, recPc[r] \in {"get", "set"}
               PROVE  /\ Quiet(recUser[r])'
                      /\ actualCount[r] = Cardinality(SentTo(recUser[r], unread'))
    BY <1>2 DEF CleanCounts
  <2>1. Quiet(recUser[r]) /\ actualCount[r] = Cardinality(SentTo(recUser[r], unread))
    BY DEF CleanCounts
  <2>2. To[s] # recUser[r]
    BY <1>2, <2>1 DEF Quiet, InFlight
  <2>3. SentTo(recUser[r], unread') = SentTo(recUser[r], unread)
    BY <1>4, <2>2 DEF SentTo
  <2>4. Quiet(recUser[r])'
    BY <1>1, <1>2, <2>1, <2>2 DEF Quiet, InFlight, TypeOK
  <2> QED
    BY <2>1, <2>3, <2>4
<1>11. CounterExact'
  <2>1. ASSUME NEW u \in Users \ tainted' PROVE Counted(u)' = Counted(u)
    <3>1. ASSUME NEW x \in Sends
          PROVE  /\ BeingMarked(x)' <=> BeingMarked(x)
                 /\ x # s => /\ InFlight(x)' <=> InFlight(x)
                             /\ x \in unread' <=> x \in unread
      BY <1>1, <1>2, <1>4 DEF BeingMarked, InFlight, TypeOK
    <3>2. InFlight(s) /\ (InFlight(s)' \/ s \in unread')
      BY <1>1, <1>2, <1>4 DEF InFlight, TypeOK
    <3> QED
      BY <3>1, <3>2 DEF Counted
  <2> QED
    BY <1>2, <1>5, <2>1, SameCounts
<1> QED
  BY <1>6, <1>7, <1>8, <1>9, <1>10, <1>11

LEMMA CompensateStep ==
    ASSUME IInv, NEW s \in Sends, CompensateIncrement(s)
    PROVE  IInv'
<1> USE DEF IInv
<1>1. PICK o \in Outcomes :
        /\ SpendFault(o)
        /\ counter' = [counter EXCEPT ![To[s]] = Apply(@, -1, o)]
        /\ TaintIf(~Once(o), To[s])
  BY DEF CompensateIncrement
<1>2. /\ sendPc[s] = "compensate"
      /\ sendPc' = [sendPc EXCEPT ![s] = "failed"]
      /\ UNCHANGED <<rows, unread, replica, shards, markPc, unreadCount, marked,
                     recPc, recUser, actualCount, todo, clean, overwrites, granted>>
  BY DEF CompensateIncrement, dbVars, markVars, recVars
<1>3. To[s] \in Users
  BY ConstantsAssumption
<1>4. tainted \subseteq tainted' /\ tainted' \subseteq Users
  BY <1>1, <1>3 DEF TaintIf, TypeOK
<1>5. TypeOK'
  <2>1. counter' \in [Users -> Nat]
    BY <1>1, <1>3, ApplyType DEF TypeOK
  <2>2. sendPc' \in [Sends -> SendStates]
    BY <1>2 DEF TypeOK, SendStates
  <2>3. faults' \in 0..MaxFaults
    BY <1>1, ConstantsAssumption DEF SpendFault, TypeOK
  <2> QED
    BY <1>2, <1>4, <2>1, <2>2, <2>3 DEF TypeOK
<1>6. RowsWereSaved' /\ MarkedOnce' /\ LostInsertTaints'
  BY <1>2, <1>4 DEF RowsWereSaved, MarkedOnce, LostInsertTaints, TypeOK
<1>7. CleanCounts'
  BY <1>2 DEF CleanCounts, Quiet, InFlight, TypeOK
<1>8. CounterExact'
  <2> SUFFICES ASSUME NEW u \in Users, u \notin tainted'
               PROVE  counter'[u] = Cardinality(Counted(u)')
    BY DEF CounterExact
  <2>1. counter[u] = Cardinality(Counted(u)) /\ counter[u] \in Nat
    BY <1>4 DEF CounterExact, TypeOK
  <2>2. CASE u = To[s]
    <3>1. Once(o)
      BY <1>1, <2>2 DEF TaintIf
    <3>2. s \notin rows
      BY <1>2, <1>4, <2>2 DEF LostInsertTaints
    <3>3. Counted(u)' = Counted(u) \ {s} /\ s \in Counted(u)
      BY <1>2, <2>2, <3>2 DEF Counted, InFlight, BeingMarked, MarkedOnce, TypeOK
    <3>4. Cardinality(Counted(u)') = Cardinality(Counted(u)) - 1
      BY <3>3, FiniteCounts, FS_RemoveElement
    <3>5. Cardinality(Counted(u)) # 0
      BY <3>3, FiniteCounts, FS_EmptySet
    <3>6. counter'[u] = counter[u] - 1
      <4>1. counter'[u] = Apply(counter[u], -1, o)
        BY <1>1, <2>2 DEF TypeOK
      <4>2. 1 <= counter[u]
        BY <2>1, <3>5
      <4> QED
        BY <2>1, <3>1, <4>1, <4>2, ApplyDecrement
    <3> QED
      BY <2>1, <3>4, <3>6
  <2>3. CASE u # To[s]
    <3>1. Counted(u)' = Counted(u)
      BY <1>2, <2>3 DEF Counted, InFlight, BeingMarked, TypeOK
    <3> QED
      BY <1>1, <2>1, <2>3, <3>1 DEF TypeOK
  <2> QED
    BY <2>2, <2>3
<1> QED
  BY <1>5, <1>6, <1>7, <1>8

LEMMA InsertIntoShardStep ==
    ASSUME IInv, NEW s \in Sends, InsertIntoShard(s)
    PROVE  IInv'
<1> USE DEF IInv
<1>1. /\ sendPc[s] = "shard"
      /\ \E pc \in {"done", "shardFailed"} : sendPc' = [sendPc EXCEPT ![s] = pc]
      /\ shards' \in {shards, shards \union {s}}
      /\ faults' \in 0..MaxFaults
      /\ UNCHANGED <<counter, rows, unread, replica, markPc, unreadCount, marked,
                     recPc, recUser, actualCount, todo, clean, tainted, overwrites, granted>>
  <2>1. PICK o \in DbOutcomes :
          /\ SpendFault(o)
          /\ shards' = IF o = "refused" THEN shards ELSE shards \union {s}
          /\ sendPc' = [sendPc EXCEPT ![s] = IF o = "ok" THEN "done" ELSE "shardFailed"]
    BY DEF InsertIntoShard
  <2>2. faults' \in 0..MaxFaults
    BY <2>1, ConstantsAssumption DEF SpendFault, TypeOK
  <2>3. \E pc \in {"done", "shardFailed"} : sendPc' = [sendPc EXCEPT ![s] = pc]
    BY <2>1
  <2> QED
    BY <2>1, <2>2, <2>3 DEF InsertIntoShard, dbVars, markVars, recVars
<1>2. sendPc'[s] \in {"done", "shardFailed"} /\ \A x \in Sends \ {s} : sendPc'[x] = sendPc[x]
  BY <1>1 DEF TypeOK
<1>3. TypeOK'
  <2>1. sendPc' \in [Sends -> SendStates]
    BY <1>1 DEF TypeOK, SendStates
  <2>2. shards' \subseteq Sends
    BY <1>1 DEF TypeOK
  <2> QED
    BY <1>1, <2>1, <2>2 DEF TypeOK
<1>4. RowsWereSaved' /\ MarkedOnce' /\ LostInsertTaints'
  BY <1>1, <1>2 DEF RowsWereSaved, MarkedOnce, LostInsertTaints, TypeOK
<1>5. ASSUME NEW x \in Sends PROVE InFlight(x)' <=> InFlight(x)
  BY <1>1, <1>2 DEF InFlight
<1>6. CleanCounts'
  BY <1>1, <1>5 DEF CleanCounts, Quiet
<1>7. CounterExact'
  <2>1. ASSUME NEW u \in Users PROVE Counted(u)' = Counted(u)
    BY <1>1, <1>5 DEF Counted, BeingMarked
  <2> QED
    BY <1>1, <2>1, SameCounts
<1> QED
  BY <1>3, <1>4, <1>6, <1>7

LEMMA CrashSendStep ==
    ASSUME IInv, NEW s \in Sends, CrashSend(s)
    PROVE  IInv'
<1> USE DEF IInv
<1>1. /\ sendPc[s] \in {"save", "compensate", "shard"}
      /\ sendPc' = [sendPc EXCEPT ![s] = "crashed"]
      /\ TaintIf(InFlight(s), To[s])
      /\ faults' \in 0..MaxFaults
      /\ UNCHANGED <<counter, rows, unread, replica, shards, markPc, unreadCount,
                     marked, recPc, recUser, actualCount, todo, clean, overwrites, granted>>
  BY ConstantsAssumption DEF CrashSend, SpendFault, TypeOK, dbVars, markVars, recVars
<1>2. tainted \subseteq tainted' /\ tainted' \subseteq Users
  BY <1>1, ConstantsAssumption DEF TaintIf, TypeOK
<1>3. TypeOK'
  <2>1. sendPc' \in [Sends -> SendStates]
    BY <1>1 DEF TypeOK, SendStates
  <2> QED
    BY <1>1, <1>2, <2>1 DEF TypeOK
<1>4. RowsWereSaved' /\ MarkedOnce' /\ LostInsertTaints'
  BY <1>1, <1>2 DEF RowsWereSaved, MarkedOnce, LostInsertTaints, TypeOK
<1>5. CleanCounts'
  BY <1>1 DEF CleanCounts, Quiet, InFlight, TypeOK
<1>6. CounterExact'
  <2>1. ASSUME NEW u \in Users \ tainted' PROVE Counted(u)' = Counted(u)
    <3>1. InFlight(s) => To[s] # u
      BY <1>1 DEF TaintIf
    <3>2. ASSUME NEW x \in Sends, To[x] = u PROVE InFlight(x)' <=> InFlight(x)
      BY <1>1, <3>1, <3>2 DEF InFlight, TypeOK
    <3> QED
      BY <1>1, <3>2 DEF Counted, BeingMarked
  <2> QED
    BY <1>1, <1>2, <2>1, SameCounts
<1> QED
  BY <1>3, <1>4, <1>5, <1>6

-----------------------------------------------------------------------------
(* The steps of a mark.                                                    *)
LEMMA CountUnreadStep ==
    ASSUME IInv, NEW m \in Marks, CountUnreadMessages(m)
    PROVE  IInv'
<1> USE DEF IInv
<1>1. /\ markPc[m] = "idle"
      /\ \E pc \in {"mark", "failed"} : markPc' = [markPc EXCEPT ![m] = pc]
      /\ UNCHANGED <<counter, rows, unread, replica, shards, sendPc, marked,
                     recPc, recUser, actualCount, todo, clean, tainted, overwrites, granted>>
  BY DEF CountUnreadMessages, dbVars, sendVars, recVars
<1>2. markPc'[m] \in {"mark", "failed"} /\ \A n \in Marks \ {m} : markPc'[n] = markPc[n]
  BY <1>1 DEF TypeOK
<1>3. TypeOK'
  <2>1. markPc' \in [Marks -> MarkStates]
    BY <1>1 DEF TypeOK, MarkStates
  <2>2. unreadCount' \in [Marks -> Nat] /\ faults' \in 0..MaxFaults
    <3>1. CASE \E p \in Replicas :
                 /\ unreadCount' = [unreadCount EXCEPT ![m] = Cardinality(InDialog(m, replica[p]))]
                 /\ UNCHANGED faults
      <4>1. PICK p \in Replicas :
              /\ unreadCount' = [unreadCount EXCEPT ![m] = Cardinality(InDialog(m, replica[p]))]
              /\ UNCHANGED faults
        BY <3>1
      <4>2. Cardinality(InDialog(m, replica[p])) \in Nat
        BY FiniteCounts DEF TypeOK
      <4> QED
        BY <4>1, <4>2 DEF TypeOK
    <3>2. CASE SpendFault("refused") /\ UNCHANGED unreadCount
      BY <3>2, ConstantsAssumption DEF SpendFault, TypeOK
    <3> QED
      BY <3>1, <3>2 DEF CountUnreadMessages
  <2> QED
    BY <1>1, <2>1, <2>2 DEF TypeOK
<1>4. ASSUME NEW n \in Marks PROVE markPc'[n] = "update" <=> markPc[n] = "update"
  BY <1>1, <1>2
<1>5. RowsWereSaved' /\ LostInsertTaints'
  BY <1>1 DEF RowsWereSaved, LostInsertTaints
<1>6. MarkedOnce'
  BY <1>1, <1>2 DEF MarkedOnce
<1>7. CleanCounts'
  BY <1>1, <1>4 DEF CleanCounts, Quiet, InFlight
<1>8. CounterExact'
  <2>1. ASSUME NEW u \in Users PROVE Counted(u)' = Counted(u)
    BY <1>1, <1>4 DEF Counted, InFlight, BeingMarked
  <2> QED
    BY <1>1, <2>1, SameCounts
<1> QED
  BY <1>3, <1>5, <1>6, <1>7, <1>8

LEMMA MarkMessagesStep ==
    ASSUME IInv, NEW m \in Marks, MarkMessagesAsRead(m)
    PROVE  IInv'
<1> USE DEF IInv
<1> DEFINE found == InDialog(m, unread)
<1>1. PICK o \in DbOutcomes :
        /\ SpendFault(o)
        /\ unread' = IF o = "refused" THEN unread ELSE unread \ found
        /\ IF o = "ok"
           THEN /\ markPc' = [markPc EXCEPT ![m] = "update"]
                /\ marked' = [marked EXCEPT ![m] = found]
                /\ UNCHANGED unreadCount
           ELSE EndMark(m, "failed") /\ UNCHANGED marked
        /\ TaintIf(o = "lost" /\ found # {}, Reader[m])
  BY DEF MarkMessagesAsRead
<1>2. /\ markPc[m] = "mark"
      /\ clean' = {r \in clean : recUser[r] # Reader[m]}
      /\ UNCHANGED <<counter, rows, replica, shards, sendPc, recPc, recUser,
                     actualCount, todo, overwrites, granted>>
  BY DEF MarkMessagesAsRead, Disturb, sendVars, recVars
<1>3. Reader[m] \in Users
  BY ConstantsAssumption
<1>4. tainted \subseteq tainted' /\ tainted' \subseteq Users
  BY <1>1, <1>3 DEF TaintIf, TypeOK
<1>5. found \subseteq unread /\ \A s \in found : To[s] = Reader[m]
  BY DEF InDialog
<1>6. /\ unread' \subseteq unread /\ unread \ unread' \subseteq found
      /\ \A n \in Marks \ {m} : marked'[n] = marked[n] /\ markPc'[n] = markPc[n]
      /\ markPc'[m] \in {"update", "failed"}
      /\ marked'[m] = IF o = "ok" THEN found ELSE {}
  <2>1. marked[m] = {}
    BY <1>2 DEF MarkedOnce
  <2> QED
    BY <1>1, <2>1 DEF EndMark, TypeOK
<1>7. TypeOK'
  <2>1. markPc' \in [Marks -> MarkStates] /\ unreadCount' \in [Marks -> Nat]
    BY <1>1 DEF EndMark, TypeOK, MarkStates
  <2>2. marked' \in [Marks -> SUBSET Sends]
    <3>1. found \in SUBSET Sends
      BY <1>5 DEF TypeOK
    <3> QED
      BY <1>1, <3>1 DEF TypeOK
  <2>3. faults' \in 0..MaxFaults
    BY <1>1, ConstantsAssumption DEF SpendFault, TypeOK
  <2>4. unread' \subseteq rows' /\ clean' \subseteq Reconcilers
    BY <1>2, <1>6 DEF TypeOK
  <2> QED
    BY <1>2, <1>4, <2>1, <2>2, <2>3, <2>4 DEF TypeOK
<1>8. RowsWereSaved' /\ LostInsertTaints'
  BY <1>2, <1>4 DEF RowsWereSaved, LostInsertTaints
<1>9. MarkedOnce'
  <2>1. marked'[m] \subseteq rows \ unread' /\ marked'[m] \subseteq unread
    BY <1>1, <1>5, <1>6 DEF TypeOK
  <2>2. \A s \in marked'[m] : To[s] = Reader[m]
    BY <1>5, <1>6
  <2>3. ASSUME NEW n \in Marks \ {m}
        PROVE  /\ marked'[n] \subseteq rows \ unread'
               /\ marked'[n] \intersect marked'[m] = {}
    BY <1>6, <2>1 DEF MarkedOnce
  <2> QED
    BY <1>2, <1>6, <2>1, <2>2, <2>3 DEF MarkedOnce
<1>10. CleanCounts'
  <2> SUFFICES ASSUME NEW r \in clean, recUser[r] # Reader[m], recPc[r] \in {"get", "set"}
               PROVE  /\ Quiet(recUser[r])'
                      /\ actualCount[r] = Cardinality(SentTo(recUser[r], unread'))
    BY <1>2 DEF CleanCounts
  <2>1. Quiet(recUser[r]) /\ actualCount[r] = Cardinality(SentTo(recUser[r], unread))
    BY DEF CleanCounts
  <2>2. SentTo(recUser[r], unread') = SentTo(recUser[r], unread)
    BY <1>5, <1>6 DEF SentTo
  <2>3. Quiet(recUser[r])'
    BY <1>2, <1>6, <2>1 DEF Quiet, InFlight
  <2> QED
    BY <2>1, <2>2, <2>3
<1>11. CounterExact'
  <2>1. ASSUME NEW u \in Users \ tainted' PROVE Counted(u)' = Counted(u)
    <3>1. ASSUME NEW s \in Sends, To[s] = u
          PROVE  s \in unread' \/ BeingMarked(s)' <=> s \in unread \/ BeingMarked(s)
      <4>1. CASE o = "ok"
        <5>1. BeingMarked(s)' <=> BeingMarked(s) \/ s \in found
          BY <1>1, <1>2, <1>6, <4>1 DEF BeingMarked, TypeOK
        <5> QED
          BY <1>1, <1>5, <4>1, <5>1
      <4>2. CASE o # "ok"
        <5>1. BeingMarked(s)' <=> BeingMarked(s)
          BY <1>1, <1>2, <1>6, <4>2 DEF BeingMarked
        <5>2. s \in unread' <=> s \in unread
          BY <1>1, <1>5, <3>1, <4>2 DEF TaintIf, DbOutcomes
        <5> QED
          BY <5>1, <5>2
      <4> QED
        BY <4>1, <4>2
    <3>2. ASSUME NEW s \in Sends PROVE InFlight(s)' <=> InFlight(s)
      BY <1>2 DEF InFlight
    <3> QED
      BY <3>1, <3>2 DEF Counted
  <2> QED
    BY <1>2, <1>4, <2>1, SameCounts
<1> QED
  BY <1>7, <1>8, <1>9, <1>10, <1>11

(* When a mark leaves step 3 its rows stop being counted.                  *)
LEMMA MarkEnds ==
    ASSUME IInv, NEW m \in Marks, markPc[m] = "update",
           NEW pc \in {"done", "failed", "crashed"}, EndMark(m, pc),
           UNCHANGED <<rows, unread, sendPc, marked>>,
           NEW u \in Users \ tainted
    PROVE  /\ u = Reader[m] => /\ marked[m] \subseteq Counted(u)
                               /\ Counted(u)' = Counted(u) \ marked[m]
           /\ u # Reader[m] => Counted(u)' = Counted(u)
<1> USE DEF IInv
<1>1. markPc'[m] # "update" /\ \A n \in Marks \ {m} : markPc'[n] = markPc[n]
  BY DEF EndMark, TypeOK
<1>2. ASSUME NEW s \in marked[m], u = Reader[m]
      PROVE  /\ s \in Sends /\ To[s] = u /\ s \notin unread /\ ~InFlight(s)
             /\ BeingMarked(s) /\ ~BeingMarked(s)'
  <2>1. s \in Sends /\ s \in rows /\ s \notin unread /\ To[s] = u
    BY <1>2 DEF MarkedOnce, TypeOK
  <2>2. ~InFlight(s)
    BY <2>1 DEF InFlight, RowsWereSaved, LostInsertTaints
  <2>3. BeingMarked(s)
    BY DEF BeingMarked
  <2>4. \A n \in Marks \ {m} : s \notin marked[n]
    BY DEF MarkedOnce
  <2>5. ~BeingMarked(s)'
    BY <1>1, <2>4 DEF BeingMarked
  <2> QED
    BY <2>1, <2>2, <2>3, <2>5
<1>3. ASSUME NEW s \in Sends, s \notin marked[m]
      PROVE  BeingMarked(s)' <=> BeingMarked(s)
  BY <1>1, <1>3 DEF BeingMarked
<1>4. ASSUME NEW s \in Sends PROVE InFlight(s)' <=> InFlight(s)
  BY DEF InFlight
<1>5. CASE u = Reader[m]
  BY <1>2, <1>3, <1>4, <1>5 DEF Counted
<1>6. CASE u # Reader[m]
  <2>1. ASSUME NEW s \in Sends, To[s] = u PROVE s \notin marked[m]
    BY <1>6, <2>1 DEF MarkedOnce
  <2> QED
    BY <1>3, <1>4, <1>6, <2>1 DEF Counted
<1> QED
  BY <1>5, <1>6

(* What the three ways out of step 3 have in common.                       *)
LEMMA MarkEndsRest ==
    ASSUME IInv, NEW m \in Marks, markPc[m] \in {"mark", "update"},
           NEW pc \in {"done", "failed", "crashed"}, EndMark(m, pc),
           TaintIf(TRUE, Reader[m]) \/ UNCHANGED tainted,
           faults' \in 0..MaxFaults, counter' \in [Users -> Nat],
           UNCHANGED <<rows, unread, replica, shards, sendPc, marked, recPc,
                       recUser, actualCount, todo, clean, overwrites, granted>>
    PROVE  TypeOK' /\ RowsWereSaved' /\ MarkedOnce' /\ LostInsertTaints' /\ CleanCounts'
<1> USE DEF IInv
<1>1. tainted \subseteq tainted' /\ tainted' \subseteq Users
  BY ConstantsAssumption DEF TaintIf, TypeOK
<1>2. markPc'[m] = pc /\ \A n \in Marks \ {m} : markPc'[n] = markPc[n]
  BY DEF EndMark, TypeOK
<1>3. TypeOK'
  <2>1. markPc' \in [Marks -> MarkStates] /\ unreadCount' \in [Marks -> Nat]
    BY DEF EndMark, TypeOK, MarkStates
  <2> QED
    BY <1>1, <2>1 DEF TypeOK
<1>4. RowsWereSaved' /\ LostInsertTaints'
  BY <1>1 DEF RowsWereSaved, LostInsertTaints
<1>5. MarkedOnce'
  BY <1>2 DEF MarkedOnce
<1>6. CleanCounts'
  BY <1>2 DEF CleanCounts, Quiet, InFlight
<1> QED
  BY <1>3, <1>4, <1>5, <1>6

LEMMA UpdateCounterStep ==
    ASSUME IInv, NEW m \in Marks, UpdateCounter(m)
    PROVE  IInv'
<1> USE DEF IInv
<1> DEFINE d == unreadCount[m]
           exact(o) == \/ Once(o) /\ d = Cardinality(marked[m])
                       \/ o = "refused" /\ marked[m] = {}
<1>1. PICK o \in Outcomes :
        /\ SpendFault(o)
        /\ counter' = [counter EXCEPT ![Reader[m]] = Apply(@, -d, o)]
        /\ EndMark(m, IF Failed(o) THEN "failed" ELSE "done")
        /\ TaintIf(~exact(o), Reader[m])
  BY DEF UpdateCounter
<1>2. /\ markPc[m] = "update"
      /\ UNCHANGED <<rows, unread, replica, shards, sendPc, marked, recPc,
                     recUser, actualCount, todo, clean, overwrites, granted>>
  BY DEF UpdateCounter, dbVars, sendVars, recVars
<1>3. Reader[m] \in Users /\ d \in Nat
  BY ConstantsAssumption DEF TypeOK
<1>4. counter' \in [Users -> Nat]
  BY <1>1, <1>3, ApplyType DEF TypeOK
<1>5. faults' \in 0..MaxFaults
  BY <1>1, ConstantsAssumption DEF SpendFault, TypeOK
<1>6. TypeOK' /\ RowsWereSaved' /\ MarkedOnce' /\ LostInsertTaints' /\ CleanCounts'
  BY <1>1, <1>2, <1>4, <1>5, MarkEndsRest DEF TaintIf
<1>7. CounterExact'
  <2> SUFFICES ASSUME NEW u \in Users, u \notin tainted'
               PROVE  counter'[u] = Cardinality(Counted(u)')
    BY DEF CounterExact
  <2>1. u \notin tainted
    BY <1>1 DEF TaintIf
  <2>2. counter[u] = Cardinality(Counted(u)) /\ counter[u] \in Nat
    BY <2>1 DEF CounterExact, TypeOK
  <2>3. CASE u # Reader[m]
    <3>1. Counted(u)' = Counted(u)
      BY <1>1, <1>2, <2>1, <2>3, MarkEnds
    <3> QED
      BY <1>1, <2>2, <2>3, <3>1 DEF TypeOK
  <2>4. CASE u = Reader[m]
    <3>1. exact(o)
      BY <1>1, <2>4 DEF TaintIf
    <3>2. marked[m] \subseteq Counted(u) /\ Counted(u)' = Counted(u) \ marked[m]
      BY <1>1, <1>2, <2>1, <2>4, MarkEnds
    <3>3. counter'[u] = Apply(counter[u], -d, o)
      BY <1>1, <2>4 DEF TypeOK
    <3>4. CASE Once(o) /\ d = Cardinality(marked[m])
      <4>1. Counted(u) \intersect marked[m] = marked[m]
        BY <3>2
      <4>2. Cardinality(Counted(u)') = Cardinality(Counted(u)) - d
        <5>1. IsFiniteSet(Counted(u))
          BY FiniteCounts
        <5>2. Cardinality(Counted(u) \ marked[m]) =
                Cardinality(Counted(u)) - Cardinality(Counted(u) \intersect marked[m])
          BY ONLY <5>1, FS_Difference
        <5> QED
          BY <3>2, <3>4, <4>1, <5>2
      <4>3. d <= counter[u]
        BY <2>2, <3>2, <3>4, FiniteCounts, FS_Subset
      <4>4. counter'[u] = counter[u] - d
        BY <1>3, <2>2, <3>3, <3>4, <4>3, ApplyDecrement
      <4> QED
        BY <2>2, <4>2, <4>4
    <3>5. CASE o = "refused" /\ marked[m] = {}
      <4>1. counter'[u] = counter[u]
        BY <1>3, <2>2, <3>3, <3>5, ApplyDecrement
      <4> QED
        BY <2>2, <3>2, <3>5, <4>1
    <3> QED
      BY <3>1, <3>4, <3>5
  <2> QED
    BY <2>3, <2>4
<1> QED
  BY <1>6, <1>7

(* The two ways out of step 3 that do not touch the counter.               *)
LEMMA QuietEndStep ==
    ASSUME IInv, NEW m \in Marks, SkipCounterUpdate(m) \/ CrashMark(m)
    PROVE  IInv'
<1> USE DEF IInv
<1>1. PICK pc \in {"done", "failed", "crashed"} : EndMark(m, pc)
  BY DEF SkipCounterUpdate, CrashMark
<1>2. /\ markPc[m] \in {"mark", "update"}
      /\ TaintIf(markPc[m] = "update" /\ marked[m] # {}, Reader[m])
      /\ faults' \in 0..MaxFaults
      /\ UNCHANGED <<counter, rows, unread, replica, shards, sendPc, marked,
                     recPc, recUser, actualCount, todo, clean, overwrites, granted>>
  BY ConstantsAssumption
     DEF SkipCounterUpdate, CrashMark, SpendFault, TaintIf, TypeOK, dbVars, sendVars, recVars
<1>3. TypeOK' /\ RowsWereSaved' /\ MarkedOnce' /\ LostInsertTaints' /\ CleanCounts'
  BY <1>1, <1>2, MarkEndsRest DEF TaintIf, TypeOK
<1>4. CounterExact'
  <2>1. ASSUME NEW u \in Users \ tainted' PROVE Counted(u)' = Counted(u)
    <3>1. u \notin tainted
      BY <1>2 DEF TaintIf
    <3>2. CASE markPc[m] = "update"
      <4>1. u = Reader[m] => marked[m] = {}
        BY <1>2, <3>2 DEF TaintIf
      <4>2. UNCHANGED <<rows, unread, sendPc, marked>>
        BY <1>2
      <4>3. u = Reader[m] => Counted(u)' = Counted(u) \ marked[m]
        BY ONLY IInv, <1>1, <3>1, <3>2, <4>2, MarkEnds, m \in Marks
      <4>4. u # Reader[m] => Counted(u)' = Counted(u)
        BY ONLY IInv, <1>1, <3>1, <3>2, <4>2, MarkEnds, m \in Marks
      <4> QED
        BY <4>1, <4>3, <4>4
    <3>3. CASE markPc[m] = "mark"
      <4>1. ASSUME NEW n \in Marks PROVE markPc'[n] = "update" <=> markPc[n] = "update"
        BY <1>1, <3>3 DEF EndMark, TypeOK
      <4> QED
        BY <1>2, <4>1 DEF Counted, InFlight, BeingMarked
    <3> QED
      BY <1>2, <3>2, <3>3
  <2> QED
    BY <1>2, <2>1, SameCounts DEF TaintIf
<1> QED
  BY <1>3, <1>4

-----------------------------------------------------------------------------
(* The steps of a reconciler.                                              *)

(* A reconciler that is not between its count and its write is not among   *)
(* those CleanCounts speaks of.                                            *)
LEMMA RoundStep ==
    ASSUME IInv, NEW r \in Reconcilers, NEW u \in Users,
           NEW pc \in {"idle", "loop", "count"},
           recPc' = [recPc EXCEPT ![r] = pc],
           recUser' \in {recUser, [recUser EXCEPT ![r] = u]},
           todo' \in [Reconcilers -> SUBSET (Users \X Nat)],
           faults' \in 0..MaxFaults,
           UNCHANGED <<counter, rows, unread, replica, shards, sendPc, markPc,
                       unreadCount, marked, actualCount, clean, tainted, overwrites, granted>>
    PROVE  IInv'
<1> USE DEF IInv
<1>1. recPc' \in [Reconcilers -> RecStates] /\ recUser' \in [Reconcilers -> Users]
  BY DEF TypeOK, RecStates
<1>2. TypeOK'
  BY <1>1 DEF TypeOK
<1>3. RowsWereSaved' /\ MarkedOnce' /\ LostInsertTaints'
  BY DEF RowsWereSaved, MarkedOnce, LostInsertTaints
<1>4. CleanCounts'
  <2> SUFFICES ASSUME NEW q \in clean, recPc'[q] \in {"get", "set"}
               PROVE  /\ Quiet(recUser[q])'
                      /\ actualCount[q] = Cardinality(SentTo(recUser'[q], unread))
    BY DEF CleanCounts
  <2>1. q # r /\ recPc[q] = recPc'[q] /\ recUser'[q] = recUser[q]
    BY DEF TypeOK
  <2>2. Quiet(recUser[q]) /\ actualCount[q] = Cardinality(SentTo(recUser[q], unread))
    BY <2>1 DEF CleanCounts
  <2>3. Quiet(recUser[q])' <=> Quiet(recUser[q])
    BY <2>1 DEF Quiet, InFlight
  <2> QED
    BY <2>1, <2>2, <2>3
<1>5. CounterExact'
  BY OutsideSagas, SameCounts
<1> QED
  BY <1>2, <1>3, <1>4, <1>5

LEMMA RequestReconcileStep ==
    ASSUME IInv, NEW r \in Reconcilers, NEW u \in Users, RequestReconcile(r, u)
    PROVE  IInv'
  BY RoundStep DEF IInv, TypeOK, RequestReconcile, dbVars, sendVars, markVars

LEMMA ListActiveUsersStep ==
    ASSUME IInv, NEW r \in Reconcilers, ListActiveUsers(r)
    PROVE  IInv'
<1>1. PICK p \in Replicas : todo' = [todo EXCEPT ![r] = {<<To[s], 0>> : s \in replica[p]}]
  BY DEF ListActiveUsers
<1>2. replica[p] \subseteq Sends
  BY DEF IInv, TypeOK
<1>3. {<<To[s], 0>> : s \in replica[p]} \subseteq Users \X Nat
  BY <1>2, ConstantsAssumption
<1>4. todo' \in [Reconcilers -> SUBSET (Users \X Nat)]
  BY <1>1, <1>3 DEF IInv, TypeOK
<1> QED
  BY <1>4, RoundStep, AnyUserType
     DEF IInv, TypeOK, ListActiveUsers, dbVars, sendVars, markVars

LEMMA ReconcileNextUserStep ==
    ASSUME IInv, NEW r \in Reconcilers, ReconcileNextUser(r)
    PROVE  IInv'
<1>1. PICK item \in todo[r] :
        /\ todo' = [todo EXCEPT ![r] = @ \ {item}]
        /\ recUser' = [recUser EXCEPT ![r] = item[1]]
  BY DEF ReconcileNextUser
<1>2. item[1] \in Users /\ todo' \in [Reconcilers -> SUBSET (Users \X Nat)]
  BY <1>1 DEF IInv, TypeOK
<1> QED
  BY <1>1, <1>2, RoundStep DEF IInv, TypeOK, ReconcileNextUser, dbVars, sendVars, markVars

LEMMA GroupRecentStep ==
    ASSUME IInv, NEW r \in Reconcilers, GroupRecentUnread(r)
    PROVE  IInv'
<1>1. PICK recent \in SUBSET unread :
        todo' = [todo EXCEPT ![r] =
                   {<<To[s], Cardinality(SentTo(To[s], recent))>> : s \in recent}]
  BY DEF GroupRecentUnread
<1>2. recent \in SUBSET Sends
  BY DEF IInv, TypeOK
<1>3. \A s \in recent : To[s] \in Users /\ Cardinality(SentTo(To[s], recent)) \in Nat
  BY <1>2, ConstantsAssumption, FiniteCounts
<1>4. todo' \in [Reconcilers -> SUBSET (Users \X Nat)]
  BY <1>1, <1>3 DEF IInv, TypeOK
<1> QED
  BY <1>4, RoundStep, AnyUserType
     DEF IInv, TypeOK, GroupRecentUnread, dbVars, sendVars, markVars

LEMMA CheckNextUserStep ==
    ASSUME IInv, NEW r \in Reconcilers, CheckNextUser(r)
    PROVE  IInv'
<1>1. PICK item \in todo[r] :
        /\ todo' = [todo EXCEPT ![r] = @ \ {item}]
        /\ \/ /\ recPc' = [recPc EXCEPT ![r] = "count"]
              /\ recUser' = [recUser EXCEPT ![r] = item[1]]
              /\ UNCHANGED faults
           \/ /\ SpendFault("refused") \/ UNCHANGED faults
              /\ recPc' = [recPc EXCEPT ![r] = IF todo[r] = {item} THEN "idle" ELSE "loop"]
              /\ UNCHANGED recUser
  BY DEF CheckNextUser
<1>2. item[1] \in Users /\ todo' \in [Reconcilers -> SUBSET (Users \X Nat)]
  BY <1>1 DEF IInv, TypeOK
<1>3. faults' \in 0..MaxFaults
  BY <1>1, ConstantsAssumption DEF SpendFault, IInv, TypeOK
<1>4. \E pc \in {"idle", "loop", "count"} : recPc' = [recPc EXCEPT ![r] = pc]
  BY <1>1
<1>5. recUser' \in {recUser, [recUser EXCEPT ![r] = item[1]]}
  BY <1>1
<1>6. UNCHANGED <<counter, rows, unread, replica, shards, sendPc, markPc,
                  unreadCount, marked, actualCount, clean, tainted, overwrites, granted>>
  BY DEF CheckNextUser, dbVars, sendVars, markVars
<1> QED
  BY <1>2, <1>3, <1>4, <1>5, <1>6, RoundStep

(* ReconcileCounter returns without having written anything.               *)
LEMMA ReturnStep ==
    ASSUME IInv, NEW r \in Reconcilers, ReturnFrom(r),
           faults' \in 0..MaxFaults, counter' \in [Users -> Nat],
           tainted' \subseteq Users, tainted \ {recUser[r]} \subseteq tainted',
           recUser[r] \notin tainted' =>
               /\ \A s \in rows : To[s] = recUser[r] => sendPc[s] # "compensate",
           UNCHANGED <<rows, unread, replica, shards, sendPc, markPc, unreadCount,
                       marked, todo, overwrites, granted>>
    PROVE  TypeOK' /\ RowsWereSaved' /\ MarkedOnce' /\ LostInsertTaints' /\ CleanCounts'
<1> USE DEF IInv
<1>1. /\ recPc' \in [Reconcilers -> RecStates]
      /\ recUser' \in [Reconcilers -> Users]
      /\ actualCount' \in [Reconcilers -> Nat]
      /\ clean' \subseteq Reconcilers
  BY AnyUserType DEF ReturnFrom, TypeOK, RecStates
<1>2. TypeOK'
  BY <1>1 DEF TypeOK
<1>3. RowsWereSaved' /\ MarkedOnce'
  BY DEF RowsWereSaved, MarkedOnce
<1>4. LostInsertTaints'
  BY DEF LostInsertTaints
<1>5. CleanCounts'
  <2> SUFFICES ASSUME NEW q \in clean', recPc'[q] \in {"get", "set"}
               PROVE  /\ Quiet(recUser[q])'
                      /\ actualCount'[q] = Cardinality(SentTo(recUser'[q], unread'))
    BY DEF CleanCounts
  <2>1. /\ q \in clean /\ recPc'[q] = recPc[q]
        /\ recUser'[q] = recUser[q] /\ actualCount'[q] = actualCount[q]
    BY DEF ReturnFrom, TypeOK
  <2> QED
    BY <2>1 DEF CleanCounts, Quiet, InFlight
<1> QED
  BY <1>2, <1>3, <1>4, <1>5

LEMMA CountActualStep ==
    ASSUME IInv, NEW r \in Reconcilers, CountActual(r)
    PROVE  IInv'
<1> USE DEF IInv
<1> DEFINE u == recUser[r]
           n == Cardinality(SentTo(u, unread))
<1>1. UNCHANGED <<counter, rows, unread, replica, shards, sendPc, markPc,
                  unreadCount, marked, todo, tainted, overwrites, granted>>
  BY DEF CountActual, dbVars, sendVars, markVars
<1>2. CounterExact'
  BY <1>1, OutsideSagas, SameCounts
<1>3. CASE /\ actualCount' = [actualCount EXCEPT ![r] = n]
           /\ clean' = IF Quiet(u) THEN clean \union {r} ELSE clean \ {r}
           /\ recPc' = [recPc EXCEPT ![r] = "get"]
           /\ UNCHANGED <<recUser, faults>>
  <2>1. n \in Nat
    BY FiniteCounts DEF TypeOK
  <2>2. TypeOK'
    <3>1. actualCount' \in [Reconcilers -> Nat]
      BY <1>3, <2>1 DEF TypeOK
    <3>2. recPc' \in [Reconcilers -> RecStates]
      BY <1>3 DEF TypeOK, RecStates
    <3>3. clean' \subseteq Reconcilers
      BY <1>3 DEF TypeOK
    <3> QED
      BY <1>1, <1>3, <3>1, <3>2, <3>3 DEF TypeOK
  <2>3. RowsWereSaved' /\ MarkedOnce' /\ LostInsertTaints'
    BY <1>1, OutsideSagas DEF LostInsertTaints
  <2>4. CleanCounts'
    <3> SUFFICES ASSUME NEW q \in clean', recPc'[q] \in {"get", "set"}
                 PROVE  /\ Quiet(recUser[q])'
                        /\ actualCount'[q] = Cardinality(SentTo(recUser'[q], unread'))
      BY DEF CleanCounts
    <3>1. \A x : Quiet(x)' <=> Quiet(x)
      BY <1>1 DEF Quiet, InFlight
    <3>2. recUser' = recUser /\ unread' = unread
      BY <1>1, <1>3
    <3>3. CASE q = r
      <4>1. Quiet(u) /\ actualCount'[q] = n
        BY <1>3, <3>3 DEF TypeOK
      <4>2. Quiet(recUser[q])'
        BY <1>1, <3>2, <3>3, <4>1 DEF Quiet, InFlight
      <4> QED
        BY <3>2, <3>3, <4>1, <4>2
    <3>4. CASE q # r
      <4>1. q \in clean /\ recPc[q] = recPc'[q] /\ actualCount'[q] = actualCount[q]
        BY <1>3, <3>4 DEF TypeOK
      <4> QED
        BY <1>1, <3>2, <4>1 DEF CleanCounts, Quiet, InFlight
    <3> QED
      BY <3>3, <3>4
  <2> QED
    BY <1>2, <2>2, <2>3, <2>4
<1>4. CASE SpendFault("refused") /\ ReturnFrom(r)
  <2>1. faults' \in 0..MaxFaults
    BY <1>4, ConstantsAssumption DEF SpendFault, TypeOK
  <2>2. tainted' \subseteq Users /\ counter' \in [Users -> Nat]
    BY <1>1 DEF TypeOK
  <2>3. TypeOK' /\ RowsWereSaved' /\ MarkedOnce' /\ LostInsertTaints' /\ CleanCounts'
    BY <1>1, <1>4, <2>1, <2>2, ReturnStep DEF LostInsertTaints
  <2> QED
    BY <1>2, <2>3
<1> QED
  BY <1>3, <1>4 DEF CountActual

(* A count that is still clean when it is compared or written is the       *)
(* number of messages counted.                                             *)
LEMMA CleanCountIsCounted ==
    ASSUME IInv, NEW r \in clean, recPc[r] \in {"get", "set"}
    PROVE  /\ actualCount[r] = Cardinality(Counted(recUser[r]))
           /\ \A s \in rows : To[s] = recUser[r] => sendPc[s] # "compensate"
<1> USE DEF IInv
<1>1. r \in Reconcilers /\ recUser[r] \in Users
  BY DEF TypeOK
<1>2. Quiet(recUser[r]) /\ actualCount[r] = Cardinality(SentTo(recUser[r], unread))
  BY DEF CleanCounts
<1>3. Counted(recUser[r]) = SentTo(recUser[r], unread)
  BY <1>1, <1>2, QuietCount
<1>4. \A s \in rows : To[s] = recUser[r] => sendPc[s] # "compensate"
  BY <1>2 DEF Quiet, InFlight, TypeOK
<1> QED
  BY <1>2, <1>3, <1>4

LEMMA CompareCounterStep ==
    ASSUME IInv, NEW r \in Reconcilers, CompareCounter(r)
    PROVE  IInv'
<1> USE DEF IInv
<1>1. /\ recPc[r] = "get"
      /\ UNCHANGED <<counter, rows, unread, replica, shards, sendPc, markPc,
                     unreadCount, marked, todo, overwrites, granted>>
  BY DEF CompareCounter, dbVars, sendVars, markVars
<1>2. \A u : Counted(u)' = Counted(u)
  BY <1>1, OutsideSagas
<1>3. CASE /\ counter[recUser[r]] = actualCount[r]
           /\ tainted' = IF r \in clean THEN tainted \ {recUser[r]} ELSE tainted
           /\ ReturnFrom(r)
           /\ UNCHANGED faults
  <2>1. tainted' \subseteq Users /\ counter' \in [Users -> Nat] /\ faults' \in 0..MaxFaults
    BY <1>1, <1>3 DEF TypeOK
  <2>2. recUser[r] \notin tainted' =>
            \A s \in rows : To[s] = recUser[r] => sendPc[s] # "compensate"
    BY <1>1, <1>3, CleanCountIsCounted DEF LostInsertTaints
  <2>3. tainted \ {recUser[r]} \subseteq tainted'
    BY <1>3
  <2>4. TypeOK' /\ RowsWereSaved' /\ MarkedOnce' /\ LostInsertTaints' /\ CleanCounts'
    BY <1>1, <1>3, <2>1, <2>2, <2>3, ReturnStep
  <2>5. CounterExact'
    BY <1>1, <1>2, <1>3, CleanCountIsCounted DEF CounterExact
  <2> QED
    BY <2>4, <2>5
<1>4. CASE /\ recPc' = [recPc EXCEPT ![r] = "set"]
           /\ UNCHANGED <<recUser, actualCount, clean, tainted, faults>>
  <2>1. TypeOK'
    <3>1. recPc' \in [Reconcilers -> RecStates]
      BY <1>4 DEF TypeOK, RecStates
    <3> QED
      BY <1>1, <1>4, <3>1 DEF TypeOK
  <2>2. RowsWereSaved' /\ MarkedOnce' /\ LostInsertTaints'
    BY <1>1, <1>4, OutsideSagas DEF LostInsertTaints
  <2>3. CleanCounts'
    BY <1>1, <1>4 DEF CleanCounts, Quiet, InFlight, TypeOK
  <2>4. CounterExact'
    BY <1>1, <1>2, <1>4, SameCounts
  <2> QED
    BY <2>1, <2>2, <2>3, <2>4
<1>5. CASE SpendFault("refused") /\ ReturnFrom(r) /\ UNCHANGED tainted
  <2>1. tainted' \subseteq Users /\ counter' \in [Users -> Nat] /\ faults' \in 0..MaxFaults
    BY <1>1, <1>5, ConstantsAssumption DEF SpendFault, TypeOK
  <2>2. TypeOK' /\ RowsWereSaved' /\ MarkedOnce' /\ LostInsertTaints' /\ CleanCounts'
    BY <1>1, <1>5, <2>1, ReturnStep DEF LostInsertTaints
  <2>3. CounterExact'
    BY <1>1, <1>2, <1>5, SameCounts
  <2> QED
    BY <2>2, <2>3
<1> QED
  BY <1>3, <1>4, <1>5 DEF CompareCounter

LEMMA SetCounterValueStep ==
    ASSUME IInv, NEW r \in Reconcilers, SetCounterValue(r)
    PROVE  IInv'
<1> USE DEF IInv
<1> DEFINE u == recUser[r]
<1>1. PICK o \in Outcomes :
        /\ SpendFault(o)
        /\ IF o = "refused" THEN UNCHANGED <<counter, tainted>>
           ELSE /\ counter' = [counter EXCEPT ![u] = actualCount[r]]
                /\ tainted' = IF r \in clean THEN tainted \ {u} ELSE tainted \union {u}
  BY DEF SetCounterValue
<1>2. /\ recPc[r] = "set"
      /\ ReturnFrom(r)
      /\ UNCHANGED <<rows, unread, replica, shards, sendPc, markPc, unreadCount,
                     marked, todo, overwrites, granted>>
  BY DEF SetCounterValue, dbVars, sendVars, markVars
<1>3. u \in Users /\ actualCount[r] \in Nat
  BY DEF TypeOK
<1>4. tainted' \subseteq Users /\ counter' \in [Users -> Nat]
  BY <1>1, <1>3 DEF TypeOK
<1>5. faults' \in 0..MaxFaults
  BY <1>1, ConstantsAssumption DEF SpendFault, TypeOK
<1>6. tainted \ {u} \subseteq tainted'
  BY <1>1
<1>7. u \notin tainted' => \A s \in rows : To[s] = u => sendPc[s] # "compensate"
  BY <1>1, <1>2, CleanCountIsCounted DEF LostInsertTaints
<1>8. TypeOK' /\ RowsWereSaved' /\ MarkedOnce' /\ LostInsertTaints' /\ CleanCounts'
  BY <1>2, <1>4, <1>5, <1>6, <1>7, ReturnStep
<1>9. CounterExact'
  <2>1. \A v : Counted(v)' = Counted(v)
    BY <1>2, OutsideSagas
  <2>2. CASE o = "refused"
    BY <1>1, <2>1, <2>2, SameCounts
  <2>3. CASE o # "refused"
    <3> SUFFICES ASSUME NEW v \in Users, v \notin tainted'
                 PROVE  counter'[v] = Cardinality(Counted(v))
      BY <2>1 DEF CounterExact
    <3>1. CASE v = u
      <4>1. r \in clean
        BY <1>1, <2>3, <3>1
      <4> QED
        BY <1>1, <1>2, <1>3, <2>3, <3>1, <4>1, CleanCountIsCounted DEF TypeOK
    <3>2. CASE v # u
      BY <1>1, <2>3, <3>2 DEF CounterExact, TypeOK
    <3> QED
      BY <3>1, <3>2
  <2> QED
    BY <2>2, <2>3
<1> QED
  BY <1>8, <1>9

-----------------------------------------------------------------------------
(* The steps outside of the sagas and the reconcilers.                     *)
LEMMA ClearCounterStep ==
    ASSUME IInv, NEW u \in Users, ClearCounter(u)
    PROVE  IInv'
<1> USE DEF IInv
<1>1. /\ counter' = [counter EXCEPT ![u] = 0]
      /\ TaintIf(Counted(u) # {}, u)
      /\ overwrites' \in 0..MaxOverwrites
      /\ UNCHANGED <<rows, unread, replica, shards, sendPc, markPc, unreadCount,
                     marked, recPc, recUser, actualCount, todo, clean, faults,
                     granted>>
  BY ConstantsAssumption
     DEF ClearCounter, SpendOverwrite, TypeOK, dbVars, sendVars, markVars, recVars
<1>2. TypeOK'
  BY <1>1 DEF TaintIf, TypeOK
<1>3. RowsWereSaved' /\ MarkedOnce' /\ LostInsertTaints'
  BY <1>1, OutsideSagas DEF LostInsertTaints, TaintIf
<1>4. CleanCounts'
  BY <1>1 DEF CleanCounts, Quiet, InFlight
<1>5. CounterExact'
  <2> SUFFICES ASSUME NEW v \in Users, v \notin tainted'
               PROVE  counter'[v] = Cardinality(Counted(v))
    BY <1>1, OutsideSagas DEF CounterExact
  <2>1. CASE v = u
    BY <1>1, <2>1, FS_EmptySet DEF TaintIf, TypeOK
  <2>2. CASE v # u
    BY <1>1, <2>2 DEF CounterExact, TaintIf, TypeOK
  <2> QED
    BY <2>1, <2>2
<1> QED
  BY <1>2, <1>3, <1>4, <1>5

LEMMA ManualIncrementStep ==
    ASSUME IInv, NEW u \in Users, NEW delta \in ManualDeltas, ManualIncrement(u, delta)
    PROVE  /\ IInv'
           /\ \A v \in Users : /\ granted'[v] >= granted[v]
                               /\ counter'[v] + granted[v] <= counter[v] + granted'[v]
<1> USE DEF IInv
<1>0. PICK o \in Outcomes :
        /\ SpendFault(o)
        /\ counter' = [counter EXCEPT ![u] = Apply(@, delta, o)]
        /\ granted' = [granted EXCEPT ![u] = @ + Executions(o) * Gain(delta)]
        /\ TaintIf(o # "refused", u)
  BY DEF ManualIncrement
<1>1. /\ tainted \subseteq tainted' /\ tainted' \subseteq Users
      /\ u \in tainted' \/ o = "refused"
      /\ overwrites' \in 0..MaxOverwrites
      /\ faults' \in 0..MaxFaults
      /\ UNCHANGED <<rows, unread, replica, shards, sendPc, markPc, unreadCount,
                     marked, recPc, recUser, actualCount, todo, clean>>
  BY <1>0, ConstantsAssumption
     DEF ManualIncrement, SpendOverwrite, SpendFault, TaintIf, TypeOK, dbVars, sendVars,
         markVars, recVars
<1>6. /\ counter \in [Users -> Nat] /\ granted \in [Users -> Nat]
      /\ counter[u] \in Nat /\ granted[u] \in Nat /\ delta \in Int
  BY ConstantsAssumption DEF TypeOK
<1>7. PICK g \in Nat : g = Executions(o) * Gain(delta)
  BY <1>6, ApplyGain
<1>8. PICK c \in Nat : c = Apply(counter[u], delta, o) /\ c <= counter[u] + g
  BY <1>6, <1>7, ApplyGain
<1>9. /\ counter' = [counter EXCEPT ![u] = c]
      /\ granted' = [granted EXCEPT ![u] = granted[u] + g]
  BY <1>0, <1>7, <1>8
<1>10. ASSUME NEW v \in Users
       PROVE  /\ granted'[v] >= granted[v]
              /\ counter'[v] + granted[v] <= counter[v] + granted'[v]
  <2>1. CASE v = u
    <3>1. counter'[v] = c /\ granted'[v] = granted[u] + g
      BY <1>6, <1>9, <2>1
    <3> QED
      BY <1>6, <1>8, <2>1, <3>1
  <2>2. CASE v # u
    <3>1. /\ counter'[v] = counter[v] /\ granted'[v] = granted[v]
          /\ counter[v] \in Nat /\ granted[v] \in Nat
      BY <1>6, <1>9, <2>2
    <3> QED
      BY <3>1
  <2> QED
    BY <2>1, <2>2
<1>2. TypeOK'
  <2>1. counter' \in [Users -> Nat] /\ granted' \in [Users -> Nat]
    BY <1>6, <1>9
  <2> QED
    BY <1>1, <2>1 DEF TypeOK
<1>3. RowsWereSaved' /\ MarkedOnce' /\ LostInsertTaints'
  BY <1>1, OutsideSagas DEF LostInsertTaints
<1>4. CleanCounts'
  BY <1>1 DEF CleanCounts, Quiet, InFlight
<1>5. CounterExact'
  <2> SUFFICES ASSUME NEW v \in Users, v \notin tainted'
               PROVE  counter'[v] = Cardinality(Counted(v))
    BY <1>1, OutsideSagas DEF CounterExact
  <2>1. counter'[v] = counter[v]
    <3>1. v = u => o = "refused"
      BY <1>1
    <3>2. o = "refused" => c = counter[u]
      BY <1>8 DEF Apply
    <3> QED
      BY <1>6, <1>9, <3>1, <3>2
  <2> QED
    BY <1>1, <2>1 DEF CounterExact
<1> QED
  BY <1>2, <1>3, <1>4, <1>5, <1>10

LEMMA ReplicateStep ==
    ASSUME IInv, NEW p \in Replicas, Replicate(p)
    PROVE  IInv'
<1> USE DEF IInv
<1>1. /\ replica' = [replica EXCEPT ![p] = unread]
      /\ UNCHANGED <<counter, rows, unread, shards, sendPc, markPc, unreadCount,
                     marked, recPc, recUser, actualCount, todo, clean, tainted,
                     faults, overwrites, granted>>
  BY DEF Replicate, dbVars, sendVars, markVars, recVars
<1>2. TypeOK'
  <2>1. replica' \in [Replicas -> SUBSET Sends]
    BY <1>1 DEF TypeOK
  <2> QED
    BY <1>1, <2>1 DEF TypeOK
<1>3. RowsWereSaved' /\ MarkedOnce' /\ LostInsertTaints'
  BY <1>1, OutsideSagas DEF LostInsertTaints
<1>4. CleanCounts'
  BY <1>1 DEF CleanCounts, Quiet, InFlight
<1>5. CounterExact'
  BY <1>1, OutsideSagas, SameCounts
<1> QED
  BY <1>2, <1>3, <1>4, <1>5

LEMMA StutterStep ==
    ASSUME IInv, UNCHANGED vars
    PROVE  IInv'
<1> USE DEF IInv, vars, dbVars, sendVars, markVars, recVars
<1>1. TypeOK'
  BY DEF TypeOK
<1>2. RowsWereSaved' /\ MarkedOnce' /\ LostInsertTaints'
  BY OutsideSagas DEF LostInsertTaints
<1>3. CleanCounts'
  BY DEF CleanCounts, Quiet, InFlight
<1>4. CounterExact'
  BY OutsideSagas, SameCounts
<1> QED
  BY <1>1, <1>2, <1>3, <1>4

-----------------------------------------------------------------------------
LEMMA NextIInv == IInv /\ [Next]_vars => IInv'
<1> SUFFICES ASSUME IInv, [Next]_vars PROVE IInv'
  OBVIOUS
<1>1. ASSUME NEW s \in Sends, Send(s) PROVE IInv'
  BY <1>1, IncrementStep, SaveMessagePanicsStep, SaveMessageToDbStep,
     CompensateStep, InsertIntoShardStep, CrashSendStep DEF Send
<1>2. ASSUME NEW m \in Marks, Mark(m) PROVE IInv'
  BY <1>2, CountUnreadStep, MarkMessagesStep, UpdateCounterStep, QuietEndStep DEF Mark
<1>3. ASSUME NEW r \in Reconcilers, Reconcile(r) PROVE IInv'
  BY <1>3, CountActualStep, CompareCounterStep, SetCounterValueStep DEF Reconcile
<1>4. ASSUME NEW r \in FullWorkers, FullReconciliation(r) PROVE IInv'
  <2>1. r \in Reconcilers
    BY DEF Reconcilers
  <2> QED
    BY <1>3, <1>4, <2>1, ListActiveUsersStep, ReconcileNextUserStep DEF FullReconciliation
<1>5. ASSUME NEW c \in Checkers, ConsistencyCheck(c) PROVE IInv'
  <2>1. c \in Reconcilers
    BY DEF Reconcilers
  <2> QED
    BY <1>3, <1>5, <2>1, GroupRecentStep, CheckNextUserStep DEF ConsistencyCheck
<1>6. ASSUME NEW r \in Requests, ServeReconcile(r) PROVE IInv'
  <2>1. r \in Reconcilers
    BY DEF Reconcilers
  <2> QED
    BY <1>3, <1>6, <2>1, RequestReconcileStep DEF ServeReconcile
<1>7. ASSUME NEW u \in Users, ClearCounter(u) PROVE IInv'
  BY <1>7, ClearCounterStep
<1>8. ASSUME NEW u \in Users, NEW delta \in ManualDeltas, ManualIncrement(u, delta) PROVE IInv'
  BY <1>8, ManualIncrementStep
<1>9. ASSUME NEW p \in Replicas, Replicate(p) PROVE IInv'
  BY <1>9, ReplicateStep
<1>10. CASE UNCHANGED vars
  BY <1>10, StutterStep
<1> QED
  BY <1>1, <1>2, <1>4, <1>5, <1>6, <1>7, <1>8, <1>9, <1>10 DEF Next

(* The strengthened invariant holds in every state of every behaviour.     *)
THEOREM Inductive == Spec => []IInv
  BY InitIInv, NextIInv, PTL DEF Spec

(* Every variable has its type.                                            *)
THEOREM SagaTypeCorrect == Spec => []TypeOK
<1>1. IInv => TypeOK
  BY DEF IInv
<1> QED
  BY <1>1, Inductive, PTL

(* A counter nothing is known to have broken is the number of messages     *)
(* counted, however many sends, marks, reconcilers, crashes and failed     *)
(* calls there are.                                                        *)
THEOREM CounterIsExact == Spec => []CounterExact
<1>1. IInv => CounterExact
  BY DEF IInv
<1> QED
  BY <1>1, Inductive, PTL

-----------------------------------------------------------------------------
(* The bound of the badge.                                                 *)

(* A send that has begun stays so, and failures and manual increments add  *)
(* up.                                                                     *)
Onward ==
    /\ \A s \in Sends : sendPc[s] # "idle" => sendPc'[s] # "idle"
    /\ faults' >= faults
    /\ \A u \in Users : granted'[u] >= granted[u]

LEMMA StepsAreOnward ==
    ASSUME IInv, [Next]_vars
    PROVE  Onward
<1> USE DEF IInv
<1>1. \A o : SpendFault(o) => faults' >= faults
  BY ConstantsAssumption DEF SpendFault, TypeOK
<1>2. UNCHANGED faults => faults' >= faults
  BY ConstantsAssumption DEF TypeOK
<1>3. UNCHANGED granted => \A u \in Users : granted'[u] >= granted[u]
  BY DEF TypeOK
<1>5. ASSUME NEW s \in Sends, Send(s) PROVE Onward
  <2>1. faults' >= faults /\ \A u \in Users : granted'[u] >= granted[u]
    BY <1>1, <1>2, <1>3, <1>5
       DEF Send, IncrementUnreadCounter, SaveMessagePanics, SaveMessageToDb,
           CompensateIncrement, InsertIntoShard, CrashSend
  <2>2. \E pc \in SendStates \ {"idle"} : sendPc' = [sendPc EXCEPT ![s] = pc]
    BY <1>5
       DEF Send, IncrementUnreadCounter, SaveMessagePanics, SaveMessageToDb,
           CompensateIncrement, InsertIntoShard, CrashSend, SendStates
  <2> QED
    BY <2>1, <2>2 DEF Onward, TypeOK
<1>6. ASSUME UNCHANGED <<sendPc, granted>>,
             UNCHANGED faults \/ \E o : SpendFault(o)
      PROVE  Onward
  BY <1>1, <1>2, <1>3, <1>6 DEF Onward
<1>7. ASSUME NEW m \in Marks, Mark(m) PROVE Onward
  BY <1>6, <1>7 DEF Mark, CountUnreadMessages, MarkMessagesAsRead, UpdateCounter,
     SkipCounterUpdate, CrashMark, sendVars
<1>8. ASSUME NEW r \in Reconcilers, Reconcile(r) PROVE Onward
  BY <1>6, <1>8 DEF Reconcile, CountActual, CompareCounter, SetCounterValue, sendVars
<1>9. ASSUME NEW r, ListActiveUsers(r) \/ ReconcileNextUser(r) \/ GroupRecentUnread(r)
                    \/ CheckNextUser(r) \/ \E u \in Users : RequestReconcile(r, u)
      PROVE  Onward
  BY <1>6, <1>9 DEF ListActiveUsers, ReconcileNextUser, GroupRecentUnread,
     CheckNextUser, RequestReconcile, sendVars
<1>10. ASSUME NEW p \in Replicas, Replicate(p) PROVE Onward
  BY <1>6, <1>10 DEF Replicate, sendVars
<1>11. ASSUME NEW u \in Users,
              ClearCounter(u) \/ \E delta \in ManualDeltas : ManualIncrement(u, delta)
       PROVE  Onward
  <2>1. ASSUME NEW delta \in ManualDeltas, ManualIncrement(u, delta)
        PROVE  Onward
    <3>1. sendPc' = sendPc /\ faults' >= faults
      BY <1>1, <2>1 DEF ManualIncrement, sendVars
    <3> QED
      BY <2>1, <3>1, ManualIncrementStep DEF Onward
  <2>2. ASSUME ClearCounter(u) PROVE Onward
    BY <1>6, <2>2 DEF ClearCounter, sendVars
  <2> QED
    BY <1>11, <2>1, <2>2
<1>12. CASE UNCHANGED vars
  BY <1>6, <1>12 DEF vars, sendVars
<1> QED
  BY <1>5, <1>7, <1>8, <1>9, <1>10, <1>11, <1>12
     DEF Next, FullReconciliation, ConsistencyCheck, ServeReconcile, Reconcilers

(* So the number of sends begun does not shrink.                           *)
LEMMA StartedGrows ==
    ASSUME IInv, [Next]_vars, NEW u
    PROVE  /\ Started(u) \subseteq Started(u)'
           /\ Cardinality(Started(u)) <= Cardinality(Started(u)')
           /\ Cardinality(Started(u)) \in Nat
           /\ Cardinality(Started(u)') \in Nat
<1>1. Started(u) \subseteq Started(u)' /\ Started(u)' \in SUBSET Sends
  BY StepsAreOnward DEF Started, Onward
<1>2. IsFiniteSet(Started(u)') /\ Cardinality(Started(u)') \in Nat
  BY <1>1, FiniteCounts
<1> QED
  BY <1>1, <1>2, FiniteCounts, FS_Subset

(* A step after which a reconciler holds a count either took it or found   *)
(* it there.                                                               *)
LEMMA CountsStay ==
    ASSUME IInv, [Next]_vars, NEW r \in Reconcilers, recPc'[r] \in {"get", "set"},
           ~CountActual(r)
    PROVE  /\ recPc[r] \in {"get", "set"}
           /\ recUser'[r] = recUser[r] /\ actualCount'[r] = actualCount[r]
<1> USE DEF IInv
<1>1. ASSUME UNCHANGED recVars PROVE recPc'[r] = recPc[r] /\ recUser'[r] = recUser[r]
                                     /\ actualCount'[r] = actualCount[r]
  BY <1>1 DEF recVars
<1>2. ASSUME NEW q \in Reconcilers, Reconcile(q)
      PROVE  /\ recPc[r] \in {"get", "set"}
             /\ recUser'[r] = recUser[r] /\ actualCount'[r] = actualCount[r]
  <2>1. CASE q = r
    BY <1>2, <2>1 DEF Reconcile, CompareCounter, SetCounterValue, ReturnFrom, TypeOK
  <2>2. CASE q # r
    BY <1>2, <2>2 DEF Reconcile, CountActual, CompareCounter, SetCounterValue,
       ReturnFrom, TypeOK
  <2> QED
    BY <2>1, <2>2
<1>3. ASSUME NEW q \in Reconcilers,
             ListActiveUsers(q) \/ ReconcileNextUser(q) \/ GroupRecentUnread(q)
                 \/ CheckNextUser(q) \/ \E u \in Users : RequestReconcile(q, u)
      PROVE  /\ recPc[r] \in {"get", "set"}
             /\ recUser'[r] = recUser[r] /\ actualCount'[r] = actualCount[r]
  <2>1. \E pc \in {"idle", "loop", "count"} : recPc' = [recPc EXCEPT ![q] = pc]
    BY <1>3 DEF ListActiveUsers, ReconcileNextUser, GroupRecentUnread, CheckNextUser,
       RequestReconcile
  <2>2. q # r
    BY <2>1 DEF TypeOK
  <2>3. recPc'[r] = recPc[r]
    BY <2>1, <2>2 DEF TypeOK
  <2>4. recUser'[r] = recUser[r] /\ actualCount'[r] = actualCount[r]
    BY <1>3, <2>2 DEF ListActiveUsers, ReconcileNextUser, GroupRecentUnread, CheckNextUser,
       RequestReconcile, TypeOK
  <2> QED
    BY <2>3, <2>4
<1>4. ASSUME NEW s \in Sends, Send(s) PROVE UNCHANGED recVars
  BY <1>4 DEF Send, IncrementUnreadCounter, SaveMessagePanics, SaveMessageToDb,
     CompensateIncrement, InsertIntoShard, CrashSend
<1>5. ASSUME NEW m \in Marks, Mark(m) PROVE UNCHANGED recVars
  BY <1>5 DEF Mark, CountUnreadMessages, MarkMessagesAsRead, UpdateCounter,
     SkipCounterUpdate, CrashMark
<1>6. ASSUME (\E u \in Users : ClearCounter(u) \/ \E d \in ManualDeltas : ManualIncrement(u, d))
                 \/ (\E p \in Replicas : Replicate(p)) \/ UNCHANGED vars
      PROVE  UNCHANGED recVars
  BY <1>6 DEF ClearCounter, ManualIncrement, Replicate, vars
<1> QED
  BY <1>1, <1>2, <1>3, <1>4, <1>5, <1>6
     DEF Next, FullReconciliation, ConsistencyCheck, ServeReconcile, Reconcilers

LEMMA CountsBoundedStep ==
    ASSUME IInv, CountsBounded, [Next]_vars
    PROVE  CountsBounded'
<1> SUFFICES ASSUME NEW r \in Reconcilers, recPc'[r] \in {"get", "set"}
             PROVE  actualCount'[r] <= Cardinality(Started(recUser[r])')
  BY DEF CountsBounded
<1> USE DEF IInv
<1>1. CASE CountActual(r)
  <2>1. PICK u \in Users : u = recUser[r]
    BY DEF TypeOK
  <2>2. /\ actualCount'[r] = Cardinality(SentTo(u, unread))
        /\ recUser' = recUser
    BY <1>1, <2>1 DEF CountActual, ReturnFrom, TypeOK
  <2>3. SentTo(u, unread) \subseteq Started(u)
    BY DEF SentTo, Started, RowsWereSaved, TypeOK
  <2>4. /\ Cardinality(SentTo(u, unread)) <= Cardinality(Started(u))
        /\ Cardinality(SentTo(u, unread)) \in Nat
    BY <2>3, FiniteCounts, FS_Subset DEF TypeOK
  <2>5. /\ Cardinality(Started(u)) <= Cardinality(Started(u)')
        /\ Cardinality(Started(u)) \in Nat /\ Cardinality(Started(u)') \in Nat
    BY StartedGrows
  <2>6. Started(recUser[r])' = Started(u)'
    BY <2>1, <2>2 DEF Started
  <2> QED
    BY <2>2, <2>4, <2>5, <2>6
<1>2. CASE ~CountActual(r)
  <2>1. /\ recPc[r] \in {"get", "set"}
        /\ recUser'[r] = recUser[r] /\ actualCount'[r] = actualCount[r]
    BY <1>2, CountsStay
  <2>2. PICK u \in Users : u = recUser[r]
    BY DEF TypeOK
  <2>3. actualCount[r] <= Cardinality(Started(u)) /\ actualCount[r] \in Nat
    BY <2>1, <2>2 DEF CountsBounded, TypeOK
  <2>4. Started(recUser[r])' = Started(u)'
    BY <2>1, <2>2 DEF Started
  <2> QED
    BY <2>1, <2>3, <2>4, StartedGrows
<1> QED
  BY <1>1, <1>2

(* Where a counter can grow: an increment, a write of a reconciler, and a  *)
(* manual increment.                                                       *)
LEMMA CounterGrowth ==
    ASSUME IInv, [Next]_vars, NEW u \in Users
    PROVE  \/ \E s \in Sends : IncrementUnreadCounter(s)
           \/ \E r \in Reconcilers : SetCounterValue(r)
           \/ counter'[u] <= counter[u]
           \/ counter'[u] + granted[u] <= counter[u] + granted'[u]
<1> USE DEF IInv
<1>1. counter[u] \in Nat /\ (UNCHANGED counter => counter'[u] <= counter[u])
  BY DEF TypeOK
<1>2. ASSUME NEW s \in Sends, CompensateIncrement(s) PROVE counter'[u] <= counter[u]
  <2>1. PICK o \in Outcomes : counter' = [counter EXCEPT ![To[s]] = Apply(@, -1, o)]
    BY <1>2 DEF CompensateIncrement
  <2>2. Apply(counter[u], -1, o) <= counter[u]
    BY <1>1, ApplyDecrement
  <2> QED
    BY <1>1, <2>1, <2>2 DEF TypeOK
<1>3. ASSUME NEW m \in Marks, UpdateCounter(m) PROVE counter'[u] <= counter[u]
  <2>1. PICK o \in Outcomes :
          counter' = [counter EXCEPT ![Reader[m]] = Apply(@, -unreadCount[m], o)]
    BY <1>3 DEF UpdateCounter
  <2>2. Apply(counter[u], -unreadCount[m], o) <= counter[u]
    BY <1>1, ApplyDecrement DEF TypeOK
  <2> QED
    BY <1>1, <2>1, <2>2 DEF TypeOK
<1>4. ASSUME NEW v \in Users, ClearCounter(v) PROVE counter'[u] <= counter[u]
  BY <1>1, <1>4 DEF ClearCounter, TypeOK
<1>5. ASSUME NEW v \in Users, NEW d \in ManualDeltas, ManualIncrement(v, d)
      PROVE  counter'[u] + granted[u] <= counter[u] + granted'[u]
  BY <1>5, ManualIncrementStep
<1>6. ASSUME NEW s \in Sends, Send(s)
      PROVE  IncrementUnreadCounter(s) \/ CompensateIncrement(s) \/ UNCHANGED counter
  BY <1>6 DEF Send, SaveMessagePanics, SaveMessageToDb, InsertIntoShard, CrashSend
<1>7. ASSUME NEW m \in Marks, Mark(m) PROVE UpdateCounter(m) \/ UNCHANGED counter
  BY <1>7 DEF Mark, CountUnreadMessages, MarkMessagesAsRead, SkipCounterUpdate, CrashMark
<1>8. ASSUME NEW r \in Reconcilers,
             FullReconciliation(r) \/ ConsistencyCheck(r) \/ ServeReconcile(r)
      PROVE  SetCounterValue(r) \/ UNCHANGED counter
  BY <1>8 DEF FullReconciliation, ConsistencyCheck, ServeReconcile, Reconcile,
     ListActiveUsers, ReconcileNextUser, GroupRecentUnread, CheckNextUser,
     RequestReconcile, CountActual, CompareCounter
<1>9. (\E p \in Replicas : Replicate(p)) \/ UNCHANGED vars => UNCHANGED counter
  BY DEF Replicate, vars
<1> QED
  BY <1>1, <1>2, <1>3, <1>4, <1>5, <1>6, <1>7, <1>8, <1>9 DEF Next, Reconcilers

LEMMA BadgeStep ==
    ASSUME IInv, CountsBounded, BadgeBounded, [Next]_vars
    PROVE  BadgeBounded'
<1> SUFFICES ASSUME NEW u \in Users
             PROVE  counter'[u] <= Cardinality(Started(u)') + faults' + granted'[u]
  BY DEF BadgeBounded
<1> USE DEF IInv
<1> DEFINE n  == Cardinality(Started(u))
           nn == Cardinality(Started(u)')
<1>1. n \in Nat /\ nn \in Nat /\ n <= nn
  BY StartedGrows
<1>2. /\ faults \in Nat /\ faults' \in Nat /\ faults <= faults'
      /\ granted[u] \in Nat /\ granted'[u] \in Nat /\ granted[u] <= granted'[u]
  BY StepsAreOnward, NextIInv, ConstantsAssumption DEF Onward, TypeOK
<1>3. counter[u] <= n + faults + granted[u] /\ counter[u] \in Nat
  BY DEF BadgeBounded, TypeOK
<1> HIDE DEF n, nn
<1>4. CASE counter'[u] <= counter[u]
  <2>1. counter'[u] \in Nat
    BY NextIInv DEF TypeOK
  <2> QED
    BY <1>1, <1>2, <1>3, <1>4, <2>1 DEF n, nn
<1>5. CASE counter'[u] + granted[u] <= counter[u] + granted'[u]
  <2>1. counter'[u] \in Nat
    BY NextIInv DEF TypeOK
  <2> QED
    BY <1>1, <1>2, <1>3, <1>5, <2>1 DEF n, nn
<1>6. ASSUME NEW s \in Sends, IncrementUnreadCounter(s)
      PROVE  counter'[u] <= nn + faults' + granted'[u]
  <2>1. PICK o \in Outcomes :
          /\ SpendFault(o)
          /\ counter' = [counter EXCEPT ![To[s]] = Apply(@, 1, o)]
          /\ sendPc' = [sendPc EXCEPT ![s] = IF Failed(o) THEN "failed" ELSE "save"]
    BY <1>6 DEF IncrementUnreadCounter
  <2>2. CASE u # To[s]
    BY <1>1, <1>2, <1>3, <2>1, <2>2 DEF TypeOK
  <2>3. CASE u = To[s]
    <3>1. Started(u)' = Started(u) \union {s} /\ s \notin Started(u)
      BY <1>6, <2>1, <2>3 DEF Started, IncrementUnreadCounter, TypeOK
    <3>2. nn = n + 1
      BY <3>1, FiniteCounts, FS_AddElement DEF n, nn
    <3>3. counter'[u] = Apply(counter[u], 1, o)
      BY <2>1, <2>3 DEF TypeOK
    <3>4. Apply(counter[u], 1, o) <= counter[u] + 2
          /\ (o # "resent" => Apply(counter[u], 1, o) <= counter[u] + 1)
          /\ Apply(counter[u], 1, o) \in Nat
      BY <1>3, ApplyIncrement, ApplyType
    <3>5. o = "resent" => faults' = faults + 1
      BY <2>1 DEF SpendFault
    <3> QED
      BY <1>1, <1>2, <1>3, <3>2, <3>3, <3>4, <3>5
  <2> QED
    BY <2>2, <2>3
<1>7. ASSUME NEW r \in Reconcilers, SetCounterValue(r)
      PROVE  counter'[u] <= nn + faults' + granted'[u]
  <2>1. counter' \in {counter, [counter EXCEPT ![recUser[r]] = actualCount[r]]}
    BY <1>7 DEF SetCounterValue
  <2>2. CASE counter'[u] = counter[u]
    BY <1>1, <1>2, <1>3, <2>2
  <2>3. CASE u = recUser[r] /\ counter'[u] = actualCount[r]
    <3>1. actualCount[r] <= n /\ actualCount[r] \in Nat
      BY <1>7, <2>3 DEF SetCounterValue, CountsBounded, TypeOK, n
    <3> QED
      BY <1>1, <1>2, <2>3, <3>1
  <2> QED
    BY <2>1, <2>2, <2>3 DEF TypeOK
<1> QED
  BY <1>4, <1>5, <1>6, <1>7, CounterGrowth DEF nn

(* The badge never shows more messages than were sent to the user, but for *)
(* one per failed call and what manual increments of any size added for    *)
(* that user, and added for no other.                                      *)
THEOREM BadgeIsBounded == Spec => []BadgeBounded
<1>1. Init => CountsBounded /\ BadgeBounded
  <2> SUFFICES ASSUME Init PROVE CountsBounded /\ BadgeBounded
    OBVIOUS
  <2>1. CountsBounded
    BY DEF Init, CountsBounded
  <2>2. BadgeBounded
    BY FiniteCounts DEF Init, BadgeBounded
  <2> QED
    BY <2>1, <2>2
<1>2. IInv /\ CountsBounded /\ BadgeBounded /\ [Next]_vars
          => CountsBounded' /\ BadgeBounded'
  BY CountsBoundedStep, BadgeStep
<1> QED
  BY <1>1, <1>2, Inductive, PTL DEF Spec

-----------------------------------------------------------------------------
(* What a send has written when it gets as far.                            *)
WrittenSoFar ==
    \A s \in Sends :
        /\ sendPc[s] \in {"shard", "done"} => s \in rows
        /\ sendPc[s] = "done" => s \in shards

LEMMA WrittenStep ==
    ASSUME IInv, WrittenSoFar, [Next]_vars
    PROVE  WrittenSoFar'
<1> USE DEF IInv
<1>1. ASSUME UNCHANGED <<rows, shards, sendPc>> PROVE WrittenSoFar'
  BY <1>1 DEF WrittenSoFar
<1>2. ASSUME NEW s \in Sends, Send(s) PROVE WrittenSoFar'
  <2> USE <1>2 DEF WrittenSoFar, TypeOK
  <2>1. CASE IncrementUnreadCounter(s)
    BY <2>1 DEF IncrementUnreadCounter, dbVars
  <2>2. CASE SaveMessageToDb(s)
    BY <2>2 DEF SaveMessageToDb, dbVars
  <2>3. CASE InsertIntoShard(s)
    BY <2>3 DEF InsertIntoShard, dbVars
  <2>4. CASE SaveMessagePanics(s) \/ CompensateIncrement(s) \/ CrashSend(s)
    BY <2>4 DEF SaveMessagePanics, CompensateIncrement, CrashSend, dbVars
  <2> QED
    BY <2>1, <2>2, <2>3, <2>4 DEF Send
<1>3. ASSUME NEW m \in Marks, Mark(m) PROVE UNCHANGED <<rows, shards, sendPc>>
  BY <1>3 DEF Mark, CountUnreadMessages, MarkMessagesAsRead, UpdateCounter,
     SkipCounterUpdate, CrashMark, dbVars, sendVars
<1>4. ASSUME NEW r \in Reconcilers,
             FullReconciliation(r) \/ ConsistencyCheck(r) \/ ServeReconcile(r)
      PROVE  UNCHANGED <<rows, shards, sendPc>>
  BY <1>4 DEF FullReconciliation, ConsistencyCheck, ServeReconcile, Reconcile,
     ListActiveUsers, ReconcileNextUser, GroupRecentUnread, CheckNextUser,
     RequestReconcile, CountActual, CompareCounter, SetCounterValue, dbVars, sendVars
<1>5. ASSUME (\E u \in Users : ClearCounter(u) \/ \E d \in ManualDeltas : ManualIncrement(u, d))
                 \/ (\E p \in Replicas : Replicate(p)) \/ UNCHANGED vars
      PROVE  UNCHANGED <<rows, shards, sendPc>>
  BY <1>5 DEF ClearCounter, ManualIncrement, Replicate, vars, dbVars, sendVars
<1> QED
  BY <1>1, <1>2, <1>3, <1>4, <1>5 DEF Next, Reconcilers

(* A send that is answered 200 has its message in messages and in its      *)
(* messages_N table, whatever else failed or crashed.                      *)
THEOREM AcknowledgedMessagesAreStored == Spec => []AcknowledgedIsStored
<1>1. Init => WrittenSoFar
  BY DEF Init, WrittenSoFar
<1>2. IInv /\ WrittenSoFar /\ [Next]_vars => WrittenSoFar'
  BY WrittenStep
<1>3. WrittenSoFar => AcknowledgedIsStored
  BY DEF WrittenSoFar, AcknowledgedIsStored
<1> QED
  BY <1>1, <1>2, <1>3, Inductive, PTL DEF Spec
=============================================================================

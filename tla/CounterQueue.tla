---------------------------- MODULE CounterQueue ----------------------------
(***************************************************************************)
(* The asynchronous path of CounterService, IncrementCounter: callers put  *)
(* updates in a bounded channel, the goroutine processBatchUpdates gathers *)
(* them into batches and flushes a batch when it is full or when a ticker  *)
(* fires (src/services/counter_service.go).                                *)
(*                                                                         *)
(* An update is one call of IncrementCounter, by the goroutine             *)
(* SendMessageInternalHandler starts for a message                         *)
(* (src/api/handlers/dialog.go): the key is the recipient's unread_dialogs *)
(* counter and the delta is 1.  The queue and the batch live in memory.    *)
(*                                                                         *)
(* The same keys are written over HTTP, by requests any backend serves:    *)
(* reset, manual increment and reconciliation (src/api/handlers/counter.go,*)
(* src/services/counter_saga_service.go).                                  *)
(***************************************************************************)
EXTENDS CounterStore, Sequences, FiniteSets

CONSTANTS
    Keys,        \* counter keys
    Updates,     \* calls of IncrementCounter
    KeyOf,       \* the key each of them is about
    QueueCap,    \* capacity of updateQueue: 1000 in the code
    BatchSize,   \* batchSize: 100 in the code
    ManualDeltas, \* the deltas of manual increments: any but 0 in the code
    RowCounts,   \* the numbers of rows reconciliations count
    MaxFaults,   \* bound on failed calls to Redis
    MaxCrashes,  \* bound on restarts of the process
    MaxOverwrites \* bound on writes of keys by others than the queue

ASSUME QueueAssumption ==
    /\ KeyOf \in [Updates -> Keys]
    /\ QueueCap \in Nat \ {0}
    /\ BatchSize \in Nat \ {0}
    /\ ManualDeltas \subseteq Int \ {0}
    /\ RowCounts \subseteq Nat
    /\ MaxFaults \in Nat
    /\ MaxCrashes \in Nat
    /\ MaxOverwrites \in Nat

VARIABLES
    updateQueue, \* the channel
    batch,       \* the batch of processBatchUpdates
    fallback,    \* the updates flushBatch has still to apply one by one
    worker,      \* where processBatchUpdates is
    caller,      \* where each call of IncrementCounter is
    counter,     \* the counts in Redis
    applied,     \* history: how often each update was executed by Redis
    base,        \* history: how many of them have been overwritten
    others,      \* history: what others than the queue left of each key: the
                 \* value that overwrote it and the deltas added since
    compared,    \* compared[k]: the counts with which a reconciliation found k
                 \* at odds, and which it is about to store
    dropped,     \* history: why an accepted update was given up, if it was
    faults, crashes, overwrites

vars == <<updateQueue, batch, fallback, worker, caller, counter, applied,
          base, others, compared, dropped, faults, crashes, overwrites>>

(* What only the writes of others than the queue change.                   *)
foreign == <<base, others, compared, overwrites>>

CallerStates == {"idle", "select", "returned", "failed", "crashed"}
WorkerStates == {"select", "flush", "fallback"}
Reasons      == {"no", "unsent", "redis", "crash"}

TypeOK ==
    /\ updateQueue \in Seq(Updates) /\ Len(updateQueue) <= QueueCap
    /\ batch \in Seq(Updates) /\ Len(batch) <= BatchSize
    /\ fallback \in Seq(Updates)
    /\ worker \in WorkerStates
    /\ caller \in [Updates -> CallerStates]
    /\ counter \in [Keys -> Nat]
    /\ applied \in [Updates -> Nat]
    /\ base \in [Updates -> Nat]
    /\ others \in [Keys -> Int]
    /\ compared \in [Keys -> SUBSET RowCounts]
    /\ dropped \in [Updates -> Reasons]
    /\ faults \in 0..MaxFaults
    /\ crashes \in 0..MaxCrashes
    /\ overwrites \in 0..MaxOverwrites

Init ==
    /\ updateQueue = <<>>
    /\ batch = <<>>
    /\ fallback = <<>>
    /\ worker = "select"
    /\ caller = [u \in Updates |-> "idle"]
    /\ counter = [k \in Keys |-> 0]
    /\ applied = [u \in Updates |-> 0]
    /\ base = [u \in Updates |-> 0]
    /\ others = [k \in Keys |-> 0]
    /\ compared = [k \in Keys |-> {}]
    /\ dropped = [u \in Updates |-> "no"]
    /\ faults = 0
    /\ crashes = 0
    /\ overwrites = 0

Elements(seq) == {seq[i] : i \in DOMAIN seq}

SpendFault(o) ==
    IF o = "ok" THEN UNCHANGED faults
    ELSE faults < MaxFaults /\ faults' = faults + 1

(* incrementCounterSync on the key of u, executed by Redis with outcome o. *)
IncrementCounterSync(u, o) ==
    /\ SpendFault(o)
    /\ counter' = [counter EXCEPT ![KeyOf[u]] = Apply(@, 1, o)]
    /\ applied' = [applied EXCEPT ![u] = @ + Executions(o)]

-----------------------------------------------------------------------------
(* IncrementCounter.                                                       *)

Call(u) ==
    /\ caller[u] = "idle"
    /\ caller' = [caller EXCEPT ![u] = "select"]
    /\ UNCHANGED <<updateQueue, batch, fallback, worker, counter, applied,
                   dropped, faults, crashes, foreign>>

(* case s.updateQueue <- update                                            *)
Enqueue(u) ==
    /\ caller[u] = "select"
    /\ Len(updateQueue) < QueueCap
    /\ updateQueue' = Append(updateQueue, u)
    /\ caller' = [caller EXCEPT ![u] = "returned"]
    /\ UNCHANGED <<batch, fallback, worker, counter, applied, dropped, faults,
                   crashes, foreign>>

(* case <-time.After(100ms): the channel stayed full, the caller updates   *)
(* the counter itself, overtaking whatever is queued.                      *)
TimeoutSync(u) ==
    /\ caller[u] = "select"
    /\ Len(updateQueue) = QueueCap
    /\ \E o \in Outcomes :
         /\ IncrementCounterSync(u, o)
         /\ caller' = [caller EXCEPT ![u] = IF Failed(o) THEN "failed" ELSE "returned"]
    /\ UNCHANGED <<updateQueue, batch, fallback, worker, dropped, crashes,
                   foreign>>

-----------------------------------------------------------------------------
(* processBatchUpdates and flushBatch.                                     *)

(* Mutant: the batch is full one update too late.                          *)
TakeUpdateLate ==
    /\ worker = "select"
    /\ updateQueue # <<>>
    /\ batch' = Append(batch, Head(updateQueue))
    /\ updateQueue' = Tail(updateQueue)
    /\ worker' = IF Len(batch') > BatchSize THEN "flush" ELSE "select"
    /\ UNCHANGED <<fallback, caller, counter, applied, dropped, faults,
                   crashes, foreign>>

TakeUpdate ==
    /\ worker = "select"
    /\ updateQueue # <<>>
    /\ batch' = Append(batch, Head(updateQueue))
    /\ updateQueue' = Tail(updateQueue)
    /\ worker' = IF Len(batch') >= BatchSize THEN "flush" ELSE "select"
    /\ UNCHANGED <<fallback, caller, counter, applied, dropped, faults,
                   crashes, foreign>>

(* Mutant: the ticker flushes full batches only.                           *)
FlushTickFull ==
    /\ worker = "select"
    /\ Len(batch) >= BatchSize
    /\ worker' = "flush"
    /\ UNCHANGED <<updateQueue, batch, fallback, caller, counter, applied,
                   dropped, faults, crashes, foreign>>

FlushTick ==
    /\ worker = "select"
    /\ batch # <<>>
    /\ worker' = "flush"
    /\ UNCHANGED <<updateQueue, batch, fallback, caller, counter, applied,
                   dropped, faults, crashes, foreign>>

(* flushBatch passes one key per update in KEYS and the deltas in ARGV;    *)
(* batchIncrementScript takes KEYS[1] for a timestamp and reads a key and  *)
(* a delta from every following pair of KEYS.  With two keys or more it    *)
(* meets a delta that is nil and stops with an error before its first SET; *)
(* with one key there is no pair and it succeeds, having done nothing.     *)
ScriptSucceeds(keys) == keys < 2

(* Mutants: the batch is not reset after a flush; the script stops after   *)
(* its first SET instead of before it.                                     *)
FlushBatchKeeps ==
    /\ worker = "flush"
    /\ worker' = "fallback"
    /\ fallback' = batch
    /\ \E o \in Outcomes : SpendFault(o)
    /\ UNCHANGED <<updateQueue, batch, caller, counter, applied, dropped,
                   crashes, foreign>>

FlushBatchHalfway ==
    /\ worker = "flush"
    /\ worker' = "fallback"
    /\ fallback' = batch
    /\ batch' = <<>>
    /\ IncrementCounterSync(Head(batch), "ok")
    /\ UNCHANGED <<updateQueue, caller, dropped, crashes, foreign>>

(* The script left every counter as it was: on an error the updates go     *)
(* through the fallback loop, otherwise the batch is done with.            *)
FlushBatch ==
    /\ worker = "flush"
    /\ batch' = <<>>
    /\ \E o \in Outcomes :
         /\ SpendFault(o)
         /\ IF ScriptSucceeds(Len(batch)) /\ ~Failed(o)
            THEN /\ worker' = "select"
                 /\ dropped' = [u \in Updates |->
                        IF u \in Elements(batch) THEN "unsent" ELSE dropped[u]]
                 /\ UNCHANGED fallback
            ELSE /\ worker' = "fallback"
                 /\ fallback' = batch
                 /\ UNCHANGED dropped
    /\ UNCHANGED <<updateQueue, caller, counter, applied, crashes, foreign>>

(* Mutant: the loop tries an update again after an error.                  *)
FallbackIncrementRetries ==
    /\ worker = "fallback"
    /\ \E o \in Outcomes :
         /\ IncrementCounterSync(Head(fallback), o)
         /\ fallback' = IF Failed(o) THEN fallback ELSE Tail(fallback)
    /\ worker' = IF fallback' = <<>> THEN "select" ELSE "fallback"
    /\ UNCHANGED <<updateQueue, batch, caller, dropped, crashes, foreign>>

(* One iteration of the fallback loop; an error is logged and the loop     *)
(* goes on.                                                                *)
FallbackIncrement ==
    /\ worker = "fallback"
    /\ LET u == Head(fallback) IN
         \E o \in Outcomes :
            /\ IncrementCounterSync(u, o)
            /\ dropped' = IF o = "refused" THEN [dropped EXCEPT ![u] = "redis"]
                          ELSE dropped
    /\ fallback' = Tail(fallback)
    /\ worker' = IF Len(fallback) = 1 THEN "select" ELSE "fallback"
    /\ UNCHANGED <<updateQueue, batch, caller, crashes, foreign>>

Worker == TakeUpdate \/ FlushTick \/ FlushBatch \/ FallbackIncrement

-----------------------------------------------------------------------------
(* The process dies with its calls, its queue and its batch; a new one     *)
(* starts empty.                                                           *)
CrashAndRestart ==
    LET held == Elements(updateQueue) \union Elements(batch) \union Elements(fallback) IN
    /\ crashes < MaxCrashes
    /\ crashes' = crashes + 1
    /\ updateQueue' = <<>>
    /\ batch' = <<>>
    /\ fallback' = <<>>
    /\ worker' = "select"
    /\ caller' = [u \in Updates |-> IF caller[u] = "select" THEN "crashed" ELSE caller[u]]
    /\ dropped' = [u \in Updates |-> IF u \in held THEN "crash" ELSE dropped[u]]
    /\ UNCHANGED <<counter, applied, faults, foreign>>

(* What the key of counter k has become is due to value alone: nothing the *)
(* queue executed before counts any more.                                  *)
Overwrite(k, value) ==
    /\ counter' = [counter EXCEPT ![k] = value]
    /\ others' = [others EXCEPT ![k] = value]
    /\ base' = [u \in Updates |-> IF KeyOf[u] = k THEN applied[u] ELSE base[u]]

SpendOverwrite == overwrites < MaxOverwrites /\ overwrites' = overwrites + 1

(* The key is reset over HTTP, expires or is evicted.                      *)
ClearCounter(k) ==
    /\ SpendOverwrite
    /\ Overwrite(k, 0)
    /\ UNCHANGED <<updateQueue, batch, fallback, worker, caller, applied,
                   compared, dropped, faults, crashes>>

(* POST /counters/unread_dialogs/increment.  A decrement the clamp cuts    *)
(* off at zero overwrites the counter.                                     *)
ManualIncrement(k, delta) ==
    /\ SpendOverwrite
    /\ \E o \in Outcomes :
         LET change == Executions(o) * delta IN
         /\ SpendFault(o)
         /\ counter' = [counter EXCEPT ![k] = Apply(@, delta, o)]
         /\ \/ /\ counter[k] + change >= 0
               /\ others' = [others EXCEPT ![k] = @ + change]
               /\ UNCHANGED base
            \/ /\ counter[k] + change < 0
               /\ Overwrite(k, 0)
    /\ UNCHANGED <<updateQueue, batch, fallback, worker, caller, applied,
                   compared, dropped, crashes>>

(* POST /counters/unread_dialogs/reconcile, ReconcileCounter: it counts    *)
(* rows of PostgreSQL, any number here, and reads the counter ...          *)
CompareCounter(k, count) ==
    /\ overwrites < MaxOverwrites
    /\ counter[k] # count
    /\ compared' = [compared EXCEPT ![k] = @ \union {count}]
    /\ UNCHANGED <<updateQueue, batch, fallback, worker, caller, counter,
                   applied, base, others, dropped, faults, crashes, overwrites>>

(* ... and later stores the count, whatever the counter has become since.  *)
(* Other requests may still hold the same count, so it stays in compared.  *)
SetCounterValue(k, count) ==
    /\ count \in compared[k]
    /\ SpendOverwrite
    /\ \E o \in Outcomes \ {"refused"} :
         /\ SpendFault(o)
         /\ Overwrite(k, count)
    /\ UNCHANGED <<updateQueue, batch, fallback, worker, caller, applied,
                   compared, dropped, crashes>>

(* The requests to other handlers, served by any backend.                  *)
Foreign(k) ==
    \/ ClearCounter(k)
    \/ \E delta \in ManualDeltas : ManualIncrement(k, delta)
    \/ \E count \in RowCounts : CompareCounter(k, count) \/ SetCounterValue(k, count)

Next ==
    \/ \E u \in Updates : Call(u) \/ Enqueue(u) \/ TimeoutSync(u)
    \/ Worker
    \/ CrashAndRestart
    \/ \E k \in Keys : Foreign(k)

Spec == Init /\ [][Next]_vars

(* The worker is scheduled and its ticker fires.                           *)
FairSpec == Spec /\ WF_vars(Worker)

-----------------------------------------------------------------------------
(* An accepted update is in one place only: waiting in the process, given  *)
(* up for a known reason, or executed.  Nothing is lost between the        *)
(* channel, the batch and the fallback loop, and nothing is kept in two of *)
(* them.                                                                   *)
Waiting(u) == u \in Elements(updateQueue \o batch \o fallback)

NoUpdateVanishes ==
    \A u \in Updates :
        /\ Cardinality({i \in DOMAIN (updateQueue \o batch \o fallback) :
                          (updateQueue \o batch \o fallback)[i] = u}) <= 1
        /\ caller[u] = "returned" =>
             \/ Waiting(u) /\ applied[u] = 0 /\ dropped[u] = "no"
             \/ ~Waiting(u) /\ applied[u] = 0 /\ dropped[u] # "no"
             \/ ~Waiting(u) /\ applied[u] > 0 /\ dropped[u] = "no"

(* flushBatch falls back to single increments after a failed batch without *)
(* knowing how far the script came; still, no update is executed twice but *)
(* for a reply lost on the way.                                            *)
AppliedAtMostOnce ==
    \A u \in Updates : applied[u] <= 1 + faults

(* The executions on a key since it was last overwritten, each given as the*)
(* update and which of its executions it is.                               *)
Standing(k) ==
    UNION {{u} \X ((base[u] + 1)..applied[u]) : u \in {v \in Updates : KeyOf[v] = k}}

(* Every key holds what the last reset, expiry, reconciliation or clamped  *)
(* decrement left there, the manual increments since, and one for every    *)
(* update executed since: the worker, the callers that time out and the    *)
(* handlers of other backends never undo an increment but by overwriting   *)
(* the key.                                                                *)
CounterIsSumOfApplied ==
    \A k \in Keys : counter[k] = others[k] + Cardinality(Standing(k))

(* An accepted update does not stay in memory: the ticker flushes a batch  *)
(* that never fills.                                                       *)
AcceptedIsSettled ==
    \A u \in Updates : (caller[u] = "returned") ~> ~Waiting(u)

(* What has become of a call of IncrementCounter, wherever it waits.       *)
FateOf(u) ==
    IF applied[u] > 0 THEN "counted"
    ELSE IF dropped[u] # "no" \/ caller[u] \in {"failed", "crashed"} THEN "abandoned"
    ELSE IF caller[u] = "returned" THEN "accepted" ELSE "new"

Async == INSTANCE AsyncCounter WITH
    fate   <- [u \in Updates |-> FateOf(u)],
    count  <- counter,
    writes <- overwrites

(* The queue implements AsyncCounter: neither the loop after a failed      *)
(* batch, nor a caller that times out, nor a restart counts an update that *)
(* was counted or given up before, and a counter moves only in the step    *)
(* that counts one of its updates or in the one write of another request.  *)
ImplementsAsync == Async!Spec

(* What the doc promises of the queue ("Батчинг по 100 операций или        *)
(* 100ms", doc/COUNTER_SERVICE.md:51): an update it accepted and no longer *)
(* holds has reached Redis, unless the process crashed or Redis failed.    *)
AcceptedIsApplied ==
    \A u \in Updates :
        caller[u] = "returned" /\ ~Waiting(u) /\ faults = 0 /\ crashes = 0
            => applied[u] > 0
=============================================================================

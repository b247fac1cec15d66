---------------------------- MODULE CounterStore ----------------------------
(***************************************************************************)
(* The counter keys kept in Redis and the calls made on them               *)
(* (src/services/counter_service.go).                                      *)
(*                                                                         *)
(* A key holds {count, updated_at, version}.  Only count is kept here:     *)
(* every caller passes version 0, so the script's version test never runs, *)
(* and a missing key reads as 0, exactly like a stored 0.                  *)
(*                                                                         *)
(* Redis runs a script atomically, but the call crosses a network and      *)
(* go-redis sends a command again when the connection breaks, so a call    *)
(* has four outcomes.                                                      *)
(***************************************************************************)
EXTENDS Integers

(* Mutants: the current count forgotten, and the clamp forgotten.          *)
IncrementForgets(count, delta) == IF delta > 0 THEN delta ELSE 0
IncrementUnclamped(count, delta) == count + delta

(* incrementCounterScript: math.max(0, current_count + delta).             *)
IncrementCount(count, delta) ==
    IF count + delta > 0 THEN count + delta ELSE 0

(* "ok"       executed once, reply received                                *)
(* "refused"  not executed, the caller gets an error                       *)
(* "lost"     executed, the reply and every retry lost: the caller gets    *)
(*            an error                                                     *)
(* "resent"   executed, the reply lost, executed again by the retry        *)
Outcomes == {"ok", "refused", "lost", "resent"}

(* The caller of EvalSha gets an error.                                    *)
Failed(o) == o \in {"refused", "lost"}

(* The script ran exactly once, whatever the caller was told.              *)
Once(o) == o \in {"ok", "lost"}

(* How often the script ran.                                               *)
Executions(o) == CASE o = "refused" -> 0 [] o = "resent" -> 2 [] OTHER -> 1

(* The stored count after a call to incrementCounterSync with outcome o.   *)
Apply(count, delta, o) ==
    CASE o = "refused" -> count
      [] o = "resent"  -> IncrementCount(IncrementCount(count, delta), delta)
      [] OTHER         -> IncrementCount(count, delta)

(* A statement sent to PostgreSQL is not retried: it is executed with its  *)
(* result received, not executed, or committed with the answer lost.       *)
DbOutcomes == {"ok", "refused", "lost"}
=============================================================================

------------------------- MODULE CounterQueueProofs -------------------------
(***************************************************************************)
(* Theorems about CounterQueue, for any number of updates, any capacity of *)
(* the channel and any size of a batch.                                    *)
(***************************************************************************)
EXTENDS CounterQueue, FiniteSetTheorems, TLAPS

(* No update is twice in a sequence.                                       *)
OneEach(seq) == \A i, j \in DOMAIN seq : seq[i] = seq[j] => i = j

(* The three places an update can wait in hold it once between them.       *)
HeldOnce ==
    /\ OneEach(updateQueue)
    /\ OneEach(batch)
    /\ OneEach(fallback)
    /\ Elements(updateQueue) \intersect Elements(batch) = {}
    /\ Elements(updateQueue) \intersect Elements(fallback) = {}
    /\ batch = <<>> \/ fallback = <<>>

(* The batch is taken from in one state, the loop runs in another.         *)
WorkerKnows ==
    /\ worker = "select" => Len(batch) < BatchSize
    /\ worker = "flush" => batch # <<>>
    /\ worker = "fallback" <=> fallback # <<>>

Held == Elements(updateQueue) \union Elements(batch) \union Elements(fallback)

(* What is known of an update from where its caller is: before the channel *)
(* took it nothing has happened to it, afterwards it waits, was executed   *)
(* or was given up.                                                        *)
Fate(u) ==
    \/ u \in Held /\ caller[u] = "returned" /\ applied[u] = 0 /\ dropped[u] = "no"
    \/ u \notin Held /\ caller[u] = "returned" /\ applied[u] = 0 /\ dropped[u] # "no"
    \/ u \notin Held /\ caller[u] = "returned" /\ applied[u] > 0 /\ dropped[u] = "no"
    \/ u \notin Held /\ caller[u] = "failed" /\ dropped[u] = "no"
    \/ /\ u \notin Held
       /\ caller[u] \in {"idle", "select", "crashed"}
       /\ applied[u] = 0 /\ dropped[u] = "no"

Fates == \A u \in Updates : Fate(u)

(* What an overwrite wiped out had been executed; a counter shows what was *)
(* executed since and what others left there.                              *)
Tallied ==
    /\ \A u \in Updates : base[u] <= applied[u]
    /\ \A k \in Keys : IsFiniteSet(Standing(k))
    /\ CounterIsSumOfApplied

IInv ==
    /\ TypeOK
    /\ HeldOnce
    /\ WorkerKnows
    /\ Fates
    /\ AppliedAtMostOnce
    /\ Tallied

-----------------------------------------------------------------------------
(* What Append, Head and Tail do to the elements of a sequence without     *)
(* repetitions.                                                            *)
LEMMA AppendElements ==
    ASSUME NEW S, NEW q \in Seq(S), NEW u \in S
    PROVE  /\ Append(q, u) \in Seq(S)
           /\ Len(Append(q, u)) = Len(q) + 1
           /\ Append(q, u) # <<>>
           /\ Elements(Append(q, u)) = Elements(q) \union {u}
           /\ OneEach(q) /\ u \notin Elements(q) => OneEach(Append(q, u))
<1> DEFINE r == Append(q, u)
<1>1. /\ r \in Seq(S)
      /\ Len(r) = Len(q) + 1
      /\ DOMAIN r = 1..(Len(q) + 1)
      /\ DOMAIN q = 1..Len(q)
      /\ Len(q) \in Nat
      /\ r # <<>>
  OBVIOUS
<1>2. \A i \in 1..Len(q) : r[i] = q[i]
  OBVIOUS
<1>3. r[Len(q) + 1] = u
  OBVIOUS
<1>4. 1..(Len(q) + 1) = (1..Len(q)) \union {Len(q) + 1}
  BY <1>1
<1> HIDE DEF r
<1>5. Elements(r) = Elements(q) \union {u}
  BY <1>1, <1>2, <1>3, <1>4 DEF Elements
<1>6. OneEach(q) /\ u \notin Elements(q) => OneEach(r)
  BY <1>1, <1>2, <1>3, <1>4 DEF Elements, OneEach
<1> QED
  BY <1>1, <1>5, <1>6 DEF r

LEMMA HeadTailElements ==
    ASSUME NEW S, NEW q \in Seq(S), q # <<>>
    PROVE  /\ Head(q) \in S
           /\ Head(q) \in Elements(q)
           /\ Tail(q) \in Seq(S)
           /\ Len(q) \in Nat \ {0}
           /\ Len(Tail(q)) = Len(q) - 1
           /\ Tail(q) = <<>> <=> Len(q) = 1
           /\ OneEach(q) => /\ Elements(Tail(q)) = Elements(q) \ {Head(q)}
                            /\ OneEach(Tail(q))
<1> DEFINE r == Tail(q)
<1>1. /\ r \in Seq(S)
      /\ Len(q) \in Nat \ {0}
      /\ Len(r) = Len(q) - 1
      /\ DOMAIN r = 1..(Len(q) - 1)
      /\ DOMAIN q = 1..Len(q)
      /\ Head(q) = q[1]
      /\ Head(q) \in S
  OBVIOUS
<1>2. \A i \in 1..(Len(q) - 1) : r[i] = q[i + 1]
  OBVIOUS
<1> HIDE DEF r
<1>3. r = <<>> <=> Len(q) = 1
  <2>1. ASSUME Len(r) = 0
        PROVE  r = <<>>
    BY <1>1, <2>1
  <2>2. Len(<<>>) = 0
    OBVIOUS
  <2> QED
    BY <2>1, <2>2, <1>1
<1>4. Head(q) \in Elements(q)
  BY <1>1 DEF Elements
<1>5. ASSUME OneEach(q)
      PROVE  /\ Elements(r) = Elements(q) \ {Head(q)}
             /\ OneEach(r)
  <2>1. ASSUME NEW x \in Elements(r)
        PROVE  x \in Elements(q) \ {Head(q)}
    <3>1. PICK i \in 1..(Len(q) - 1) : x = q[i + 1]
      BY <2>1, <1>1, <1>2 DEF Elements
    <3>2. i + 1 \in 1..Len(q) /\ i + 1 # 1 /\ 1 \in 1..Len(q)
      BY <1>1
    <3> QED
      BY <3>1, <3>2, <1>1, <1>5 DEF Elements, OneEach
  <2>2. ASSUME NEW x \in Elements(q), x # Head(q)
        PROVE  x \in Elements(r)
    <3>1. PICK i \in 1..Len(q) : x = q[i]
      BY <1>1 DEF Elements
    <3>2. i # 1
      BY <3>1, <2>2, <1>1
    <3>3. i - 1 \in 1..(Len(q) - 1) /\ (i - 1) + 1 = i
      BY <3>2, <1>1
    <3> QED
      BY <3>1, <3>3, <1>1, <1>2 DEF Elements
  <2>3. OneEach(r)
    <3> SUFFICES ASSUME NEW i \in 1..(Len(q) - 1), NEW j \in 1..(Len(q) - 1), r[i] = r[j]
                 PROVE  i = j
      BY <1>1 DEF OneEach
    <3>1. q[i + 1] = q[j + 1]
      BY <1>2
    <3>2. i + 1 \in DOMAIN q /\ j + 1 \in DOMAIN q
      BY <1>1
    <3>3. i + 1 = j + 1
      BY <3>1, <3>2, <1>5 DEF OneEach
    <3> QED
      BY <3>3
  <2> QED
    BY <2>1, <2>2, <2>3
<1> QED
  BY <1>1, <1>3, <1>4, <1>5 DEF r

LEMMA EmptyElements ==
    /\ Elements(<<>>) = {}
    /\ OneEach(<<>>)
    /\ \A S : \A q \in Seq(S) : Elements(q) \subseteq S /\ (q # <<>> => Elements(q) # {})
<1>1. Elements(<<>>) = {} /\ OneEach(<<>>)
  BY DEF Elements, OneEach
<1>2. ASSUME NEW S, NEW q \in Seq(S)
      PROVE  Elements(q) \subseteq S /\ (q # <<>> => Elements(q) # {})
  <2>1. Elements(q) \subseteq S
    BY DEF Elements
  <2> QED
    BY <2>1, HeadTailElements
<1> QED
  BY <1>1, <1>2

(* The four outcomes of a call: how often it is executed, and what that    *)
(* costs in faults.                                                        *)
LEMMA Executed ==
    ASSUME TypeOK, NEW u \in Updates, NEW o \in Outcomes,
           IncrementCounterSync(u, o), applied[u] = 0, AppliedAtMostOnce
    PROVE  /\ counter' \in [Keys -> Nat]
           /\ applied' \in [Updates -> Nat]
           /\ faults' \in 0..MaxFaults
           /\ AppliedAtMostOnce'
           /\ \A v \in Updates \ {u} : applied'[v] = applied[v]
           /\ applied'[u] = 0 <=> o = "refused"
<1>1. KeyOf[u] \in Keys /\ MaxFaults \in Nat
  BY QueueAssumption
<1>2. /\ counter \in [Keys -> Nat] /\ applied \in [Updates -> Nat]
      /\ faults \in 0..MaxFaults
  BY DEF TypeOK
<1>3. Apply(counter[KeyOf[u]], 1, o) \in Nat
  <2>1. counter[KeyOf[u]] \in Nat
    BY <1>1, <1>2
  <2> QED
    BY <2>1 DEF Apply, IncrementCount
<1>4. counter' \in [Keys -> Nat]
  BY <1>1, <1>2, <1>3 DEF IncrementCounterSync
<1>5. /\ Executions(o) \in Nat /\ Executions(o) <= 2
      /\ Executions(o) = 2 => o = "resent"
      /\ Executions(o) = 0 <=> o = "refused"
  BY DEF Executions, Outcomes
<1>6. /\ faults' \in 0..MaxFaults /\ faults' \in Nat /\ faults' >= faults
      /\ o = "resent" => faults' = faults + 1
  BY <1>1, <1>2 DEF IncrementCounterSync, SpendFault
<1>7. /\ applied' = [applied EXCEPT ![u] = Executions(o)]
      /\ applied'[u] = Executions(o)
      /\ \A v \in Updates \ {u} : applied'[v] = applied[v]
  <2>1. applied' = [applied EXCEPT ![u] = applied[u] + Executions(o)]
    BY DEF IncrementCounterSync
  <2>2. applied[u] + Executions(o) = Executions(o)
    BY <1>5
  <2> QED
    BY <1>2, <2>1, <2>2
<1>8. applied' \in [Updates -> Nat]
  BY <1>2, <1>5, <1>7
<1>9. AppliedAtMostOnce'
  <2> SUFFICES ASSUME NEW v \in Updates
               PROVE  applied'[v] <= 1 + faults'
    BY DEF AppliedAtMostOnce
  <2>1. CASE v = u
    <3>1. Executions(o) <= 1 \/ Executions(o) = 2
      BY <1>5
    <3>2. Executions(o) <= 1 + faults'
      BY <1>2, <1>5, <1>6, <3>1
    <3> QED
      BY <2>1, <1>7, <3>2
  <2>2. CASE v # u
    <3>1. applied[v] <= 1 + faults /\ applied[v] \in Nat /\ applied'[v] = applied[v]
      BY <2>2, <1>2, <1>7 DEF AppliedAtMostOnce
    <3> QED
      BY <3>1, <1>2, <1>6
  <2> QED
    BY <2>1, <2>2
<1> QED
  BY <1>4, <1>5, <1>6, <1>7, <1>8, <1>9

(* Standing for given histories, and what it contains.                     *)
Between(b, a, k) ==
    UNION {{u} \X ((b[u] + 1)..a[u]) : u \in {v \in Updates : KeyOf[v] = k}}

LEMMA BetweenElements ==
    ASSUME NEW b, NEW a, NEW k, NEW e
    PROVE  e \in Between(b, a, k) <=>
              \E v \in Updates : KeyOf[v] = k /\ \E n \in (b[v] + 1)..a[v] : e = <<v, n>>
<1>1. ASSUME e \in Between(b, a, k)
      PROVE  \E v \in Updates : KeyOf[v] = k /\ \E n \in (b[v] + 1)..a[v] : e = <<v, n>>
  <2>1. PICK v \in Updates : KeyOf[v] = k /\ e \in {v} \X ((b[v] + 1)..a[v])
    BY <1>1 DEF Between
  <2> QED
    BY <2>1
<1>2. ASSUME NEW v \in Updates, KeyOf[v] = k,
             NEW n \in (b[v] + 1)..a[v], e = <<v, n>>
      PROVE  e \in Between(b, a, k)
  <2>1. e \in {v} \X ((b[v] + 1)..a[v])
    BY <1>2
  <2> QED
    BY <1>2, <2>1 DEF Between
<1> QED
  BY <1>1, <1>2

LEMMA TwoMore ==
    ASSUME NEW S, IsFiniteSet(S), NEW x, NEW y, x # y, x \notin S, y \notin S
    PROVE  /\ IsFiniteSet(S \union {x, y})
           /\ Cardinality(S \union {x, y}) = Cardinality(S) + 2
<1> DEFINE one == S \union {x}
<1>1. Cardinality(S) \in Nat
  BY FS_CardinalityType
<1>2. IsFiniteSet(one) /\ Cardinality(one) = Cardinality(S) + 1
  BY FS_AddElement
<1>3. S \union {x, y} = one \union {y} /\ y \notin one
  OBVIOUS
<1>4. IsFiniteSet(one \union {y}) /\ Cardinality(one \union {y}) = Cardinality(one) + 1
  <2> HIDE DEF one
  <2> QED
    BY <1>2, <1>3, FS_AddElement
<1>5. (Cardinality(S) + 1) + 1 = Cardinality(S) + 2
  BY <1>1
<1> QED
  BY <1>1, <1>2, <1>3, <1>4, <1>5

(* An execution adds one to the counter and one to the executions that     *)
(* stand, a command sent twice adds two to both, a refused one none.       *)
LEMMA ExecutedTallies ==
    ASSUME TypeOK, Tallied, NEW u \in Updates, NEW o \in Outcomes,
           IncrementCounterSync(u, o), applied[u] = 0, UNCHANGED <<base, others>>
    PROVE  /\ Tallied'
           /\ counter' = [counter EXCEPT ![KeyOf[u]] = @ + Executions(o)]
<1> DEFINE k == KeyOf[u]
           new == {<<u, n>> : n \in 1..Executions(o)}
<1>1. /\ k \in Keys /\ KeyOf \in [Updates -> Keys]
      /\ counter \in [Keys -> Nat] /\ applied \in [Updates -> Nat]
      /\ base \in [Updates -> Nat] /\ base[u] = 0 /\ counter[k] \in Nat
      /\ others \in [Keys -> Int] /\ others[k] \in Int
  <2>1. /\ counter \in [Keys -> Nat] /\ applied \in [Updates -> Nat]
        /\ base \in [Updates -> Nat] /\ others \in [Keys -> Int]
    BY DEF TypeOK
  <2>2. base[u] \in Nat /\ base[u] <= 0
    BY <2>1 DEF Tallied
  <2>3. base[u] = 0
    BY <2>2
  <2> QED
    BY <2>1, <2>3, QueueAssumption
<1>2. Executions(o) \in {0, 1, 2}
  BY DEF Executions
<1>3. /\ \A v \in Updates \ {u} : applied'[v] = applied[v]
      /\ applied'[u] = Executions(o)
  <2>1. applied' = [applied EXCEPT ![u] = applied[u] + Executions(o)]
    BY DEF IncrementCounterSync
  <2>2. applied[u] + Executions(o) = Executions(o)
    BY <1>2
  <2> QED
    BY <1>1, <2>1, <2>2
<1>4. Apply(counter[k], 1, o) = counter[k] + Executions(o)
  <2>1. \A c \in Nat : IncrementCount(c, 1) = c + 1
    BY DEF IncrementCount
  <2>2. counter[k] + 1 \in Nat /\ (counter[k] + 1) + 1 = counter[k] + 2 /\ counter[k] + 0 = counter[k]
    BY <1>1
  <2>3. o \in {"ok", "refused", "lost", "resent"}
    BY DEF Outcomes
  <2> QED
    BY <1>1, <2>1, <2>2, <2>3 DEF Apply, Executions
<1>5. counter' = [counter EXCEPT ![k] = counter[k] + Executions(o)]
  BY <1>4 DEF IncrementCounterSync
<1>6. ASSUME NEW l \in Keys, l # k
      PROVE  Standing(l)' = Standing(l)
  <2>1. \A v \in Updates : KeyOf[v] = l => applied'[v] = applied[v] /\ base'[v] = base[v]
    BY <1>3, <1>6
  <2> QED
    BY <2>1 DEF Standing
<1>7. Standing(k)' = Standing(k) \union new
  <2>1. Standing(k) = Between(base, applied, k) /\ Standing(k)' = Between(base', applied', k)
    BY DEF Standing, Between
  <2>2. ASSUME NEW e, e \in Standing(k)'
        PROVE  e \in Standing(k) \union new
    <3>1. PICK v \in Updates :
             KeyOf[v] = k /\ \E n \in (base'[v] + 1)..applied'[v] : e = <<v, n>>
      BY <2>1, <2>2, BetweenElements
    <3>2. CASE v = u
      BY <3>1, <3>2, <1>1, <1>3
    <3>3. CASE v # u
      <4>1. \E n \in (base[v] + 1)..applied[v] : e = <<v, n>>
        BY <3>1, <3>3, <1>3
      <4> QED
        BY <3>1, <4>1, <2>1, BetweenElements
    <3> QED
      BY <3>2, <3>3
  <2>3. ASSUME NEW e, e \in Standing(k)
        PROVE  e \in Standing(k)'
    <3>1. PICK v \in Updates :
             KeyOf[v] = k /\ \E n \in (base[v] + 1)..applied[v] : e = <<v, n>>
      BY <2>1, <2>3, BetweenElements
    <3>2. v # u
      BY <3>1, <1>1
    <3>3. \E n \in (base'[v] + 1)..applied'[v] : e = <<v, n>>
      BY <3>1, <3>2, <1>3
    <3> QED
      BY <3>1, <3>3, <2>1, BetweenElements
  <2>4. ASSUME NEW e, e \in new
        PROVE  e \in Standing(k)'
    <3>1. \E n \in (base'[u] + 1)..applied'[u] : e = <<u, n>>
      BY <2>4, <1>1, <1>3
    <3> QED
      BY <3>1, <2>1, BetweenElements
  <2> QED
    BY <2>2, <2>3, <2>4
<1>8. \A n : <<u, n>> \notin Standing(k)
  <2> SUFFICES ASSUME NEW n, <<u, n>> \in Standing(k)
               PROVE  FALSE
    OBVIOUS
  <2>1. Standing(k) = Between(base, applied, k)
    BY DEF Standing, Between
  <2>2. PICK v \in Updates :
           KeyOf[v] = k /\ \E m \in (base[v] + 1)..applied[v] : <<u, n>> = <<v, m>>
    BY <2>1, BetweenElements
  <2>3. \E m \in (base[u] + 1)..applied[u] : TRUE
    BY <2>2
  <2> QED
    BY <2>3, <1>1
<1>9. IsFiniteSet(Standing(k)) /\ counter[k] = others[k] + Cardinality(Standing(k))
  BY <1>1 DEF Tallied, CounterIsSumOfApplied
<1>9a. PICK n \in Nat : n = Cardinality(Standing(k))
  BY <1>9, FS_CardinalityType
<1>10. IsFiniteSet(Standing(k)') /\ Cardinality(Standing(k)') = n + Executions(o)
  <2> DEFINE S == Standing(k)
             x == <<u, 1>>
             y == <<u, 2>>
  <2>1. IsFiniteSet(S) /\ x # y /\ x \notin S /\ y \notin S
    BY <1>8, <1>9
  <2>2. /\ Executions(o) = 0 => new = {}
        /\ Executions(o) = 1 => new = {x}
        /\ Executions(o) = 2 => new = {x, y}
    <3>1. 1..0 = {} /\ 1..1 = {1} /\ 1..2 = {1, 2}
      OBVIOUS
    <3> QED
      BY <3>1
  <2> HIDE DEF new, S, x, y
  <2>3. /\ IsFiniteSet(S \union {x})
        /\ Cardinality(S \union {x}) = Cardinality(S) + 1
    BY <2>1, FS_AddElement
  <2>4. /\ IsFiniteSet(S \union {x, y})
        /\ Cardinality(S \union {x, y}) = Cardinality(S) + 2
    BY <2>1, TwoMore
  <2>5. Standing(k)' = S \union new /\ Cardinality(S) = n
    BY <1>7, <1>9a DEF S
  <2>6. CASE Executions(o) = 0
    <3>1. Standing(k)' = S
      BY <2>2, <2>5, <2>6
    <3>2. n + 0 = n
      BY <1>9a
    <3> QED
      BY <3>1, <3>2, <2>1, <2>5, <2>6
  <2>7. CASE Executions(o) = 1
    BY <2>2, <2>3, <2>5, <2>7
  <2>8. CASE Executions(o) = 2
    BY <2>2, <2>4, <2>5, <2>8
  <2> QED
    BY <1>2, <2>6, <2>7, <2>8
<1>11. ASSUME NEW v \in Updates
       PROVE  base'[v] <= applied'[v]
  <2>1. base'[v] = base[v] /\ base[v] <= applied[v]
    BY DEF Tallied
  <2> QED
    BY <2>1, <1>1, <1>2, <1>3
<1>12. ASSUME NEW l \in Keys
       PROVE  IsFiniteSet(Standing(l)') /\ counter'[l] = others'[l] + Cardinality(Standing(l)')
  <2>1. CASE l = k
    <3>1. counter'[k] = counter[k] + Executions(o) /\ others'[k] = others[k]
      BY <1>1, <1>5
    <3>2. counter[k] + Executions(o) = others[k] + (n + Executions(o))
      BY <1>1, <1>2, <1>9, <1>9a
    <3> QED
      BY <2>1, <3>1, <3>2, <1>10
  <2>2. CASE l # k
    <3>1. counter'[l] = counter[l] /\ others'[l] = others[l] /\ Standing(l)' = Standing(l)
      BY <2>2, <1>1, <1>5, <1>6
    <3> QED
      BY <3>1 DEF Tallied, CounterIsSumOfApplied
  <2> QED
    BY <2>1, <2>2
<1> QED
  BY <1>5, <1>11, <1>12 DEF Tallied, CounterIsSumOfApplied

(* A spent fault only widens the bound.                                    *)
LEMMA FaultSpent ==
    ASSUME TypeOK, NEW o \in Outcomes, SpendFault(o), AppliedAtMostOnce,
           applied' = applied
    PROVE  faults' \in 0..MaxFaults /\ AppliedAtMostOnce'
<1>1. faults \in 0..MaxFaults /\ MaxFaults \in Nat /\ applied \in [Updates -> Nat]
  BY QueueAssumption DEF TypeOK
<1>2. faults' \in 0..MaxFaults /\ faults' \in Nat /\ faults' >= faults
  BY <1>1 DEF SpendFault
<1>3. ASSUME NEW v \in Updates
      PROVE  applied'[v] <= 1 + faults'
  <2>1. applied[v] <= 1 + faults /\ applied[v] \in Nat
    BY <1>1 DEF AppliedAtMostOnce
  <2> QED
    BY <2>1, <1>1, <1>2
<1> QED
  BY <1>2, <1>3 DEF AppliedAtMostOnce

-----------------------------------------------------------------------------
(* At first nothing waits anywhere.                                        *)
LEMMA InitHolds == Init => IInv
<1> SUFFICES ASSUME Init
             PROVE  IInv
  OBVIOUS
<1>1. TypeOK
  BY QueueAssumption DEF Init, TypeOK, CallerStates, WorkerStates, Reasons
<1>2. HeldOnce
  BY EmptyElements DEF Init, HeldOnce
<1>3. WorkerKnows
  BY QueueAssumption DEF Init, WorkerKnows
<1>4. Fates
  BY EmptyElements DEF Init, Fates, Fate, Held
<1>5. AppliedAtMostOnce
  BY DEF Init, AppliedAtMostOnce
<1>6. Tallied
  <2>1. ASSUME NEW k \in Keys
        PROVE  Standing(k) = {}
    <3>1. Standing(k) = Between(base, applied, k)
      BY DEF Standing, Between
    <3>2. ASSUME NEW e \in Standing(k)
          PROVE  FALSE
      <4>1. PICK u \in Updates : \E n \in (base[u] + 1)..applied[u] : e = <<u, n>>
        BY <3>1, <3>2, BetweenElements
      <4> QED
        BY <4>1 DEF Init
    <3> QED
      BY <3>2
  <2>2. \A k \in Keys : IsFiniteSet(Standing(k)) /\ Cardinality(Standing(k)) = 0
    BY <2>1, FS_EmptySet
  <2>3. \A u \in Updates : base[u] <= applied[u]
    BY DEF Init
  <2>4. \A k \in Keys : counter[k] = 0 /\ others[k] = 0
    BY DEF Init
  <2> QED
    BY <2>2, <2>3, <2>4 DEF Tallied, CounterIsSumOfApplied
<1> QED
  BY <1>1, <1>2, <1>3, <1>4, <1>5, <1>6 DEF IInv

(* A step that executes and overwrites nothing leaves the tally as it was. *)
LEMMA TallyKept ==
    Tallied /\ UNCHANGED <<counter, applied, base, others>> => Tallied'
  BY DEF Tallied, CounterIsSumOfApplied, Standing

(* A call begins.                                                          *)
LEMMA CallPreserves ==
    ASSUME IInv, NEW u \in Updates, Call(u)
    PROVE  IInv'
<1>1. TypeOK'
  BY DEF IInv, TypeOK, Call, CallerStates, foreign
<1>2. HeldOnce' /\ WorkerKnows' /\ AppliedAtMostOnce'
  BY DEF IInv, Call, HeldOnce, WorkerKnows, AppliedAtMostOnce
<1>4. Tallied'
  BY TallyKept DEF IInv, Call, foreign
<1>3. ASSUME NEW v \in Updates
      PROVE  Fate(v)'
  <2>1. Fate(v) /\ Fate(u) /\ Held' = Held
    BY DEF IInv, Fates, Call, Held
  <2> QED
    BY <2>1 DEF IInv, TypeOK, Call, Fate
<1> QED
  BY <1>1, <1>2, <1>3, <1>4 DEF IInv, Fates

(* The channel takes an update nobody has seen before.                     *)
LEMMA EnqueuePreserves ==
    ASSUME IInv, NEW u \in Updates, Enqueue(u)
    PROVE  IInv'
<1>1. u \notin Held /\ applied[u] = 0 /\ dropped[u] = "no"
  BY DEF IInv, Fates, Fate, Enqueue
<1>2. /\ updateQueue' \in Seq(Updates)
      /\ Len(updateQueue') = Len(updateQueue) + 1
      /\ Elements(updateQueue') = Elements(updateQueue) \union {u}
      /\ OneEach(updateQueue')
  BY <1>1, AppendElements DEF IInv, TypeOK, HeldOnce, Held, Enqueue
<1>3. TypeOK'
  <2>1. Len(updateQueue') <= QueueCap
    BY <1>2, QueueAssumption DEF IInv, TypeOK, Enqueue
  <2> QED
    BY <1>2, <2>1 DEF IInv, TypeOK, Enqueue, CallerStates, foreign
<1>4. HeldOnce'
  <2> HIDE DEF Elements
  <2> QED
    BY <1>1, <1>2 DEF IInv, HeldOnce, Held, Enqueue
<1>5. WorkerKnows' /\ AppliedAtMostOnce'
  BY DEF IInv, Enqueue, WorkerKnows, AppliedAtMostOnce
<1>6. ASSUME NEW v \in Updates
      PROVE  Fate(v)'
  <2>1. Fate(v) /\ Held' = Held \union {u}
    BY <1>2 DEF IInv, Fates, Enqueue, Held
  <2>2. caller'[u] = "returned" /\ (v # u => caller'[v] = caller[v])
    BY DEF IInv, TypeOK, Enqueue
  <2>3. applied' = applied /\ dropped' = dropped
    BY DEF Enqueue
  <2> QED
    BY <1>1, <2>1, <2>2, <2>3 DEF Fate
<1>7. Tallied'
  BY TallyKept DEF IInv, Enqueue, foreign
<1> QED
  BY <1>3, <1>4, <1>5, <1>6, <1>7 DEF IInv, Fates

(* A caller that waited too long executes its update itself.               *)
LEMMA TimeoutSyncPreserves ==
    ASSUME IInv, NEW u \in Updates, TimeoutSync(u)
    PROVE  IInv'
<1>1. u \notin Held /\ applied[u] = 0 /\ dropped[u] = "no"
  BY DEF IInv, Fates, Fate, TimeoutSync
<1>2. PICK o \in Outcomes :
         /\ IncrementCounterSync(u, o)
         /\ caller' = [caller EXCEPT ![u] = IF Failed(o) THEN "failed" ELSE "returned"]
  BY DEF TimeoutSync
<1>3. /\ counter' \in [Keys -> Nat]
      /\ applied' \in [Updates -> Nat]
      /\ faults' \in 0..MaxFaults
      /\ AppliedAtMostOnce'
      /\ \A v \in Updates \ {u} : applied'[v] = applied[v]
      /\ applied'[u] = 0 <=> o = "refused"
  BY <1>1, <1>2, Executed DEF IInv
<1>4. TypeOK'
  BY <1>2, <1>3 DEF IInv, TypeOK, TimeoutSync, CallerStates, foreign
<1>5. HeldOnce' /\ WorkerKnows'
  BY DEF IInv, TimeoutSync, HeldOnce, WorkerKnows
<1>6. ASSUME NEW v \in Updates
      PROVE  Fate(v)'
  <2>1. Fate(v) /\ Held' = Held /\ dropped' = dropped
    BY DEF IInv, Fates, TimeoutSync, Held
  <2>2. /\ caller'[u] = IF o \in {"refused", "lost"} THEN "failed" ELSE "returned"
        /\ v # u => caller'[v] = caller[v]
    BY <1>2 DEF IInv, TypeOK, Failed
  <2>3. v # u => applied'[v] = applied[v]
    BY <1>3
  <2>4. applied'[u] \in Nat
    BY <1>3
  <2> QED
    BY <1>1, <1>3, <2>1, <2>2, <2>3, <2>4 DEF Fate
<1>7. Tallied'
  BY <1>1, <1>2, ExecutedTallies DEF IInv, TimeoutSync, foreign
<1> QED
  BY <1>3, <1>4, <1>5, <1>6, <1>7 DEF IInv, Fates

-----------------------------------------------------------------------------
(* An update moves from the channel to the batch.                          *)
LEMMA TakeUpdatePreserves ==
    ASSUME IInv, TakeUpdate
    PROVE  IInv'
<1> DEFINE u == Head(updateQueue)
<1>1. /\ updateQueue \in Seq(Updates) /\ updateQueue # <<>> /\ OneEach(updateQueue)
      /\ batch \in Seq(Updates) /\ OneEach(batch)
      /\ fallback = <<>>
  BY DEF IInv, TypeOK, HeldOnce, WorkerKnows, TakeUpdate
<1>2. /\ u \in Updates /\ u \in Elements(updateQueue)
      /\ updateQueue' \in Seq(Updates)
      /\ Len(updateQueue) \in Nat
      /\ Len(updateQueue') = Len(updateQueue) - 1
      /\ Elements(updateQueue') = Elements(updateQueue) \ {u}
      /\ OneEach(updateQueue')
  BY <1>1, HeadTailElements DEF TakeUpdate
<1>3. u \notin Elements(batch)
  BY <1>2 DEF IInv, HeldOnce
<1>4. /\ batch' \in Seq(Updates)
      /\ Len(batch') = Len(batch) + 1
      /\ batch' # <<>>
      /\ Elements(batch') = Elements(batch) \union {u}
      /\ OneEach(batch')
  <2>1. batch' = Append(batch, u)
    BY DEF TakeUpdate
  <2> HIDE DEF u
  <2> QED
    BY <1>1, <1>2, <1>3, <2>1, AppendElements
<1> HIDE DEF u
<1>5. /\ Len(batch') <= BatchSize
      /\ worker' = (IF Len(batch') >= BatchSize THEN "flush" ELSE "select")
      /\ worker' = "select" => Len(batch') < BatchSize
  <2>1. Len(batch) < BatchSize /\ Len(batch) \in Nat /\ BatchSize \in Nat
    BY <1>1, QueueAssumption DEF IInv, WorkerKnows, TakeUpdate
  <2> QED
    BY <1>4, <2>1 DEF TakeUpdate
<1>6. TypeOK'
  <2>1. Len(updateQueue') <= QueueCap
    BY <1>2, QueueAssumption DEF IInv, TypeOK
  <2> QED
    BY <1>2, <1>4, <1>5, <2>1 DEF IInv, TypeOK, TakeUpdate, WorkerStates, foreign
<1>7. Elements(fallback) = {} /\ fallback' = fallback
  BY <1>1, EmptyElements DEF TakeUpdate
<1>8. HeldOnce'
  BY <1>1, <1>2, <1>4, <1>7 DEF IInv, HeldOnce
<1>9. WorkerKnows' /\ AppliedAtMostOnce'
  BY <1>1, <1>4, <1>5, <1>7 DEF IInv, TakeUpdate, WorkerKnows, AppliedAtMostOnce
<1>10. ASSUME NEW v \in Updates
       PROVE  Fate(v)'
  <2>1. Fate(v)
    BY DEF IInv, Fates
  <2>2. Held' = Held
    BY <1>2, <1>4, <1>7 DEF Held
  <2>3. caller' = caller /\ applied' = applied /\ dropped' = dropped
    BY DEF TakeUpdate
  <2> QED
    BY <2>1, <2>2, <2>3 DEF Fate
<1>11. Tallied'
  BY TallyKept DEF IInv, TakeUpdate, foreign
<1> QED
  BY <1>6, <1>8, <1>9, <1>10, <1>11 DEF IInv, Fates

(* The ticker fires.                                                       *)
LEMMA FlushTickPreserves ==
    ASSUME IInv, FlushTick
    PROVE  IInv'
<1>1. TypeOK'
  BY DEF IInv, TypeOK, FlushTick, WorkerStates, foreign
<1>2. HeldOnce' /\ WorkerKnows' /\ AppliedAtMostOnce'
  BY DEF IInv, FlushTick, HeldOnce, WorkerKnows, AppliedAtMostOnce
<1>3. Fates'
  BY DEF IInv, FlushTick, Fates, Fate, Held
<1>4. Tallied'
  BY TallyKept DEF IInv, FlushTick, foreign
<1> QED
  BY <1>1, <1>2, <1>3, <1>4 DEF IInv

(* The script runs: the batch is given up, or goes to the loop.            *)
LEMMA FlushBatchPreserves ==
    ASSUME IInv, FlushBatch
    PROVE  IInv'
<1>1. /\ batch \in Seq(Updates) /\ batch # <<>> /\ fallback = <<>>
      /\ batch' = <<>>
      /\ Elements(<<>>) = {} /\ OneEach(<<>>)
  BY EmptyElements DEF IInv, TypeOK, WorkerKnows, FlushBatch
<1>2. PICK o \in Outcomes :
         /\ SpendFault(o)
         /\ IF ScriptSucceeds(Len(batch)) /\ ~Failed(o)
            THEN /\ worker' = "select"
                 /\ dropped' = [u \in Updates |->
                        IF u \in Elements(batch) THEN "unsent" ELSE dropped[u]]
                 /\ UNCHANGED fallback
            ELSE /\ worker' = "fallback"
                 /\ fallback' = batch
                 /\ UNCHANGED dropped
  BY DEF FlushBatch
<1>3. faults' \in 0..MaxFaults /\ AppliedAtMostOnce'
  BY <1>2, FaultSpent DEF IInv, FlushBatch
<1>4. Len(<<>>) = 0 /\ BatchSize \in Nat \ {0}
  BY QueueAssumption
<1>5. /\ updateQueue' = updateQueue /\ caller' = caller /\ applied' = applied
      /\ counter' = counter /\ crashes' = crashes
      /\ UNCHANGED <<base, others, compared, overwrites>>
  BY DEF FlushBatch, foreign
<1>6. <<>> \in Seq(Updates) /\ batch' \in Seq(Updates) /\ Len(batch') <= BatchSize
  BY <1>1, <1>4
<1>7. Tallied'
  BY <1>5, TallyKept DEF IInv
<1>8. CASE ScriptSucceeds(Len(batch)) /\ ~Failed(o)
  <2>1. /\ worker' = "select" /\ fallback' = <<>>
        /\ dropped' = [u \in Updates |-> IF u \in Elements(batch) THEN "unsent" ELSE dropped[u]]
    BY <1>1, <1>2, <1>8
  <2>2. TypeOK'
    <3>1. dropped' \in [Updates -> Reasons]
      <4>1. dropped \in [Updates -> Reasons]
        BY DEF IInv, TypeOK
      <4> QED
        BY <2>1, <4>1 DEF Reasons
    <3>2. worker' \in WorkerStates
      BY <2>1 DEF WorkerStates
    <3> QED
      BY <1>3, <1>5, <1>6, <2>1, <3>1, <3>2 DEF IInv, TypeOK
  <2>3. HeldOnce'
    BY <1>1, <1>5, <2>1 DEF IInv, HeldOnce
  <2>4. WorkerKnows'
    BY <1>1, <1>4, <2>1 DEF WorkerKnows
  <2>5. ASSUME NEW v \in Updates
        PROVE  Fate(v)'
    <3>1. Fate(v)
      BY DEF IInv, Fates
    <3>2. Held = Elements(updateQueue) \union Elements(batch) /\ Held' = Elements(updateQueue)
      BY <1>1, <1>5, <2>1 DEF Held
    <3>3. dropped'[v] = IF v \in Elements(batch) THEN "unsent" ELSE dropped[v]
      BY <2>1
    <3>4. v \in Elements(batch) => v \notin Elements(updateQueue)
      BY DEF IInv, HeldOnce
    <3> QED
      BY <1>5, <3>1, <3>2, <3>3, <3>4 DEF Fate
  <2> QED
    BY <1>3, <1>7, <2>2, <2>3, <2>4, <2>5 DEF IInv, Fates
<1>9. CASE ~(ScriptSucceeds(Len(batch)) /\ ~Failed(o))
  <2>1. worker' = "fallback" /\ fallback' = batch /\ dropped' = dropped
    BY <1>2, <1>9
  <2>2. TypeOK'
    <3>1. worker' \in WorkerStates
      BY <2>1 DEF WorkerStates
    <3> QED
      BY <1>1, <1>3, <1>5, <1>6, <2>1, <3>1 DEF IInv, TypeOK
  <2>3. HeldOnce'
    BY <1>1, <1>5, <2>1 DEF IInv, HeldOnce
  <2>4. WorkerKnows'
    BY <1>1, <2>1 DEF WorkerKnows
  <2>5. ASSUME NEW v \in Updates
        PROVE  Fate(v)'
    <3>1. Fate(v)
      BY DEF IInv, Fates
    <3>2. Held' = Held
      BY <1>1, <1>5, <2>1 DEF Held
    <3> QED
      BY <1>5, <2>1, <3>1, <3>2 DEF Fate
  <2> QED
    BY <1>3, <1>7, <2>2, <2>3, <2>4, <2>5 DEF IInv, Fates
<1> QED
  BY <1>8, <1>9

(* One update of the loop is executed, or refused and given up.            *)
LEMMA FallbackIncrementPreserves ==
    ASSUME IInv, FallbackIncrement
    PROVE  IInv'
<1> DEFINE u == Head(fallback)
<1>1. /\ fallback \in Seq(Updates) /\ fallback # <<>> /\ OneEach(fallback)
      /\ batch = <<>> /\ batch' = batch
      /\ fallback' = Tail(fallback)
      /\ Elements(<<>>) = {} /\ OneEach(<<>>)
  BY EmptyElements DEF IInv, TypeOK, HeldOnce, WorkerKnows, FallbackIncrement
<1>2. /\ u \in Updates /\ u \in Elements(fallback)
      /\ fallback' \in Seq(Updates)
      /\ fallback' = <<>> <=> Len(fallback) = 1
      /\ Elements(fallback') = Elements(fallback) \ {u}
      /\ OneEach(fallback')
  BY <1>1, HeadTailElements
<1>3. PICK o \in Outcomes :
         /\ IncrementCounterSync(u, o)
         /\ dropped' = IF o = "refused" THEN [dropped EXCEPT ![u] = "redis"] ELSE dropped
  BY DEF FallbackIncrement
<1> HIDE DEF u
<1>4. caller[u] = "returned" /\ applied[u] = 0 /\ dropped[u] = "no"
  <2>1. Fate(u) /\ u \in Held
    BY <1>2 DEF IInv, Fates, Held
  <2> QED
    BY <2>1 DEF Fate
<1>5. /\ counter' \in [Keys -> Nat]
      /\ applied' \in [Updates -> Nat]
      /\ faults' \in 0..MaxFaults
      /\ AppliedAtMostOnce'
      /\ \A v \in Updates \ {u} : applied'[v] = applied[v]
      /\ applied'[u] = 0 <=> o = "refused"
  BY <1>2, <1>3, <1>4, Executed DEF IInv
<1>6. TypeOK'
  <2>1. dropped' \in [Updates -> Reasons]
    BY <1>2, <1>3 DEF IInv, TypeOK, Reasons
  <2>2. worker' \in WorkerStates
    BY DEF FallbackIncrement, WorkerStates
  <2> QED
    BY <1>2, <1>5, <2>1, <2>2 DEF IInv, TypeOK, FallbackIncrement, foreign
<1>7. updateQueue' = updateQueue
  BY DEF FallbackIncrement
<1>8. HeldOnce'
  BY <1>1, <1>2, <1>7 DEF IInv, HeldOnce
<1>9. WorkerKnows'
  <2>1. worker' = (IF Len(fallback) = 1 THEN "select" ELSE "fallback")
    BY DEF FallbackIncrement
  <2>2. Len(batch') < BatchSize
    BY <1>1, QueueAssumption
  <2> QED
    BY <1>2, <2>1, <2>2 DEF WorkerKnows
<1>10. ASSUME NEW v \in Updates
       PROVE  Fate(v)'
  <2>1. Fate(v)
    BY DEF IInv, Fates
  <2>2. Held' = Held \ {u}
    <3>1. u \notin Elements(updateQueue)
      BY <1>2 DEF IInv, HeldOnce
    <3> QED
      BY <1>1, <1>2, <1>7, <3>1 DEF Held
  <2>3. caller' = caller
    BY DEF FallbackIncrement
  <2>4. CASE v = u
    <3>1. applied'[u] \in Nat
      BY <1>2, <1>5
    <3>2. dropped'[u] = IF o = "refused" THEN "redis" ELSE "no"
      BY <1>2, <1>3, <1>4 DEF IInv, TypeOK
    <3> QED
      BY <1>4, <1>5, <2>2, <2>3, <2>4, <3>1, <3>2 DEF Fate
  <2>5. CASE v # u
    <3>1. applied'[v] = applied[v] /\ dropped'[v] = dropped[v]
      BY <1>3, <1>5, <2>5 DEF IInv, TypeOK
    <3> QED
      BY <2>1, <2>2, <2>3, <2>5, <3>1 DEF Fate
  <2> QED
    BY <2>4, <2>5
<1>11. Tallied'
  BY <1>2, <1>3, <1>4, ExecutedTallies DEF IInv, FallbackIncrement, foreign
<1> QED
  BY <1>5, <1>6, <1>8, <1>9, <1>10, <1>11 DEF IInv, Fates

-----------------------------------------------------------------------------
(* The process dies: what it held is given up.                             *)
LEMMA CrashPreserves ==
    ASSUME IInv, CrashAndRestart
    PROVE  IInv'
<1>1. /\ updateQueue' = <<>> /\ batch' = <<>> /\ fallback' = <<>>
      /\ worker' = "select" /\ applied' = applied
      /\ counter' = counter /\ faults' = faults
      /\ UNCHANGED <<base, others, compared, overwrites>>
      /\ caller' = [u \in Updates |-> IF caller[u] = "select" THEN "crashed" ELSE caller[u]]
      /\ dropped' = [u \in Updates |-> IF u \in Held THEN "crash" ELSE dropped[u]]
  BY DEF CrashAndRestart, Held, foreign
<1>2. Elements(<<>>) = {} /\ OneEach(<<>>) /\ <<>> \in Seq(Updates) /\ Len(<<>>) = 0
  BY EmptyElements
<1>3. TypeOK'
  <2>1. crashes' \in 0..MaxCrashes
    BY QueueAssumption DEF IInv, TypeOK, CrashAndRestart
  <2>2. caller' \in [Updates -> CallerStates] /\ dropped' \in [Updates -> Reasons]
    <3>1. caller \in [Updates -> CallerStates] /\ dropped \in [Updates -> Reasons]
      BY DEF IInv, TypeOK
    <3> QED
      BY <1>1, <3>1 DEF CallerStates, Reasons
  <2>3. worker' \in WorkerStates
    BY <1>1 DEF WorkerStates
  <2>4. Len(updateQueue') <= QueueCap /\ Len(batch') <= BatchSize
    BY <1>1, <1>2, QueueAssumption
  <2> QED
    BY <1>1, <1>2, <2>1, <2>2, <2>3, <2>4 DEF IInv, TypeOK
<1>4. HeldOnce'
  BY <1>1, <1>2 DEF HeldOnce
<1>5. WorkerKnows'
  BY <1>1, <1>2, QueueAssumption DEF WorkerKnows
<1>6. AppliedAtMostOnce'
  BY <1>1 DEF IInv, AppliedAtMostOnce
<1>7. ASSUME NEW v \in Updates
      PROVE  Fate(v)'
  <2>1. Fate(v) /\ Held' = {}
    BY <1>1, <1>2 DEF IInv, Fates, Held
  <2>2. /\ caller'[v] = IF caller[v] = "select" THEN "crashed" ELSE caller[v]
        /\ dropped'[v] = IF v \in Held THEN "crash" ELSE dropped[v]
    BY <1>1
  <2> QED
    BY <1>1, <2>1, <2>2 DEF Fate
<1>8. Tallied'
  BY <1>1, TallyKept DEF IInv
<1> QED
  BY <1>3, <1>4, <1>5, <1>6, <1>7, <1>8 DEF IInv, Fates

(* A call to Redis adds the delta as often as it is executed, never going  *)
(* below zero.                                                             *)
LEMMA Added ==
    ASSUME NEW c \in Nat, NEW delta \in Int, NEW o \in Outcomes
    PROVE  /\ Executions(o) * delta \in Int
           /\ Executions(o) \in 0..2
           /\ Apply(c, delta, o) = IF c + Executions(o) * delta > 0
                                   THEN c + Executions(o) * delta ELSE 0
<1>1. CASE o = "refused"
  <2>1. Executions(o) = 0 /\ Apply(c, delta, o) = c
    BY <1>1 DEF Executions, Apply
  <2>2. 0 * delta = 0
    OBVIOUS
  <2> QED
    BY <2>1, <2>2
<1>2. CASE o = "resent"
  <2>1. Executions(o) = 2
    BY <1>2 DEF Executions
  <2>2. 2 * delta = delta + delta
    OBVIOUS
  <2>3. Apply(c, delta, o) = IncrementCount(IncrementCount(c, delta), delta)
    BY <1>2 DEF Apply
  <2> QED
    BY <2>1, <2>2, <2>3 DEF IncrementCount
<1>3. CASE o \in {"ok", "lost"}
  <2>1. Executions(o) = 1 /\ Apply(c, delta, o) = IncrementCount(c, delta)
    BY <1>3 DEF Executions, Apply
  <2>2. 1 * delta = delta
    OBVIOUS
  <2> QED
    BY <2>1, <2>2 DEF IncrementCount
<1> QED
  BY <1>1, <1>2, <1>3 DEF Outcomes

(* After an overwrite nothing executed before stands.                      *)
LEMMA OverwriteTallies ==
    ASSUME TypeOK, Tallied, NEW k \in Keys, NEW value \in Nat,
           Overwrite(k, value), applied' = applied
    PROVE  /\ counter' \in [Keys -> Nat]
           /\ others' \in [Keys -> Int]
           /\ base' \in [Updates -> Nat]
           /\ Tallied'
<1>1. /\ KeyOf \in [Updates -> Keys] /\ counter \in [Keys -> Nat]
      /\ applied \in [Updates -> Nat] /\ base \in [Updates -> Nat]
      /\ others \in [Keys -> Int]
  BY QueueAssumption DEF TypeOK
<1>2. /\ counter' = [counter EXCEPT ![k] = value]
      /\ others' = [others EXCEPT ![k] = value]
      /\ base' = [u \in Updates |-> IF KeyOf[u] = k THEN applied[u] ELSE base[u]]
  BY DEF Overwrite
<1>3. ASSUME NEW u \in Updates
      PROVE  base'[u] <= applied'[u]
  <2>1. base[u] <= applied[u]
    BY DEF Tallied
  <2> QED
    BY <2>1, <1>1, <1>2
<1>4. Standing(k)' = {}
  <2>1. Standing(k)' = Between(base', applied', k)
    BY DEF Standing, Between
  <2>2. ASSUME NEW e \in Standing(k)'
        PROVE  FALSE
    <3>1. PICK u \in Updates :
             KeyOf[u] = k /\ \E n \in (base'[u] + 1)..applied'[u] : e = <<u, n>>
      BY <2>1, <2>2, BetweenElements
    <3>2. base'[u] = applied[u] /\ applied'[u] = applied[u] /\ applied[u] \in Nat
      BY <3>1, <1>1, <1>2
    <3> QED
      BY <3>1, <3>2
  <2> QED
    BY <2>2
<1>5. ASSUME NEW l \in Keys
      PROVE  IsFiniteSet(Standing(l)') /\ counter'[l] = others'[l] + Cardinality(Standing(l)')
  <2>1. CASE l = k
    <3>1. IsFiniteSet(Standing(l)') /\ Cardinality(Standing(l)') = 0
      BY <2>1, <1>4, FS_EmptySet
    <3>2. counter'[l] = value /\ others'[l] = value /\ value + 0 = value
      BY <2>1, <1>1, <1>2
    <3> QED
      BY <3>1, <3>2
  <2>2. CASE l # k
    <3>1. Standing(l)' = Standing(l)
      BY <2>2, <1>2 DEF Standing
    <3>2. counter'[l] = counter[l] /\ others'[l] = others[l]
      BY <2>2, <1>1, <1>2
    <3> QED
      BY <3>1, <3>2 DEF Tallied, CounterIsSumOfApplied
  <2> QED
    BY <2>1, <2>2
<1>6. counter' \in [Keys -> Nat] /\ others' \in [Keys -> Int] /\ base' \in [Updates -> Nat]
  BY <1>1, <1>2
<1> QED
  BY <1>3, <1>5, <1>6 DEF Tallied, CounterIsSumOfApplied

(* A change added to a counter is added to what others left there.         *)
LEMMA AdditionTallies ==
    ASSUME TypeOK, Tallied, NEW k \in Keys, NEW change \in Int,
           counter[k] + change >= 0,
           counter' = [counter EXCEPT ![k] = @ + change],
           others' = [others EXCEPT ![k] = @ + change],
           base' = base, applied' = applied
    PROVE  /\ counter' \in [Keys -> Nat]
           /\ others' \in [Keys -> Int]
           /\ Tallied'
<1>1. counter \in [Keys -> Nat] /\ others \in [Keys -> Int]
  BY DEF TypeOK
<1>2. counter' \in [Keys -> Nat] /\ others' \in [Keys -> Int]
  <2>1. counter[k] + change \in Nat /\ others[k] + change \in Int
    BY <1>1
  <2> QED
    BY <1>1, <2>1
<1>3. ASSUME NEW l \in Keys
      PROVE  IsFiniteSet(Standing(l)') /\ counter'[l] = others'[l] + Cardinality(Standing(l)')
  <2>1. Standing(l)' = Standing(l)
    BY DEF Standing
  <2>2. IsFiniteSet(Standing(l)) /\ counter[l] = others[l] + Cardinality(Standing(l))
    BY DEF Tallied, CounterIsSumOfApplied
  <2>3. PICK n \in Nat : n = Cardinality(Standing(l))
    BY <2>2, FS_CardinalityType
  <2>4. counter'[l] = others'[l] + n
    <3>1. counter[l] = others[l] + n
      BY <2>2, <2>3
    <3>2. l = k => counter'[l] = counter[l] + change /\ others'[l] = others[l] + change
      BY <1>1
    <3>3. l # k => counter'[l] = counter[l] /\ others'[l] = others[l]
      BY <1>1
    <3>4. counter[l] \in Nat /\ others[l] \in Int
      BY <1>1
    <3> QED
      BY <3>1, <3>2, <3>3, <3>4
  <2> QED
    BY <2>1, <2>2, <2>3, <2>4
<1> QED
  BY <1>2, <1>3 DEF Tallied, CounterIsSumOfApplied

(* What the requests of others have to keep.                               *)
LEMMA ForeignKept ==
    ASSUME IInv,
           UNCHANGED <<updateQueue, batch, fallback, worker, caller, applied, dropped, crashes>>,
           counter' \in [Keys -> Nat], others' \in [Keys -> Int], base' \in [Updates -> Nat],
           compared' \in [Keys -> SUBSET RowCounts], overwrites' \in 0..MaxOverwrites,
           faults' \in 0..MaxFaults, AppliedAtMostOnce', Tallied'
    PROVE  IInv'
<1>1. TypeOK'
  BY DEF IInv, TypeOK
<1>2. HeldOnce' /\ WorkerKnows'
  BY DEF IInv, HeldOnce, WorkerKnows
<1>3. Fates'
  BY DEF IInv, Fates, Fate, Held
<1> QED
  BY <1>1, <1>2, <1>3 DEF IInv

LEMMA OverwriteSpent ==
    ASSUME TypeOK, SpendOverwrite
    PROVE  overwrites' \in 0..MaxOverwrites
  BY QueueAssumption DEF TypeOK, SpendOverwrite

(* A key is reset or expires.                                              *)
LEMMA ClearPreserves ==
    ASSUME IInv, NEW k \in Keys, ClearCounter(k)
    PROVE  IInv'
<1>1. /\ UNCHANGED <<updateQueue, batch, fallback, worker, caller, applied, dropped, crashes>>
      /\ compared' = compared /\ faults' = faults
      /\ SpendOverwrite /\ Overwrite(k, 0)
  BY DEF ClearCounter
<1>2. AppliedAtMostOnce'
  BY <1>1 DEF IInv, AppliedAtMostOnce
<1>3. /\ compared' \in [Keys -> SUBSET RowCounts] /\ faults' \in 0..MaxFaults
      /\ TypeOK /\ Tallied
  BY <1>1 DEF IInv, TypeOK
<1>4. /\ counter' \in [Keys -> Nat] /\ others' \in [Keys -> Int]
      /\ base' \in [Updates -> Nat] /\ Tallied'
  BY <1>1, <1>3, OverwriteTallies
<1>5. overwrites' \in 0..MaxOverwrites
  BY <1>1, <1>3, OverwriteSpent
<1> QED
  BY <1>1, <1>2, <1>3, <1>4, <1>5, ForeignKept

(* A key is incremented by hand.                                           *)
LEMMA ManualPreserves ==
    ASSUME IInv, NEW k \in Keys, NEW delta \in ManualDeltas, ManualIncrement(k, delta)
    PROVE  IInv'
<1>1. /\ UNCHANGED <<updateQueue, batch, fallback, worker, caller, applied, dropped, crashes>>
      /\ compared' = compared /\ SpendOverwrite
  BY DEF ManualIncrement
<1>2. PICK o \in Outcomes :
         /\ SpendFault(o)
         /\ counter' = [counter EXCEPT ![k] = Apply(@, delta, o)]
         /\ \/ /\ counter[k] + Executions(o) * delta >= 0
               /\ others' = [others EXCEPT ![k] = @ + Executions(o) * delta]
               /\ base' = base
            \/ /\ counter[k] + Executions(o) * delta < 0
               /\ Overwrite(k, 0)
  BY DEF ManualIncrement
<1>3. /\ compared' \in [Keys -> SUBSET RowCounts] /\ base \in [Updates -> Nat]
      /\ TypeOK /\ Tallied /\ AppliedAtMostOnce
  BY <1>1 DEF IInv, TypeOK
<1>4. overwrites' \in 0..MaxOverwrites
  BY <1>1, <1>3, OverwriteSpent
<1>5. faults' \in 0..MaxFaults /\ AppliedAtMostOnce'
  BY <1>1, <1>2, <1>3, FaultSpent
<1>6. PICK change \in Int : change = Executions(o) * delta
  BY <1>3, Added, QueueAssumption DEF TypeOK
<1>7. CASE Overwrite(k, 0)
  <2>1. /\ counter' \in [Keys -> Nat] /\ others' \in [Keys -> Int]
        /\ base' \in [Updates -> Nat] /\ Tallied'
    BY <1>1, <1>3, <1>7, OverwriteTallies
  <2> QED
    BY <1>1, <1>3, <1>4, <1>5, <2>1, ForeignKept
<1>8. CASE /\ counter[k] + change >= 0
           /\ others' = [others EXCEPT ![k] = @ + change]
           /\ base' = base
  <2>1. counter[k] \in Nat /\ delta \in Int
    BY <1>3, QueueAssumption DEF TypeOK
  <2>2. Apply(counter[k], delta, o) = counter[k] + change
    <3>1. Apply(counter[k], delta, o)
            = IF counter[k] + change > 0 THEN counter[k] + change ELSE 0
      BY <1>6, <2>1, Added
    <3> QED
      BY <1>8, <2>1, <3>1
  <2>3. counter' = [counter EXCEPT ![k] = @ + change]
    BY <1>2, <2>2
  <2>4. counter' \in [Keys -> Nat] /\ others' \in [Keys -> Int] /\ Tallied'
    BY <1>1, <1>3, <1>8, <2>3, AdditionTallies
  <2> QED
    BY <1>1, <1>3, <1>4, <1>5, <1>8, <2>4, ForeignKept
<1> QED
  BY <1>2, <1>6, <1>7, <1>8

(* A reconciliation reads the counter, and stores what it counted.         *)
LEMMA ComparePreserves ==
    ASSUME IInv, NEW k \in Keys, NEW count \in RowCounts, CompareCounter(k, count)
    PROVE  IInv'
<1>1. /\ UNCHANGED <<updateQueue, batch, fallback, worker, caller, applied, dropped, crashes>>
      /\ UNCHANGED <<counter, base, others, overwrites, faults>>
      /\ compared' = [compared EXCEPT ![k] = @ \union {count}]
  BY DEF CompareCounter
<1>2. AppliedAtMostOnce' /\ Tallied'
  BY <1>1, TallyKept DEF IInv, AppliedAtMostOnce
<1>3. /\ counter' \in [Keys -> Nat] /\ others' \in [Keys -> Int] /\ base' \in [Updates -> Nat]
      /\ overwrites' \in 0..MaxOverwrites /\ faults' \in 0..MaxFaults
      /\ compared \in [Keys -> SUBSET RowCounts]
  BY <1>1 DEF IInv, TypeOK
<1>4. compared' \in [Keys -> SUBSET RowCounts]
  BY <1>1, <1>3
<1> QED
  BY <1>1, <1>2, <1>3, <1>4, ForeignKept

LEMMA SetPreserves ==
    ASSUME IInv, NEW k \in Keys, NEW count \in RowCounts, SetCounterValue(k, count)
    PROVE  IInv'
<1>1. /\ UNCHANGED <<updateQueue, batch, fallback, worker, caller, applied, dropped, crashes>>
      /\ compared' = compared /\ SpendOverwrite /\ Overwrite(k, count)
  BY DEF SetCounterValue
<1>2. PICK o \in Outcomes : SpendFault(o)
  BY DEF SetCounterValue
<1>3. /\ compared' \in [Keys -> SUBSET RowCounts] /\ count \in Nat
      /\ TypeOK /\ Tallied /\ AppliedAtMostOnce
  BY <1>1, QueueAssumption DEF IInv, TypeOK
<1>4. faults' \in 0..MaxFaults /\ AppliedAtMostOnce'
  BY <1>1, <1>2, <1>3, FaultSpent
<1>5. overwrites' \in 0..MaxOverwrites
  BY <1>1, <1>3, OverwriteSpent
<1>6. /\ counter' \in [Keys -> Nat] /\ others' \in [Keys -> Int]
      /\ base' \in [Updates -> Nat] /\ Tallied'
  BY <1>1, <1>3, OverwriteTallies
<1> QED
  BY <1>1, <1>3, <1>4, <1>5, <1>6, ForeignKept

LEMMA ForeignPreserves ==
    ASSUME IInv, NEW k \in Keys, Foreign(k)
    PROVE  IInv'
  BY ClearPreserves, ManualPreserves, ComparePreserves, SetPreserves DEF Foreign

LEMMA StepHolds == IInv /\ [Next]_vars => IInv'
<1> SUFFICES ASSUME IInv, [Next]_vars
             PROVE  IInv'
  OBVIOUS
<1>1. ASSUME NEW u \in Updates, Call(u) \/ Enqueue(u) \/ TimeoutSync(u)
      PROVE  IInv'
  BY <1>1, CallPreserves, EnqueuePreserves, TimeoutSyncPreserves
<1>2. CASE Worker
  BY <1>2, TakeUpdatePreserves, FlushTickPreserves, FlushBatchPreserves,
     FallbackIncrementPreserves DEF Worker
<1>3. CASE CrashAndRestart
  BY <1>3, CrashPreserves
<1>4. ASSUME NEW k \in Keys, Foreign(k)
      PROVE  IInv'
  BY <1>4, ForeignPreserves
<1>5. CASE UNCHANGED vars
  <2>1. TypeOK'
    BY <1>5 DEF IInv, TypeOK, vars
  <2>2. HeldOnce' /\ WorkerKnows' /\ AppliedAtMostOnce'
    BY <1>5 DEF IInv, HeldOnce, WorkerKnows, AppliedAtMostOnce, vars
  <2>3. Fates'
    BY <1>5 DEF IInv, Fates, Fate, Held, vars
  <2>4. Tallied'
    BY <1>5, TallyKept DEF IInv, vars
  <2> QED
    BY <2>1, <2>2, <2>3, <2>4 DEF IInv
<1> QED
  BY <1>1, <1>2, <1>3, <1>4, <1>5 DEF Next

(* IInv holds in every state.                                              *)
THEOREM Inductive == Spec => []IInv
  BY InitHolds, StepHolds, PTL DEF Spec

(* The channel and the batch stay within their bounds, and what waits in   *)
(* them are updates.                                                       *)
THEOREM QueueTypeCorrect == Spec => []TypeOK
<1>1. IInv => TypeOK
  BY DEF IInv
<1> QED
  BY <1>1, Inductive, PTL

(* Of two sequences one after the other, with nothing twice in either and  *)
(* nothing in both, nothing is twice in the whole.                         *)
LEMMA JoinOneEach ==
    ASSUME NEW S, NEW p \in Seq(S), NEW q \in Seq(S), OneEach(p), OneEach(q),
           Elements(p) \intersect Elements(q) = {}
    PROVE  /\ p \o q \in Seq(S)
           /\ OneEach(p \o q)
           /\ Elements(p \o q) = Elements(p) \union Elements(q)
<1> DEFINE r == p \o q
           m == Len(p)
           n == Len(q)
<1>1. /\ r \in Seq(S)
      /\ m \in Nat /\ n \in Nat
      /\ DOMAIN p = 1..m /\ DOMAIN q = 1..n /\ DOMAIN r = 1..(m + n)
  OBVIOUS
<1>2. \A i \in 1..m : r[i] = p[i] /\ i \in 1..(m + n)
  BY <1>1
<1>3. \A i \in 1..(m + n) : i \notin 1..m => r[i] = q[i - m] /\ i - m \in 1..n
  BY <1>1
<1>4. \A j \in 1..n : j + m \in 1..(m + n) /\ j + m \notin 1..m /\ (j + m) - m = j
  BY <1>1
<1> HIDE DEF r, m, n
<1>5. Elements(r) = Elements(p) \union Elements(q)
  <2>1. ASSUME NEW x \in Elements(r)
        PROVE  x \in Elements(p) \union Elements(q)
    <3>1. PICK i \in 1..(m + n) : x = r[i]
      BY <1>1 DEF Elements
    <3> QED
      BY <3>1, <1>1, <1>2, <1>3 DEF Elements
  <2>2. Elements(p) \subseteq Elements(r)
    BY <1>1, <1>2 DEF Elements
  <2>3. ASSUME NEW x \in Elements(q)
        PROVE  x \in Elements(r)
    <3>1. PICK j \in 1..n : x = q[j]
      BY <1>1 DEF Elements
    <3>2. r[j + m] = q[j] /\ j + m \in DOMAIN r
      BY <1>1, <1>3, <1>4
    <3> QED
      BY <3>1, <3>2 DEF Elements
  <2> QED
    BY <2>1, <2>2, <2>3
<1>6. OneEach(r)
  <2> SUFFICES ASSUME NEW i \in 1..(m + n), NEW j \in 1..(m + n), r[i] = r[j]
               PROVE  i = j
    BY <1>1 DEF OneEach
  <2>1. CASE i \in 1..m /\ j \in 1..m
    BY <2>1, <1>1, <1>2 DEF OneEach
  <2>2. CASE i \notin 1..m /\ j \notin 1..m
    <3>1. q[i - m] = q[j - m] /\ i - m \in DOMAIN q /\ j - m \in DOMAIN q
      BY <2>2, <1>1, <1>3
    <3>2. i - m = j - m
      BY <3>1 DEF OneEach
    <3> QED
      BY <3>2, <1>1
  <2>3. CASE i \in 1..m /\ j \notin 1..m
    BY <2>3, <1>1, <1>2, <1>3 DEF Elements
  <2>4. CASE i \notin 1..m /\ j \in 1..m
    BY <2>4, <1>1, <1>2, <1>3 DEF Elements
  <2> QED
    BY <2>1, <2>2, <2>3, <2>4
<1> QED
  BY <1>1, <1>5, <1>6 DEF r

(* An accepted update is in one place: it waits once in the channel, the   *)
(* batch or the loop, or was executed, or was given up for a known reason. *)
THEOREM UpdatesDoNotVanish == Spec => []NoUpdateVanishes
<1>1. IInv => NoUpdateVanishes
  <2> SUFFICES ASSUME IInv
               PROVE  NoUpdateVanishes
    OBVIOUS
  <2> DEFINE r == (updateQueue \o batch) \o fallback
  <2>1. /\ updateQueue \in Seq(Updates) /\ batch \in Seq(Updates) /\ fallback \in Seq(Updates)
        /\ OneEach(updateQueue) /\ OneEach(batch) /\ OneEach(fallback)
        /\ Elements(updateQueue) \intersect Elements(batch) = {}
        /\ Elements(updateQueue) \intersect Elements(fallback) = {}
        /\ Elements(batch) \intersect Elements(fallback) = {}
    BY EmptyElements DEF IInv, TypeOK, HeldOnce
  <2>2. /\ updateQueue \o batch \in Seq(Updates)
        /\ OneEach(updateQueue \o batch)
        /\ Elements(updateQueue \o batch) = Elements(updateQueue) \union Elements(batch)
    BY <2>1, JoinOneEach
  <2>3. OneEach(r) /\ Elements(r) = Held
    <3>1. Elements(updateQueue \o batch) \intersect Elements(fallback) = {}
      BY <2>1, <2>2
    <3> DEFINE p == updateQueue \o batch
    <3>2. p \in Seq(Updates) /\ OneEach(p) /\ Elements(p) \intersect Elements(fallback) = {}
      BY <2>2, <3>1
    <3> HIDE DEF p
    <3>3. OneEach(p \o fallback) /\ Elements(p \o fallback) = Elements(p) \union Elements(fallback)
      BY <2>1, <3>2, JoinOneEach
    <3> QED
      BY <2>2, <3>3 DEF p, Held
  <2> HIDE DEF r
  <2>4. ASSUME NEW u \in Updates
        PROVE  Cardinality({i \in DOMAIN r : r[i] = u}) <= 1
    <3> DEFINE At == {i \in DOMAIN r : r[i] = u}
    <3>1. \A i, j \in At : i = j
      BY <2>3 DEF OneEach
    <3>2. CASE At = {}
      BY <3>2, FS_EmptySet
    <3>3. CASE At # {}
      <4>1. PICK i : At = {i}
        BY <3>1, <3>3
      <4> HIDE DEF At
      <4>2. Cardinality(At) = 1
        BY <4>1, FS_Singleton
      <4> QED
        BY <4>2 DEF At
    <3> QED
      BY <3>2, <3>3
  <2>5. ASSUME NEW u \in Updates, caller[u] = "returned"
        PROVE  \/ Waiting(u) /\ applied[u] = 0 /\ dropped[u] = "no"
               \/ ~Waiting(u) /\ applied[u] = 0 /\ dropped[u] # "no"
               \/ ~Waiting(u) /\ applied[u] > 0 /\ dropped[u] = "no"
    <3>1. Waiting(u) <=> u \in Held
      BY <2>3 DEF Waiting, r
    <3>2. Fate(u)
      BY DEF IInv, Fates
    <3> QED
      BY <2>5, <3>1, <3>2 DEF Fate
  <2> QED
    BY <2>4, <2>5 DEF NoUpdateVanishes, r
<1> QED
  BY <1>1, Inductive, PTL

(* The fallback after a failed batch executes no update again: only a      *)
(* command sent twice by the client library does.                          *)
THEOREM UpdatesAreAppliedOnce == Spec => []AppliedAtMostOnce
<1>1. IInv => AppliedAtMostOnce
  BY DEF IInv
<1> QED
  BY <1>1, Inductive, PTL

(* Every counter is what the last overwrite left there, by a reset, an     *)
(* expiry, a reconciliation or a clamped decrement, with the manual        *)
(* increments since and one for each execution on its key since, however   *)
(* the worker, the callers that time out and those requests interleave.    *)
THEOREM CountersAreSums == Spec => []CounterIsSumOfApplied
<1>1. IInv => CounterIsSumOfApplied
  BY DEF IInv, Tallied
<1> QED
  BY <1>1, Inductive, PTL

-----------------------------------------------------------------------------
(* The queue implements AsyncCounter.  At first every update is new.       *)
LEMMA AsyncInit == Init => Async!Init
<1> SUFFICES ASSUME Init
             PROVE  Async!Init
  OBVIOUS
<1>1. ASSUME NEW u \in Updates
      PROVE  FateOf(u) = "new"
  BY DEF Init, FateOf
<1>2. [u \in Updates |-> FateOf(u)] = [u \in Updates |-> "new"]
  BY <1>1
<1> QED
  BY <1>2 DEF Init, Async!Init

(* An open update is one that Fate knows as untouched.                     *)
LEMMA OpenFates ==
    ASSUME IInv, NEW u \in Updates
    PROVE  /\ caller[u] \in {"idle", "select"} => FateOf(u) = "new"
           /\ u \in Held => FateOf(u) = "accepted" /\ caller[u] = "returned"
<1>1. Fate(u)
  BY DEF IInv, Fates
<1> QED
  BY <1>1 DEF Fate, FateOf

(* Steps that execute nothing and give nothing up.                         *)
LEMMA NothingSettled ==
    ASSUME \A u \in Updates : FateOf(u)' = FateOf(u),
           counter' = counter, overwrites' = overwrites
    PROVE  UNCHANGED Async!asyncVars
<1>1. [u \in Updates |-> FateOf(u)]' = [u \in Updates |-> FateOf(u)]
  OBVIOUS
<1> QED
  BY <1>1 DEF Async!asyncVars

(* Steps that give up the updates of S.                                    *)
LEMMA AbandonedTogether ==
    ASSUME NEW S \in SUBSET Updates,
           \A u \in S : FateOf(u) \in {"new", "accepted"},
           \A u \in Updates : FateOf(u)' = IF u \in S THEN "abandoned" ELSE FateOf(u),
           counter' = counter, overwrites' = overwrites
    PROVE  Async!Next
<1>1. [u \in Updates |-> FateOf(u)]'
        = [u \in Updates |-> IF u \in S THEN "abandoned" ELSE FateOf(u)]
  OBVIOUS
<1>2. Async!Abandon(S)
  BY <1>1 DEF Async!Abandon, Async!Open
<1> QED
  BY <1>2 DEF Async!Next

(* A step that executes an open update counts it, or abandons it when the  *)
(* command was refused.                                                    *)
LEMMA ExecutedCounts ==
    ASSUME IInv, NEW u \in Updates, NEW o \in Outcomes,
           IncrementCounterSync(u, o), applied[u] = 0, UNCHANGED foreign,
           FateOf(u) \in {"new", "accepted"},
           \A v \in Updates \ {u} : FateOf(v)' = FateOf(v),
           o = "refused" => FateOf(u)' = "abandoned"
    PROVE  Async!Next
<1>1. /\ counter' = [counter EXCEPT ![KeyOf[u]] = @ + Executions(o)]
      /\ overwrites' = overwrites
  BY ExecutedTallies DEF IInv, foreign
<1>2. /\ applied' \in [Updates -> Nat]
      /\ applied'[u] = 0 <=> o = "refused"
  BY Executed DEF IInv
<1>3. KeyOf[u] \in Keys /\ counter \in [Keys -> Nat]
  BY QueueAssumption DEF IInv, TypeOK
<1>4. CASE o = "refused"
  <2>1. Executions(o) = 0
    BY <1>4 DEF Executions
  <2>2. counter' = counter
    <3>1. counter[KeyOf[u]] + Executions(o) = counter[KeyOf[u]]
      BY <1>3, <2>1
    <3> QED
      BY <1>1, <1>3, <3>1
  <2> QED
    BY <1>1, <1>4, <2>2, AbandonedTogether
<1>5. CASE o # "refused"
  <2>1. Executions(o) \in 1..2
    BY <1>5 DEF Executions, Outcomes
  <2>2. FateOf(u)' = "counted"
    <3>1. applied'[u] \in Nat /\ applied'[u] # 0
      BY <1>2, <1>5
    <3>2. applied'[u] > 0
      BY <3>1
    <3> QED
      BY <3>2 DEF FateOf
  <2>3. [v \in Updates |-> FateOf(v)]'
          = [[v \in Updates |-> FateOf(v)] EXCEPT ![u] = "counted"]
    BY <2>2
  <2>4. Async!Count(u, Executions(o))
    BY <1>1, <2>3 DEF Async!Count, Async!Open
  <2> QED
    BY <2>1, <2>4 DEF Async!Next
<1> QED
  BY <1>4, <1>5

(* Calls of IncrementCounter.                                              *)
LEMMA CallerRefines ==
    ASSUME IInv, NEW u \in Updates, Call(u) \/ Enqueue(u) \/ TimeoutSync(u)
    PROVE  [Async!Next]_Async!asyncVars
<1>1. caller \in [Updates -> CallerStates]
  BY DEF IInv, TypeOK
<1>2. CASE Call(u)
  <2>1. /\ caller' = [caller EXCEPT ![u] = "select"] /\ caller[u] = "idle"
        /\ applied' = applied /\ dropped' = dropped /\ counter' = counter
        /\ overwrites' = overwrites
    BY <1>2 DEF Call, foreign
  <2>2. ASSUME NEW v \in Updates
        PROVE  FateOf(v)' = FateOf(v)
    BY <1>1, <2>1 DEF FateOf
  <2> QED
    BY <2>1, <2>2, NothingSettled
<1>3. CASE Enqueue(u)
  <2>1. /\ caller' = [caller EXCEPT ![u] = "returned"] /\ caller[u] = "select"
        /\ applied' = applied /\ dropped' = dropped /\ counter' = counter
        /\ overwrites' = overwrites
    BY <1>3 DEF Enqueue, foreign
  <2>2. FateOf(u) = "new"
    BY <2>1, OpenFates
  <2>3. FateOf(u)' = "accepted"
    BY <1>1, <2>1, <2>2 DEF FateOf
  <2>4. ASSUME NEW v \in Updates \ {u}
        PROVE  FateOf(v)' = FateOf(v)
    BY <1>1, <2>1 DEF FateOf
  <2>5. [v \in Updates |-> FateOf(v)]'
          = [[v \in Updates |-> FateOf(v)] EXCEPT ![u] = "accepted"]
    BY <2>3, <2>4
  <2>6. Async!Accept(u)
    BY <2>1, <2>2, <2>5 DEF Async!Accept
  <2> QED
    BY <2>6 DEF Async!Next
<1>4. CASE TimeoutSync(u)
  <2>1. PICK o \in Outcomes :
           /\ IncrementCounterSync(u, o)
           /\ caller' = [caller EXCEPT ![u] = IF Failed(o) THEN "failed" ELSE "returned"]
    BY <1>4 DEF TimeoutSync
  <2>2. caller[u] = "select" /\ dropped' = dropped /\ UNCHANGED foreign
    BY <1>4 DEF TimeoutSync
  <2>3. FateOf(u) = "new" /\ applied[u] = 0
    BY <2>2 DEF IInv, Fates, Fate, FateOf
  <2>4. \A v \in Updates \ {u} : applied'[v] = applied[v] /\ caller'[v] = caller[v]
    BY <1>1, <2>1, <2>3, Executed DEF IInv
  <2>5. ASSUME NEW v \in Updates \ {u}
        PROVE  FateOf(v)' = FateOf(v)
    BY <2>2, <2>4 DEF FateOf
  <2>6. ASSUME o = "refused"
        PROVE  FateOf(u)' = "abandoned"
    <3>1. applied'[u] = 0
      BY <2>1, <2>3, <2>6, Executed DEF IInv
    <3>2. caller'[u] = "failed"
      BY <1>1, <2>1, <2>6 DEF Failed
    <3> QED
      BY <3>1, <3>2 DEF FateOf
  <2> QED
    BY <2>1, <2>2, <2>3, <2>5, <2>6, ExecutedCounts
<1> QED
  BY <1>2, <1>3, <1>4

(* processBatchUpdates and flushBatch.                                     *)
LEMMA WorkerRefines ==
    ASSUME IInv, Worker
    PROVE  [Async!Next]_Async!asyncVars
<1>1. CASE TakeUpdate \/ FlushTick
  <2>1. UNCHANGED <<caller, applied, dropped, counter, overwrites>>
    BY <1>1 DEF TakeUpdate, FlushTick, foreign
  <2>2. \A v \in Updates : FateOf(v)' = FateOf(v)
    BY <2>1 DEF FateOf
  <2> QED
    BY <2>1, <2>2, NothingSettled
<1>2. CASE FlushBatch
  <2>1. UNCHANGED <<caller, applied, counter, overwrites>>
    BY <1>2 DEF FlushBatch, foreign
  <2>2. CASE UNCHANGED dropped
    <3>1. \A v \in Updates : FateOf(v)' = FateOf(v)
      BY <2>1, <2>2 DEF FateOf
    <3> QED
      BY <2>1, <3>1, NothingSettled
  <2>3. CASE dropped' = [u \in Updates |->
                  IF u \in Elements(batch) THEN "unsent" ELSE dropped[u]]
    <3> DEFINE S == Elements(batch)
    <3>1. S \in SUBSET Updates
      BY EmptyElements DEF IInv, TypeOK
    <3>2. S \subseteq Held
      BY DEF Held
    <3> HIDE DEF S
    <3>3. \A u \in S : FateOf(u) = "accepted"
      BY <3>1, <3>2, OpenFates
    <3>4. ASSUME NEW u \in Updates
          PROVE  FateOf(u)' = IF u \in S THEN "abandoned" ELSE FateOf(u)
      <4>1. dropped'[u] = IF u \in S THEN "unsent" ELSE dropped[u]
        BY <2>3 DEF S
      <4>2. caller'[u] = caller[u] /\ applied'[u] = applied[u]
        BY <2>1
      <4> QED
        BY <3>3, <4>1, <4>2 DEF FateOf
    <3> QED
      BY <2>1, <3>1, <3>3, <3>4, AbandonedTogether
  <2> QED
    BY <1>2, <2>2, <2>3 DEF FlushBatch
<1>3. CASE FallbackIncrement
  <2>1. PICK u \in Updates : u = Head(fallback) /\ u \in Held
    <3>1. fallback \in Seq(Updates) /\ fallback # <<>>
      BY <1>3 DEF FallbackIncrement, IInv, TypeOK, WorkerKnows
    <3> QED
      BY <3>1, HeadTailElements DEF Held
  <2>2. PICK o \in Outcomes :
           /\ IncrementCounterSync(u, o)
           /\ dropped' = IF o = "refused" THEN [dropped EXCEPT ![u] = "redis"] ELSE dropped
    BY <1>3, <2>1 DEF FallbackIncrement
  <2>3. caller' = caller /\ UNCHANGED foreign /\ dropped \in [Updates -> Reasons]
    BY <1>3 DEF FallbackIncrement, IInv, TypeOK
  <2>4. FateOf(u) = "accepted" /\ applied[u] = 0
    BY <2>1 DEF IInv, Fates, Fate, FateOf
  <2>5. /\ \A v \in Updates \ {u} : applied'[v] = applied[v]
        /\ o = "refused" => applied'[u] = 0
    BY <2>2, <2>4, Executed DEF IInv
  <2>6. ASSUME NEW v \in Updates \ {u}
        PROVE  FateOf(v)' = FateOf(v)
    <3>1. dropped'[v] = dropped[v]
      BY <2>2, <2>3
    <3> QED
      BY <2>3, <2>5, <3>1 DEF FateOf
  <2>7. ASSUME o = "refused"
        PROVE  FateOf(u)' = "abandoned"
    <3>1. dropped'[u] = "redis"
      BY <2>2, <2>3, <2>7
    <3> QED
      BY <2>5, <2>7, <3>1 DEF FateOf
  <2> QED
    BY <2>2, <2>3, <2>4, <2>6, <2>7, ExecutedCounts
<1> QED
  BY <1>1, <1>2, <1>3 DEF Worker

(* A restart abandons what waited and the calls that were not accepted.    *)
LEMMA CrashRefines ==
    ASSUME IInv, CrashAndRestart
    PROVE  Async!Next
<1> DEFINE S == {u \in Updates : u \in Held \/ caller[u] = "select"}
<1>1. /\ caller' = [u \in Updates |-> IF caller[u] = "select" THEN "crashed" ELSE caller[u]]
      /\ dropped' = [u \in Updates |-> IF u \in Held THEN "crash" ELSE dropped[u]]
      /\ applied' = applied /\ counter' = counter /\ overwrites' = overwrites
  BY DEF CrashAndRestart, Held, foreign
<1>2. \A u \in S : FateOf(u) \in {"new", "accepted"}
  BY OpenFates
<1>3. ASSUME NEW u \in Updates
      PROVE  FateOf(u)' = IF u \in S THEN "abandoned" ELSE FateOf(u)
  <2>1. /\ caller'[u] = IF caller[u] = "select" THEN "crashed" ELSE caller[u]
        /\ dropped'[u] = IF u \in Held THEN "crash" ELSE dropped[u]
        /\ applied'[u] = applied[u]
    BY <1>1
  <2>2. Fate(u)
    BY DEF IInv, Fates
  <2> QED
    BY <2>1, <2>2 DEF Fate, FateOf
<1> HIDE DEF S
<1>4. S \in SUBSET Updates
  BY DEF S
<1> QED
  BY <1>1, <1>2, <1>3, <1>4, AbandonedTogether

(* A request to another handler writes one counter once, or none.          *)
LEMMA StoredOnce ==
    ASSUME UNCHANGED <<caller, applied, dropped>>, NEW k \in Keys, NEW value,
           counter' = [counter EXCEPT ![k] = value], SpendOverwrite
    PROVE  Async!Store(k, value)
<1>1. [u \in Updates |-> FateOf(u)]' = [u \in Updates |-> FateOf(u)]
  BY DEF FateOf
<1> QED
  BY <1>1 DEF Async!Store, SpendOverwrite

LEMMA ForeignRefines ==
    ASSUME IInv, NEW k \in Keys, Foreign(k)
    PROVE  [Async!Next]_Async!asyncVars
<1>1. CASE ClearCounter(k)
  <2>1. Async!Store(k, 0)
    BY <1>1, StoredOnce DEF ClearCounter, Overwrite
  <2> QED
    BY <2>1 DEF Async!Next
<1>2. ASSUME NEW delta \in ManualDeltas, ManualIncrement(k, delta)
      PROVE  [Async!Next]_Async!asyncVars
  <2>1. PICK o \in Outcomes : counter' = [counter EXCEPT ![k] = Apply(@, delta, o)]
    BY <1>2 DEF ManualIncrement
  <2>2. counter[k] \in Nat /\ delta \in Int
    BY QueueAssumption DEF IInv, TypeOK
  <2>3. PICK times \in 0..2 : times = Executions(o)
    BY <2>2, Added
  <2>4. Apply(counter[k], delta, o)
          = IF counter[k] + times * delta > 0 THEN counter[k] + times * delta ELSE 0
    BY <2>2, <2>3, Added
  <2>5. Async!Store(k, Apply(counter[k], delta, o))
    BY <1>2, <2>1, StoredOnce DEF ManualIncrement
  <2>6. Async!Add(k, times * delta)
    BY <2>4, <2>5 DEF Async!Add
  <2> QED
    BY <2>6 DEF Async!Next
<1>3. ASSUME NEW count \in RowCounts, CompareCounter(k, count)
      PROVE  [Async!Next]_Async!asyncVars
  <2>1. UNCHANGED <<caller, applied, dropped, counter, overwrites>>
    BY <1>3 DEF CompareCounter
  <2>2. \A u \in Updates : FateOf(u)' = FateOf(u)
    BY <2>1 DEF FateOf
  <2> QED
    BY <2>1, <2>2, NothingSettled
<1>4. ASSUME NEW count \in RowCounts, SetCounterValue(k, count)
      PROVE  [Async!Next]_Async!asyncVars
  <2>1. Async!Store(k, count)
    BY <1>4, StoredOnce DEF SetCounterValue, Overwrite
  <2> QED
    BY <2>1 DEF Async!Next
<1> QED
  BY <1>1, <1>2, <1>3, <1>4 DEF Foreign

(* Every step of the queue is a step of AsyncCounter, or changes nothing   *)
(* it speaks of.                                                           *)
LEMMA AsyncStep == IInv /\ [Next]_vars => [Async!Next]_Async!asyncVars
<1> SUFFICES ASSUME IInv, [Next]_vars
             PROVE  [Async!Next]_Async!asyncVars
  OBVIOUS
<1>1. ASSUME NEW u \in Updates, Call(u) \/ Enqueue(u) \/ TimeoutSync(u)
      PROVE  [Async!Next]_Async!asyncVars
  BY <1>1, CallerRefines
<1>2. CASE Worker
  BY <1>2, WorkerRefines
<1>3. CASE CrashAndRestart
  BY <1>3, CrashRefines
<1>4. ASSUME NEW k \in Keys, Foreign(k)
      PROVE  [Async!Next]_Async!asyncVars
  BY <1>4, ForeignRefines
<1>5. CASE UNCHANGED vars
  <2>1. \A u \in Updates : FateOf(u)' = FateOf(u)
    BY <1>5 DEF FateOf, vars
  <2> QED
    BY <1>5, <2>1, NothingSettled DEF vars
<1> QED
  BY <1>1, <1>2, <1>3, <1>4, <1>5 DEF Next

(* An update is accepted, then counted or abandoned, once and for ever,    *)
(* and no counter moves but with an update that is counted or in the one   *)
(* write of another request, whatever it writes: neither the loop after a  *)
(* failed batch, nor a caller that times out, nor a restart counts what    *)
(* was counted or given up before.                                         *)
THEOREM QueueImplementsAsync == Spec => ImplementsAsync
  BY Inductive, AsyncInit, AsyncStep, PTL DEF Spec, ImplementsAsync, Async!Spec
=============================================================================

--------------------------- MODULE FeedPushProofs ---------------------------
(***************************************************************************)
(* Theorems about FeedPush, for any backends, connections, events and      *)
(* faults.                                                                 *)
(***************************************************************************)
EXTENDS FeedPush, TLAPS

InTable == {"greeting", "open", "closing"}

(* Send s has still to write to c, or is writing.                          *)
InHand(s, c) == s \in sending /\ (c \in left[s] \/ s \in writing[c])

(* What a call of Send holds is in the table of its backend, and what a    *)
(* handler writes is the greeting of its connection.                       *)
Held ==
    /\ \A s \in sending :
         /\ s[2] \in published
         /\ \A c \in left[s] : BackendOf[c] = s[1] /\ conn[c] \in InTable
    /\ \A c \in Conns : \A s \in writing[c] :
         IF s = Handler THEN conn[c] = "greeting"
         ELSE /\ s \in sending /\ c \notin left[s]
              /\ BackendOf[c] = s[1] /\ conn[c] \in InTable

(* An event is in one place of the bus at most.                            *)
OnBus(e) == e \in queue \/ \E b \in Backends : e \in buffer[b]

OnePlace ==
    /\ \A b \in Backends : queue \intersect buffer[b] = {}
    /\ \A a, b \in Backends : a # b => buffer[a] \intersect buffer[b] = {}

(* The two calls of Send that can write e to c.                            *)
Consumer(c, e) == <<BackendOf[c], e, "consumer">>
Worker(c, e)   == <<BackendOf[c], e, "worker">>

One(cond) == IF cond THEN 1 ELSE 0

(* What c has of e, and what may still come: from the bus by one consumer, *)
(* from the consumer of its backend, and from the worker of its backend.   *)
Due(c, e) ==
    One(OnBus(e)) + One(InHand(Consumer(c, e), c)) + One(InHand(Worker(c, e), c))

Limit(e) == IF e \in doubled THEN 2 ELSE 1

PushBounded(c, e) ==
    /\ received[<<c, e>>] + Due(c, e) <= Limit(e)
    /\ e \notin published => received[<<c, e>>] = 0

PushesBounded == \A c \in Conns : \A e \in Events : PushBounded(c, e)

(* Event e has come to c, or a call of Send has c in hand.                 *)
Given(c, e) == received[<<c, e>>] > 0 \/ \E s \in sending : s[2] = e /\ InHand(s, c)

(* Connections of one backend that were open at the publication and still  *)
(* are get the event together.                                             *)
GivenTogether ==
    \A e \in published : \A c, d \in audience[e] :
        /\ conn[c] # "none" /\ UserOf[c] = Addressee[e]
        /\ BackendOf[c] = BackendOf[d] /\ conn[c] # "gone" /\ conn[d] # "gone"
             => (Given(c, e) <=> Given(d, e))

IInv ==
    /\ TypeOK
    /\ Held
    /\ OnePlace
    /\ PushesBounded
    /\ GivenTogether

-----------------------------------------------------------------------------
(* A call of Send is of a backend and for an event, and is no handler.     *)
LEMMA SendersTyped ==
    /\ Handler \notin Senders
    /\ \A s \in Senders : s[1] \in Backends /\ s[2] \in Events
    /\ \A s \in Senders : s = <<s[1], s[2], "consumer">> \/ s = <<s[1], s[2], "worker">>
    /\ \A b \in Backends, e \in Events : <<b, e, "consumer">> \in Senders
    /\ \A e \in Events : <<Origin[e], e, "worker">> \in Senders
<1>1. Handler \notin Senders
  <2>1. \A s \in Senders : DOMAIN s = 1..3
    BY DEF Senders
  <2>2. DOMAIN Handler = 1..1
    BY DEF Handler
  <2> QED
    BY <2>1, <2>2
<1> QED
  BY <1>1, PushAssumption DEF Senders

LEMMA InitHolds == Init => IInv
<1> SUFFICES ASSUME Init PROVE IInv
  OBVIOUS
<1>1. TypeOK
  BY PushAssumption DEF Init, TypeOK
<1>2. Held /\ OnePlace /\ GivenTogether
  BY DEF Init, Held, OnePlace, GivenTogether
<1>3. PushesBounded
  <2> SUFFICES ASSUME NEW c \in Conns, NEW e \in Events
               PROVE  PushBounded(c, e)
    BY DEF PushesBounded
  <2>1. ~ OnBus(e)
    BY DEF Init, OnBus
  <2>2. received[<<c, e>>] = 0 /\ e \notin doubled
    BY DEF Init
  <2>3. \A s : ~ InHand(s, c)
    BY DEF Init, InHand
  <2> QED
    BY <2>1, <2>2, <2>3 DEF PushBounded, Due, One, Limit
<1> QED
  BY <1>1, <1>2, <1>3 DEF IInv

-----------------------------------------------------------------------------
(* Only a call of Send under way at the backend of c has c in hand.        *)
LEMMA InHandIsLocal ==
    ASSUME TypeOK, Held, NEW s, NEW c \in Conns, InHand(s, c)
    PROVE  s \in Senders /\ s \in sending /\ s[1] = BackendOf[c] /\ conn[c] \in InTable
<1>1. s \in sending /\ s \in Senders /\ s # Handler
  BY SendersTyped DEF InHand, TypeOK
<1> QED
  BY <1>1 DEF InHand, Held

(* What is due to c of e grows with the bus or with a new call of Send.    *)
LEMMA BoundKept ==
    ASSUME NEW c \in Conns, NEW e \in Events, PushBounded(c, e),
           received[<<c, e>>] \in Nat, received'[<<c, e>>] = received[<<c, e>>],
           published \subseteq published', doubled \subseteq doubled',
           OnBus(e)' => OnBus(e),
           InHand(Consumer(c, e), c)' => InHand(Consumer(c, e), c),
           InHand(Worker(c, e), c)' => InHand(Worker(c, e), c)
    PROVE  PushBounded(c, e)'
<1>1. Due(c, e)' <= Due(c, e) /\ Due(c, e) \in Int /\ Due(c, e)' \in Int
  BY DEF Due, One, Consumer, Worker
<1>2. Limit(e) <= Limit(e)' /\ Limit(e) \in Int /\ Limit(e)' \in Int
  BY DEF Limit
<1> QED
  BY <1>1, <1>2 DEF PushBounded

(* Steps of the handler of c.                                              *)
LEMMA HandlerMoves ==
    ASSUME IInv, TypeOK', NEW c \in Conns,
           UNCHANGED <<busVars, sendVars, received, faults>>,
           \A d \in Conns \ {c} : conn'[d] = conn[d] /\ writing'[d] = writing[d],
           writing'[c] \ {Handler} = writing[c] \ {Handler},
           conn[c] # "gone",
           conn'[c] \in InTable \union {"gone"},
           conn'[c] = "gone" => writing'[c] = {} /\ \A s \in sending : c \notin left[s],
           Handler \in writing'[c] => conn'[c] = "greeting"
    PROVE  IInv'
<1>a. UNCHANGED <<published, queue, buffer, audience, doubled, sending, left, received>>
  BY DEF busVars, sendVars
<1>b. conn'[c] # "none"
  BY DEF InTable
<1>1. Held'
  <2>1. ASSUME NEW s \in sending, NEW d \in left[s]
        PROVE  s[2] \in published /\ BackendOf[d] = s[1] /\ conn'[d] \in InTable
    <3>1. d \in Conns
      BY DEF IInv, TypeOK
    <3> QED
      BY <3>1 DEF IInv, Held
  <2>2. ASSUME NEW d \in Conns, NEW s \in writing'[d]
        PROVE  IF s = Handler THEN conn'[d] = "greeting"
               ELSE /\ s \in sending /\ d \notin left[s]
                    /\ BackendOf[d] = s[1] /\ conn'[d] \in InTable
    <3>1. CASE d = c
      BY <3>1 DEF IInv, Held
    <3>2. CASE d # c
      BY <3>2 DEF IInv, Held
    <3> QED
      BY <3>1, <3>2
  <2>3. \A s \in sending : s[2] \in published
    BY DEF IInv, Held
  <2> QED
    BY <2>1, <2>2, <2>3, <1>a DEF Held
<1>2. OnePlace'
  BY <1>a DEF IInv, OnePlace
<1>3. \A s \in sending, d \in Conns : InHand(s, d)' <=> InHand(s, d)
  <2> SUFFICES ASSUME NEW s \in sending, NEW d \in Conns
               PROVE  s \in writing'[d] <=> s \in writing[d]
    BY <1>a DEF InHand
  <2>1. s # Handler
    BY SendersTyped DEF IInv, TypeOK
  <2> QED
    BY <2>1
<1>4. PushesBounded'
  <2> SUFFICES ASSUME NEW d \in Conns, NEW e \in Events
               PROVE  PushBounded(d, e)'
    BY DEF PushesBounded
  <2>1. OnBus(e)' => OnBus(e)
    BY <1>a DEF OnBus
  <2>2. \A s : InHand(s, d)' => InHand(s, d)
    BY <1>3, <1>a DEF InHand
  <2>3. received[<<d, e>>] \in Nat /\ PushBounded(d, e)
    BY DEF IInv, TypeOK, PushesBounded
  <2> QED
    BY <1>a, <2>1, <2>2, <2>3, BoundKept DEF Consumer, Worker
<1>5. GivenTogether'
  <2> SUFFICES ASSUME NEW e \in published, NEW d1 \in audience[e], NEW d2 \in audience[e]
               PROVE  /\ conn'[d1] # "none" /\ UserOf[d1] = Addressee[e]
                      /\ BackendOf[d1] = BackendOf[d2] /\ conn'[d1] # "gone" /\ conn'[d2] # "gone"
                           => (Given(d1, e)' <=> Given(d2, e)')
    BY <1>a DEF GivenTogether
  <2>1. d1 \in Conns /\ d2 \in Conns
    BY DEF IInv, TypeOK
  <2>2. /\ conn[d1] # "none" /\ UserOf[d1] = Addressee[e]
        /\ BackendOf[d1] = BackendOf[d2] /\ conn[d1] # "gone" /\ conn[d2] # "gone"
             => (Given(d1, e) <=> Given(d2, e))
    BY DEF IInv, GivenTogether
  <2>3. (Given(d1, e)' <=> Given(d1, e)) /\ (Given(d2, e)' <=> Given(d2, e))
    BY <1>3, <1>a, <2>1 DEF Given
  <2>4. \A d \in Conns : /\ conn[d] # "none" => conn'[d] # "none"
                         /\ conn'[d] # "gone" => conn[d] # "gone"
    BY <1>b
  <2> QED
    BY <2>1, <2>2, <2>3, <2>4
<1> QED
  BY <1>1, <1>2, <1>4, <1>5 DEF IInv

(* Steps of messages on the bus.                                           *)
LEMMA BusMoves ==
    ASSUME IInv, TypeOK', OnePlace', \A e \in Events : OnBus(e)' => OnBus(e),
           UNCHANGED <<published, audience, doubled, sendVars, connVars>>
    PROVE  IInv'
<1>a. UNCHANGED <<sending, left, conn, writing, received>>
  BY DEF sendVars, connVars
<1>1. Held'
  BY <1>a DEF IInv, Held
<1>2. GivenTogether'
  <2>1. \A e, c : Given(c, e)' <=> Given(c, e)
    BY <1>a DEF Given, InHand
  <2> QED
    BY <1>a, <2>1 DEF IInv, GivenTogether
<1>3. PushesBounded'
  <2> SUFFICES ASSUME NEW d \in Conns, NEW e \in Events
               PROVE  PushBounded(d, e)'
    BY DEF PushesBounded
  <2>1. \A s : InHand(s, d)' <=> InHand(s, d)
    BY <1>a DEF InHand
  <2>2. received[<<d, e>>] \in Nat /\ PushBounded(d, e)
    BY DEF IInv, TypeOK, PushesBounded
  <2> QED
    BY <1>a, <2>1, <2>2, BoundKept DEF Consumer, Worker
<1> QED
  BY <1>1, <1>2, <1>3 DEF IInv

(* A process that dies takes its connections, its calls of Send and what   *)
(* its consumer was handed with it.                                        *)
LEMMA DieStep ==
    ASSUME IInv, NEW b \in Backends, Die(b), faults' \in 0..MaxFaults,
           UNCHANGED <<published, queue, audience, doubled, received>>
    PROVE  IInv'
<1>a. /\ alive' = alive \ {b}
      /\ linked' = linked \ {b}
      /\ buffer' = [buffer EXCEPT ![b] = {}]
      /\ sending' = {s \in sending : s[1] # b}
      /\ left' = [s \in Senders |-> IF s[1] = b THEN {} ELSE left[s]]
      /\ conn' = [c \in Conns |-> IF BackendOf[c] = b THEN "gone" ELSE conn[c]]
      /\ writing' = [c \in Conns |-> IF BackendOf[c] = b THEN {} ELSE writing[c]]
  BY DEF Die
<1>1. TypeOK'
  <2>1. buffer' \in [Backends -> SUBSET published]
    BY <1>a DEF IInv, TypeOK
  <2>2. left' \in [Senders -> SUBSET Conns] /\ \A t \in Senders \ sending' : left'[t] = {}
    BY <1>a DEF IInv, TypeOK
  <2>3. conn' \in [Conns -> {"none", "greeting", "open", "closing", "gone"}]
    BY <1>a DEF IInv, TypeOK
  <2>4. writing' \in [Conns -> SUBSET (Senders \union {Handler})]
    BY <1>a DEF IInv, TypeOK
  <2> QED
    BY <1>a, <2>1, <2>2, <2>3, <2>4 DEF IInv, TypeOK
<1>2. Held'
  <2>1. ASSUME NEW s \in sending'
        PROVE  /\ s[2] \in published
               /\ \A c \in left'[s] : BackendOf[c] = s[1] /\ conn'[c] \in InTable
    <3>1. s \in sending /\ s \in Senders /\ s[1] # b /\ left'[s] = left[s] /\ left[s] \subseteq Conns
      BY <1>a, <2>1 DEF IInv, TypeOK
    <3> QED
      BY <1>a, <3>1 DEF IInv, Held
  <2>2. ASSUME NEW c \in Conns, NEW s \in writing'[c]
        PROVE  IF s = Handler THEN conn'[c] = "greeting"
               ELSE /\ s \in sending' /\ c \notin left'[s]
                    /\ BackendOf[c] = s[1] /\ conn'[c] \in InTable
    <3>1. s \in writing[c] /\ BackendOf[c] # b /\ conn'[c] = conn[c]
      BY <1>a, <2>2
    <3>2. IF s = Handler THEN conn[c] = "greeting"
          ELSE /\ s \in sending /\ c \notin left[s]
               /\ BackendOf[c] = s[1] /\ conn[c] \in InTable
      BY <3>1 DEF IInv, Held
    <3>3. s # Handler => s \in Senders
      BY <3>2 DEF IInv, TypeOK
    <3> QED
      BY <1>a, <3>1, <3>2, <3>3
  <2> QED
    BY <2>1, <2>2 DEF Held
<1>3. OnePlace'
  BY <1>a DEF IInv, TypeOK, OnePlace
<1>4. \A s : \A c \in Conns : InHand(s, c)' => InHand(s, c)
  BY <1>a DEF InHand, IInv, TypeOK
<1>5. PushesBounded'
  <2> SUFFICES ASSUME NEW d \in Conns, NEW e \in Events
               PROVE  PushBounded(d, e)'
    BY DEF PushesBounded
  <2>1. OnBus(e)' => OnBus(e)
    BY <1>a DEF OnBus, IInv, TypeOK
  <2>2. received[<<d, e>>] \in Nat /\ PushBounded(d, e)
    BY DEF IInv, TypeOK, PushesBounded
  <2> QED
    BY <1>4, <2>1, <2>2, BoundKept DEF Consumer, Worker
<1>6. GivenTogether'
  <2> SUFFICES ASSUME NEW e \in published, NEW d1 \in audience[e], NEW d2 \in audience[e]
               PROVE  /\ conn'[d1] # "none" /\ UserOf[d1] = Addressee[e]
                      /\ BackendOf[d1] = BackendOf[d2] /\ conn'[d1] # "gone" /\ conn'[d2] # "gone"
                           => (Given(d1, e)' <=> Given(d2, e)')
    BY DEF GivenTogether
  <2>1. d1 \in Conns /\ d2 \in Conns
    BY DEF IInv, TypeOK
  <2>2. /\ conn[d1] # "none" /\ UserOf[d1] = Addressee[e]
        /\ BackendOf[d1] = BackendOf[d2] /\ conn[d1] # "gone" /\ conn[d2] # "gone"
             => (Given(d1, e) <=> Given(d2, e))
    BY DEF IInv, GivenTogether
  <2>3. ASSUME NEW d \in Conns, conn'[d] # "gone"
        PROVE  (Given(d, e)' <=> Given(d, e)) /\ conn[d] # "gone"
    <3>1. BackendOf[d] # b /\ conn'[d] = conn[d]
      BY <1>a, <2>3
    <3>2. \A s \in sending : InHand(s, d) => s \in sending' /\ InHand(s, d)'
      <4> SUFFICES ASSUME NEW s \in sending, InHand(s, d)
                   PROVE  s \in sending' /\ InHand(s, d)'
        OBVIOUS
      <4>1. s \in Senders /\ s[1] # b
        BY <3>1, InHandIsLocal DEF IInv
      <4> QED
        BY <1>a, <3>1, <4>1 DEF InHand
    <3>3. \A s \in sending' : s \in sending /\ (InHand(s, d)' => InHand(s, d))
      BY <1>a, <1>4
    <3>4. (\E s \in sending' : s[2] = e /\ InHand(s, d)')
            <=> (\E s \in sending : s[2] = e /\ InHand(s, d))
      BY <3>2, <3>3
    <3>5. Given(d, e)' <=> Given(d, e)
      BY <3>4 DEF Given
    <3>6. conn[d] # "gone"
      BY <2>3, <3>1
    <3> QED
      BY <3>5, <3>6
  <2> QED
    BY <1>a, <2>1, <2>2, <2>3
<1> QED
  BY <1>1, <1>2, <1>3, <1>5, <1>6 DEF IInv

-----------------------------------------------------------------------------
(* The steps of handlers.                                                  *)
LEMMA HandlerStep ==
    ASSUME IInv, NEW c \in Conns,
           \/ Connect(c) \/ BeginGreeting(c) \/ EndGreeting(c)
           \/ ClientLeaves(c) \/ Remove(c)
    PROVE  IInv'
<1>a. /\ conn \in [Conns -> {"none", "greeting", "open", "closing", "gone"}]
      /\ writing \in [Conns -> SUBSET (Senders \union {Handler})]
  BY DEF IInv, TypeOK
<1>b. UNCHANGED <<busVars, sendVars, received, faults>>
  BY DEF Connect, BeginGreeting, EndGreeting, ClientLeaves, Remove
<1>c. Handler \in writing[c] => conn[c] = "greeting"
  BY DEF IInv, Held
<1>1. ASSUME conn' \in [Conns -> {"none", "greeting", "open", "closing", "gone"}],
             writing' \in [Conns -> SUBSET (Senders \union {Handler})]
      PROVE  TypeOK'
  BY <1>b, <1>1 DEF busVars, sendVars, IInv, TypeOK
<1>2. CASE Connect(c)
  <2>1. conn' = [conn EXCEPT ![c] = "greeting"] /\ writing' = writing /\ conn[c] = "none"
    BY <1>2 DEF Connect
  <2> QED
    BY <2>1, <1>a, <1>b, <1>c, <1>1, HandlerMoves DEF InTable
<1>3. CASE BeginGreeting(c)
  <2>1. conn[c] = "greeting" /\ Handler \notin writing[c]
    BY <1>3 DEF BeginGreeting
  <2>2. CASE writing' = [writing EXCEPT ![c] = @ \union {Handler}] /\ UNCHANGED conn
    BY <2>1, <2>2, <1>a, <1>b, <1>c, <1>1, HandlerMoves DEF InTable
  <2>3. CASE conn' = [conn EXCEPT ![c] = "closing"] /\ UNCHANGED writing
    BY <2>1, <2>3, <1>a, <1>b, <1>c, <1>1, HandlerMoves DEF InTable
  <2> QED
    BY <1>3, <2>2, <2>3 DEF BeginGreeting
<1>4. CASE EndGreeting(c)
  <2>1. /\ Handler \in writing[c]
        /\ writing' = [writing EXCEPT ![c] = @ \ {Handler}]
        /\ conn' = [conn EXCEPT ![c] = "open"]
    BY <1>4 DEF EndGreeting
  <2> QED
    BY <2>1, <1>a, <1>b, <1>c, <1>1, HandlerMoves DEF InTable
<1>5. CASE ClientLeaves(c)
  <2>1. conn[c] = "open" /\ conn' = [conn EXCEPT ![c] = "closing"] /\ writing' = writing
    BY <1>5 DEF ClientLeaves
  <2> QED
    BY <2>1, <1>a, <1>b, <1>c, <1>1, HandlerMoves DEF InTable
<1>6. CASE Remove(c)
  <2>1. conn[c] = "closing" /\ conn' = [conn EXCEPT ![c] = "gone"] /\ writing' = writing
    BY <1>6 DEF Remove
  <2>2. \A s \in sending : c \notin left[s] /\ s \notin writing[c]
    <3> SUFFICES ASSUME NEW s \in sending, InHand(s, c)
                 PROVE  FALSE
      BY DEF InHand
    <3>1. s[1] = BackendOf[c]
      BY InHandIsLocal DEF IInv
    <3> QED
      BY <3>1, <1>6 DEF Remove, Unlocked
  <2>3. writing[c] = {}
    <3> SUFFICES ASSUME NEW s \in writing[c] PROVE FALSE
      OBVIOUS
    <3>1. s # Handler
      BY <2>1, <1>c
    <3>2. s \in sending
      BY <3>1 DEF IInv, Held
    <3> QED
      BY <2>2, <3>2
  <2> QED
    BY <2>1, <2>2, <2>3, <1>a, <1>b, <1>1, HandlerMoves DEF InTable
<1> QED
  BY <1>2, <1>3, <1>4, <1>5, <1>6

LEMMA DeliverStep ==
    ASSUME IInv, NEW b \in Backends, Deliver(b)
    PROVE  IInv'
<1>1. PICK e \in queue : queue' = queue \ {e} /\ buffer' = [buffer EXCEPT ![b] = @ \union {e}]
  BY DEF Deliver
<1>a. UNCHANGED <<alive, linked, published, audience, doubled, sendVars, connVars, faults>>
  BY DEF Deliver
<1>2. TypeOK'
  <2>1. buffer' \in [Backends -> SUBSET published]
    BY <1>1 DEF IInv, TypeOK
  <2> QED
    BY <2>1, <1>1, <1>a DEF IInv, TypeOK, sendVars, connVars
<1>3. OnePlace'
  BY <1>1 DEF IInv, TypeOK, OnePlace
<1>4. \A x \in Events : OnBus(x)' => OnBus(x)
  BY <1>1 DEF IInv, TypeOK, OnBus
<1> QED
  BY <1>a, <1>2, <1>3, <1>4, BusMoves

LEMMA LoseLinkStep ==
    ASSUME IInv, NEW b \in Backends, LoseLink(b)
    PROVE  IInv'
<1>1. PICK kept \in SUBSET buffer[b] : buffer' = [buffer EXCEPT ![b] = kept]
  BY DEF LoseLink
<1>a. /\ linked' = linked \ {b} /\ faults < MaxFaults /\ faults' = faults + 1
      /\ UNCHANGED <<alive, published, queue, audience, doubled, sendVars, connVars>>
  BY DEF LoseLink, SpendFault
<1>2. TypeOK'
  <2>1. buffer' \in [Backends -> SUBSET published]
    BY <1>1 DEF IInv, TypeOK
  <2>2. faults' \in 0..MaxFaults
    BY <1>a, PushAssumption DEF IInv, TypeOK
  <2> QED
    BY <2>1, <2>2, <1>a DEF IInv, TypeOK, sendVars, connVars
<1>3. OnePlace'
  BY <1>1, <1>a DEF IInv, TypeOK, OnePlace
<1>4. \A x \in Events : OnBus(x)' => OnBus(x)
  BY <1>1, <1>a DEF IInv, TypeOK, OnBus
<1> QED
  BY <1>a, <1>2, <1>3, <1>4, BusMoves

LEMMA CrashStep ==
    ASSUME IInv, NEW b \in Backends, Crash(b)
    PROVE  IInv'
<1>1. faults' \in 0..MaxFaults
  BY PushAssumption DEF IInv, TypeOK, Crash, SpendFault
<1> QED
  BY <1>1, DieStep DEF Crash

-----------------------------------------------------------------------------
(* WriteMessage begins: c moves from the list to the hands of s.           *)
LEMMA BeginWriteStep ==
    ASSUME IInv, NEW s \in Senders, BeginWrite(s)
    PROVE  IInv'
<1>a. /\ s \in sending /\ \A c \in Conns : s \notin writing[c]
      /\ UNCHANGED <<published, queue, audience, doubled, received, faults>>
  BY DEF BeginWrite, Writing
<1>1. CASE Die(s[1])
  BY <1>1, <1>a, DieStep, SendersTyped DEF IInv, TypeOK
<1>2. ASSUME NEW c \in left[s],
             left' = [left EXCEPT ![s] = @ \ {c}],
             writing' = [writing EXCEPT ![c] = @ \union {s}],
             UNCHANGED <<alive, linked, buffer, sending, conn>>
      PROVE  IInv'
  <2>a. c \in Conns /\ left \in [Senders -> SUBSET Conns]
        /\ writing \in [Conns -> SUBSET (Senders \union {Handler})]
        /\ sending \subseteq Senders
    BY <1>2 DEF IInv, TypeOK
  <2>b. s # Handler /\ BackendOf[c] = s[1] /\ conn[c] \in InTable
    BY <1>a, <1>2, SendersTyped DEF IInv, Held
  <2>1. TypeOK'
    <3>1. left' \in [Senders -> SUBSET Conns] /\ \A t \in Senders \ sending : left'[t] = {}
      BY <1>a, <1>2, <2>a DEF IInv, TypeOK
    <3>2. writing' \in [Conns -> SUBSET (Senders \union {Handler})]
      BY <1>2, <2>a
    <3> QED
      BY <3>1, <3>2, <1>a, <1>2 DEF IInv, TypeOK
  <2>2. Held'
    <3>1. ASSUME NEW t \in sending
          PROVE  /\ t[2] \in published
                 /\ \A d \in left'[t] : BackendOf[d] = t[1] /\ conn[d] \in InTable
      <4>1. left'[t] \subseteq left[t]
        BY <1>2, <2>a
      <4> QED
        BY <4>1 DEF IInv, Held
    <3>2. ASSUME NEW d \in Conns, NEW t \in writing'[d]
          PROVE  IF t = Handler THEN conn[d] = "greeting"
                 ELSE /\ t \in sending /\ d \notin left'[t]
                      /\ BackendOf[d] = t[1] /\ conn[d] \in InTable
      <4>1. CASE t = s /\ d = c
        BY <4>1, <1>a, <1>2, <2>a, <2>b
      <4>2. CASE ~(t = s /\ d = c)
        <5>1. t \in writing[d]
          BY <3>2, <4>2, <1>2, <2>a
        <5>2. t # s
          BY <5>1, <1>a
        <5>3. t # Handler => t \in Senders /\ left'[t] = left[t]
          BY <5>1, <5>2, <1>2, <2>a
        <5> QED
          BY <5>1, <5>3 DEF IInv, Held
      <4> QED
        BY <4>1, <4>2
    <3> QED
      BY <3>1, <3>2, <1>a, <1>2 DEF Held
  <2>3. OnePlace'
    BY <1>a, <1>2 DEF IInv, OnePlace
  <2>4. \A t, d : d \in Conns => (InHand(t, d)' <=> InHand(t, d))
    <3> SUFFICES ASSUME NEW t \in sending, NEW d \in Conns
                 PROVE  (d \in left'[t] \/ t \in writing'[d]) <=> (d \in left[t] \/ t \in writing[d])
      BY <1>2 DEF InHand
    <3>1. CASE t = s
      BY <3>1, <1>a, <1>2, <2>a
    <3>2. CASE t # s
      BY <3>2, <1>2, <2>a
    <3> QED
      BY <3>1, <3>2
  <2>5. PushesBounded'
    <3> SUFFICES ASSUME NEW d \in Conns, NEW e \in Events
                 PROVE  PushBounded(d, e)'
      BY DEF PushesBounded
    <3>1. OnBus(e)' => OnBus(e)
      BY <1>a, <1>2 DEF OnBus
    <3>2. received[<<d, e>>] \in Nat /\ PushBounded(d, e)
      BY DEF IInv, TypeOK, PushesBounded
    <3> QED
      BY <1>a, <2>4, <3>1, <3>2, BoundKept DEF Consumer, Worker
  <2>6. GivenTogether'
    <3>1. \A e, d : d \in Conns => (Given(d, e)' <=> Given(d, e))
      BY <1>a, <1>2, <2>4 DEF Given
    <3>2. \A e \in published : audience[e] \subseteq Conns
      BY DEF IInv, TypeOK
    <3> QED
      BY <3>1, <3>2, <1>a, <1>2 DEF IInv, GivenTogether
  <2> QED
    BY <2>1, <2>2, <2>3, <2>5, <2>6 DEF IInv
<1> QED
  BY <1>1, <1>2 DEF BeginWrite

(* WriteMessage returns: what was in hand has been received.               *)
LEMMA EndWriteStep ==
    ASSUME IInv, NEW s \in Senders, NEW c \in Conns, EndWrite(s, c)
    PROVE  IInv'
<1>1. /\ s \in writing[c]
      /\ writing' = [writing EXCEPT ![c] = @ \ {s}]
      /\ received' = [received EXCEPT ![<<c, s[2]>>] = @ + 1]
  BY DEF EndWrite
<1>a. UNCHANGED <<alive, linked, published, queue, buffer, audience, doubled,
                  sending, left, conn, faults>>
  BY DEF EndWrite, busVars, sendVars
<1>b. /\ s # Handler /\ s \in sending /\ c \notin left[s]
      /\ BackendOf[c] = s[1] /\ conn[c] \in InTable
  BY <1>1, SendersTyped DEF IInv, Held
<1>c. /\ writing \in [Conns -> SUBSET (Senders \union {Handler})]
      /\ received \in [Conns \X Events -> Nat]
      /\ s[2] \in Events
  BY SendersTyped DEF IInv, TypeOK
<1>d. \A d \in Conns : \A e \in Events :
        received'[<<d, e>>] = IF d = c /\ e = s[2] THEN received[<<d, e>>] + 1
                             ELSE received[<<d, e>>]
  BY <1>1, <1>c
<1>2. TypeOK'
  <2>1. writing' \in [Conns -> SUBSET (Senders \union {Handler})]
    BY <1>1, <1>c
  <2>2. received' \in [Conns \X Events -> Nat]
    BY <1>1, <1>c
  <2> QED
    BY <2>1, <2>2, <1>a DEF IInv, TypeOK
<1>3. Held'
  <2>1. \A d \in Conns : writing'[d] \subseteq writing[d]
    BY <1>1, <1>c
  <2> QED
    BY <2>1, <1>a DEF IInv, Held
<1>4. OnePlace'
  BY <1>a DEF IInv, OnePlace
<1>5. \A t : \A d \in Conns : InHand(t, d)' <=> InHand(t, d) /\ ~(t = s /\ d = c)
  <2> SUFFICES ASSUME NEW t \in sending, NEW d \in Conns
               PROVE  (d \in left[t] \/ t \in writing'[d])
                        <=> (d \in left[t] \/ t \in writing[d]) /\ ~(t = s /\ d = c)
    BY <1>a DEF InHand
  <2> QED
    BY <1>1, <1>b, <1>c
<1>6. PushesBounded'
  <2> SUFFICES ASSUME NEW d \in Conns, NEW e \in Events
               PROVE  PushBounded(d, e)'
    BY DEF PushesBounded
  <2>1. OnBus(e)' <=> OnBus(e)
    BY <1>a DEF OnBus
  <2>2. received[<<d, e>>] \in Nat /\ PushBounded(d, e)
    BY DEF IInv, TypeOK, PushesBounded
  <2>3. CASE d = c /\ e = s[2]
    <3>1. s = Consumer(c, e) \/ s = Worker(c, e)
      BY <2>3, <1>b, SendersTyped DEF Consumer, Worker
    <3>2. Consumer(c, e) # Worker(c, e)
      BY DEF Consumer, Worker
    <3>3. InHand(s, c)
      BY <1>1, <1>b DEF InHand
    <3>4. /\ Consumer(c, e)' = Consumer(c, e) /\ Worker(c, e)' = Worker(c, e)
      BY DEF Consumer, Worker
    <3>5. Due(d, e)' = Due(d, e) - 1 /\ Due(d, e) \in Int
      <4>1. CASE s = Consumer(c, e)
        BY <4>1, <2>1, <2>3, <3>2, <3>3, <3>4, <1>5 DEF Due, One
      <4>2. CASE s = Worker(c, e)
        BY <4>2, <2>1, <2>3, <3>2, <3>3, <3>4, <1>5 DEF Due, One
      <4> QED
        BY <3>1, <4>1, <4>2
    <3>6. s[2] \in published
      BY <1>b DEF IInv, Held
    <3>7. Limit(e)' = Limit(e) /\ Limit(e) \in Int
      BY <1>a DEF Limit
    <3> QED
      BY <1>a, <1>d, <2>2, <2>3, <3>5, <3>6, <3>7 DEF PushBounded
  <2>4. CASE ~(d = c /\ e = s[2])
    <3>1. received'[<<d, e>>] = received[<<d, e>>]
      BY <2>4, <1>d
    <3> QED
      BY <3>1, <1>a, <1>5, <2>1, <2>2, BoundKept DEF Consumer, Worker
  <2> QED
    BY <2>3, <2>4
<1>7. GivenTogether'
  <2>1. ASSUME NEW e \in Events, NEW d \in Conns
        PROVE  Given(d, e)' <=> Given(d, e)
    <3>1. received[<<d, e>>] \in Nat
      BY <1>c
    <3>2. CASE d = c /\ e = s[2]
      <4>1. received'[<<d, e>>] > 0
        BY <3>1, <3>2, <1>d
      <4>2. InHand(s, c)
        BY <1>1, <1>b DEF InHand
      <4> QED
        BY <4>1, <4>2, <3>2, <1>b DEF Given
    <3>3. CASE ~(d = c /\ e = s[2])
      <4>1. received'[<<d, e>>] = received[<<d, e>>]
        BY <3>3, <1>d
      <4>2. \A t \in sending : t[2] = e => (InHand(t, d)' <=> InHand(t, d))
        BY <3>3, <1>5
      <4> QED
        BY <4>1, <4>2, <1>a DEF Given
    <3> QED
      BY <3>2, <3>3
  <2>2. \A e \in published : e \in Events /\ audience[e] \subseteq Conns
    BY DEF IInv, TypeOK
  <2> QED
    BY <2>1, <2>2, <1>a DEF IInv, GivenTogether
<1> QED
  BY <1>2, <1>3, <1>4, <1>6, <1>7 DEF IInv

LEMMA EndSendStep ==
    ASSUME IInv, NEW s \in Senders, EndSend(s)
    PROVE  IInv'
<1>a. /\ s \in sending /\ left[s] = {} /\ \A c \in Conns : s \notin writing[c]
      /\ sending' = sending \ {s}
      /\ UNCHANGED <<alive, linked, published, queue, buffer, audience, doubled,
                     left, conn, writing, received, faults>>
  BY DEF EndSend, Writing, busVars, connVars
<1>1. TypeOK'
  BY <1>a DEF IInv, TypeOK
<1>2. Held'
  BY <1>a DEF IInv, Held
<1>3. OnePlace'
  BY <1>a DEF IInv, OnePlace
<1>4. \A t : \A d \in Conns : InHand(t, d)' <=> InHand(t, d)
  BY <1>a DEF InHand
<1>5. PushesBounded'
  <2> SUFFICES ASSUME NEW d \in Conns, NEW e \in Events
               PROVE  PushBounded(d, e)'
    BY DEF PushesBounded
  <2>1. OnBus(e)' => OnBus(e)
    BY <1>a DEF OnBus
  <2>2. received[<<d, e>>] \in Nat /\ PushBounded(d, e)
    BY DEF IInv, TypeOK, PushesBounded
  <2> QED
    BY <1>a, <1>4, <2>1, <2>2, BoundKept DEF Consumer, Worker
<1>6. GivenTogether'
  <2>1. ASSUME NEW e, NEW d \in Conns
        PROVE  Given(d, e)' <=> Given(d, e)
    <3>1. ~ InHand(s, d)
      BY <1>a DEF InHand
    <3>2. (\E t \in sending' : t[2] = e /\ InHand(t, d)')
            <=> (\E t \in sending : t[2] = e /\ InHand(t, d))
      BY <1>a, <1>4, <3>1
    <3>3. received' = received
      BY <1>a
    <3> QED
      BY <3>2, <3>3 DEF Given
  <2>2. \A e \in published : audience[e] \subseteq Conns
    BY DEF IInv, TypeOK
  <2> QED
    BY <2>1, <2>2, <1>a DEF IInv, GivenTogether
<1> QED
  BY <1>1, <1>2, <1>3, <1>5, <1>6 DEF IInv

-----------------------------------------------------------------------------
(* A call of Send that begins has every connection of the addressee in its *)
(* backend's table in hand, and changes nothing for another call.          *)
LEMMA SendBegins ==
    ASSUME IInv, NEW s \in Senders, s \notin sending, StartSend(s),
           s[2] \in published', published \subseteq published', UNCHANGED connVars
    PROVE  /\ sending' = sending \union {s}
           /\ left' \in [Senders -> SUBSET Conns]
           /\ \A t \in Senders \ sending' : left'[t] = {}
           /\ Held'
           /\ \A t : \A c \in Conns : t # s => (InHand(t, c)' <=> InHand(t, c))
           /\ \A c \in Conns : InHand(s, c)' <=> c \in Registered(s[1], Addressee[s[2]])
<1> DEFINE R == Registered(s[1], Addressee[s[2]])
<1>a. /\ sending' = sending \union {s} /\ left' = [left EXCEPT ![s] = R]
      /\ UNCHANGED <<conn, writing, received>>
  BY DEF StartSend, connVars
<1>b. /\ left \in [Senders -> SUBSET Conns] /\ sending \subseteq Senders
      /\ \A t \in Senders \ sending : left[t] = {}
  BY DEF IInv, TypeOK
<1>c. /\ R \subseteq Conns
      /\ \A c \in R : BackendOf[c] = s[1] /\ conn[c] \in InTable
  BY DEF Registered, InTable
<1> HIDE DEF R
<1>d. \A c \in Conns : s \notin writing[c]
  BY SendersTyped DEF IInv, Held
<1>1. left' \in [Senders -> SUBSET Conns] /\ \A t \in Senders \ sending' : left'[t] = {}
  BY <1>a, <1>b, <1>c
<1>2. left'[s] = R /\ \A t \in Senders : t # s => left'[t] = left[t]
  BY <1>a, <1>b
<1>3. Held'
  <2>1. ASSUME NEW t \in sending'
        PROVE  t[2] \in published' /\ \A c \in left'[t] : BackendOf[c] = t[1] /\ conn[c] \in InTable
    <3>1. CASE t = s
      BY <3>1, <1>2, <1>c
    <3>2. CASE t # s
      <4>1. t \in sending /\ t \in Senders /\ left'[t] = left[t]
        BY <1>a, <1>b, <1>2, <3>2
      <4> QED
        BY <4>1 DEF IInv, Held
    <3> QED
      BY <3>1, <3>2
  <2>2. ASSUME NEW c \in Conns, NEW t \in writing[c]
        PROVE  IF t = Handler THEN conn[c] = "greeting"
               ELSE /\ t \in sending' /\ c \notin left'[t]
                    /\ BackendOf[c] = t[1] /\ conn[c] \in InTable
    <3>1. t # s
      BY <1>d
    <3>2. t # Handler => t \in sending /\ t \in Senders /\ left'[t] = left[t]
      BY <3>1, <1>2, <1>b DEF IInv, Held
    <3> QED
      BY <1>a, <3>2 DEF IInv, Held
  <2> QED
    BY <2>1, <2>2, <1>a DEF Held
<1>4. \A t : \A c \in Conns : t # s => (InHand(t, c)' <=> InHand(t, c))
  BY <1>a, <1>b, <1>2 DEF InHand
<1>5. \A c \in Conns : InHand(s, c)' <=> c \in R
  BY <1>a, <1>2, <1>d DEF InHand
<1> QED
  BY <1>a, <1>1, <1>3, <1>4, <1>5 DEF R

(* After a call of Send has begun at a backend, every connection that was  *)
(* open there at the publication, and still is, is given the event.        *)
LEMMA GivenBySend ==
    ASSUME IInv, NEW s \in Senders, NEW e \in Events, s[2] = e,
           sending' = sending \union {s},
           \A t : \A c \in Conns : t # s => (InHand(t, c)' <=> InHand(t, c)),
           \A c \in Conns : InHand(s, c)' <=> c \in Registered(s[1], Addressee[e]),
           s \notin sending,
           received' = received,
           NEW c \in Conns
    PROVE  /\ \A x : x # e => (Given(c, x)' <=> Given(c, x))
           /\ BackendOf[c] # s[1] => (Given(c, e)' <=> Given(c, e))
           /\ BackendOf[c] = s[1] /\ UserOf[c] = Addressee[e] /\ conn[c] \in InTable
                => Given(c, e)'
<1>1. ASSUME NEW x, x # e
      PROVE  Given(c, x)' <=> Given(c, x)
  <2>1. (\E t \in sending' : t[2] = x /\ InHand(t, c)')
          <=> (\E t \in sending : t[2] = x /\ InHand(t, c))
    BY <1>1
  <2> QED
    BY <2>1 DEF Given
<1>2. ASSUME BackendOf[c] # s[1]
      PROVE  Given(c, e)' <=> Given(c, e)
  <2>1. ~ InHand(s, c)'
    BY <1>2 DEF Registered
  <2>2. (\E t \in sending' : t[2] = e /\ InHand(t, c)')
          <=> (\E t \in sending : t[2] = e /\ InHand(t, c))
    BY <2>1
  <2> QED
    BY <2>2 DEF Given
<1>3. ASSUME BackendOf[c] = s[1], UserOf[c] = Addressee[e], conn[c] \in InTable
      PROVE  Given(c, e)'
  <2>1. InHand(s, c)'
    BY <1>3 DEF Registered, InTable
  <2> QED
    BY <2>1 DEF Given
<1> QED
  BY <1>1, <1>2, <1>3

LEMMA ConsumeStep ==
    ASSUME IInv, NEW b \in Backends, Consume(b)
    PROVE  IInv'
<1>1. PICK e \in buffer[b] :
        buffer' = [buffer EXCEPT ![b] = @ \ {e}] /\ StartSend(<<b, e, "consumer">>)
  BY DEF Consume
<1>a. /\ ~ Consuming(b)
      /\ UNCHANGED <<alive, linked, published, queue, audience, doubled, connVars, faults>>
  BY DEF Consume
<1> DEFINE s == <<b, e, "consumer">>
<1>b. e \in published /\ e \in Events /\ s \in Senders
  BY SendersTyped DEF IInv, TypeOK
<1>c. s \notin sending
  BY <1>a DEF Consuming
<1>d. s[1] = b /\ s[2] = e
  OBVIOUS
<1>e. StartSend(s)
  BY <1>1
<1> HIDE DEF s
<1>2. /\ sending' = sending \union {s}
      /\ left' \in [Senders -> SUBSET Conns]
      /\ \A t \in Senders \ sending' : left'[t] = {}
      /\ Held'
      /\ \A t : \A c \in Conns : t # s => (InHand(t, c)' <=> InHand(t, c))
      /\ \A c \in Conns : InHand(s, c)' <=> c \in Registered(b, Addressee[e])
  BY <1>a, <1>b, <1>c, <1>d, <1>e, SendBegins
<1>3. TypeOK'
  <2>1. buffer' \in [Backends -> SUBSET published]
    BY <1>1 DEF IInv, TypeOK
  <2>2. sending' \subseteq Senders
    BY <1>2, <1>b DEF IInv, TypeOK
  <2> QED
    BY <2>1, <2>2, <1>2, <1>a DEF IInv, TypeOK, connVars
<1>4. OnePlace'
  BY <1>1, <1>a DEF IInv, TypeOK, OnePlace
<1>5. /\ OnBus(e) /\ ~ OnBus(e)'
      /\ \A x : OnBus(x)' => OnBus(x)
  <2>1. OnBus(e)
    BY DEF OnBus
  <2>2. ~ OnBus(e)'
    BY <1>1, <1>a DEF IInv, TypeOK, OnePlace, OnBus
  <2>3. \A x : OnBus(x)' => OnBus(x)
    BY <1>1, <1>a DEF IInv, TypeOK, OnBus
  <2> QED
    BY <2>1, <2>2, <2>3
<1>6. received' = received /\ conn' = conn
  BY <1>a DEF connVars
<1>7. PushesBounded'
  <2> SUFFICES ASSUME NEW d \in Conns, NEW x \in Events
               PROVE  PushBounded(d, x)'
    BY DEF PushesBounded
  <2>2. received[<<d, x>>] \in Nat /\ PushBounded(d, x)
    BY DEF IInv, TypeOK, PushesBounded
  <2>3. /\ Consumer(d, x)' = Consumer(d, x) /\ Worker(d, x)' = Worker(d, x)
        /\ Worker(d, x) # s
    BY DEF Consumer, Worker, s
  <2>4. CASE Consumer(d, x) = s
    <3>1. x = e
      BY <2>4 DEF Consumer, s
    <3>2. ~ InHand(s, d)
      BY <1>c DEF InHand
    <3>3. Due(d, x)' <= Due(d, x) /\ Due(d, x) \in Int /\ Due(d, x)' \in Int
      BY <1>2, <1>5, <2>3, <2>4, <3>1, <3>2 DEF Due, One
    <3>4. Limit(x)' = Limit(x) /\ Limit(x) \in Int
      BY <1>a DEF Limit
    <3> QED
      BY <1>a, <1>6, <2>2, <3>3, <3>4 DEF PushBounded
  <2>5. CASE Consumer(d, x) # s
    BY <1>2, <1>5, <1>6, <1>a, <2>2, <2>3, <2>5, BoundKept
  <2> QED
    BY <2>4, <2>5
<1>8. GivenTogether'
  <2> SUFFICES ASSUME NEW x \in published, NEW d1 \in audience[x], NEW d2 \in audience[x],
                      BackendOf[d1] = BackendOf[d2], conn[d1] # "gone", conn[d2] # "gone"
               PROVE  Given(d1, x)' <=> Given(d2, x)'
    BY <1>a, <1>6 DEF IInv, GivenTogether
  <2>1. d1 \in Conns /\ d2 \in Conns
    BY DEF IInv, TypeOK
  <2>2. /\ UserOf[d1] = Addressee[x] /\ UserOf[d2] = Addressee[x]
        /\ conn[d1] # "none" /\ conn[d2] # "none"
        /\ Given(d1, x) <=> Given(d2, x)
    BY DEF IInv, GivenTogether
  <2>3. conn[d1] \in InTable /\ conn[d2] \in InTable
    BY <2>1, <2>2 DEF IInv, TypeOK, InTable
  <2>4. ASSUME NEW d \in Conns
        PROVE  /\ x # e => (Given(d, x)' <=> Given(d, x))
               /\ BackendOf[d] # b => (Given(d, e)' <=> Given(d, e))
               /\ BackendOf[d] = b /\ UserOf[d] = Addressee[e] /\ conn[d] \in InTable
                    => Given(d, e)'
    BY <1>2, <1>6, <1>b, <1>c, <1>d, GivenBySend
  <2> QED
    BY <2>1, <2>2, <2>3, <2>4
<1> QED
  BY <1>2, <1>3, <1>4, <1>7, <1>8 DEF IInv

LEMMA PublishStep ==
    ASSUME IInv, NEW e \in Events, PublishFeedEvent(e)
    PROVE  IInv'
<1>a. /\ e \notin published /\ published' = published \union {e}
      /\ audience' = [audience EXCEPT ![e] =
            UNION {Registered(b, Addressee[e]) : b \in Backends}]
      /\ UNCHANGED <<alive, linked, buffer, connVars>>
  BY DEF PublishFeedEvent
<1> DEFINE s == <<Origin[e], e, "worker">>
<1>1. PICK failed \in BOOLEAN, arrived \in BOOLEAN :
        /\ IF Origin[e] \in linked /\ (failed \/ ~arrived) THEN SpendFault
           ELSE UNCHANGED faults
        /\ queue' = IF arrived THEN queue \union {e} ELSE queue
        /\ doubled' = IF failed /\ arrived THEN doubled \union {e} ELSE doubled
        /\ IF failed THEN StartSend(s) ELSE UNCHANGED sendVars
  BY DEF PublishFeedEvent
<1>b. s \in Senders /\ s[2] = e /\ s[1] = Origin[e]
  BY SendersTyped
<1> HIDE DEF s
<1>c. UNCHANGED <<conn, writing, received>>
  BY <1>a DEF connVars
<1>d. \A t \in sending : t[2] # e
  BY <1>a DEF IInv, Held
<1>e. s \notin sending
  BY <1>b, <1>d
<1>2. /\ sending' = (IF failed THEN sending \union {s} ELSE sending)
      /\ left' \in [Senders -> SUBSET Conns]
      /\ \A t \in Senders \ sending' : left'[t] = {}
      /\ Held'
      /\ \A t : \A c \in Conns : t # s => (InHand(t, c)' <=> InHand(t, c))
      /\ \A c \in Conns : InHand(s, c)' =>
            failed /\ c \in Registered(s[1], Addressee[e])
      /\ failed => \A c \in Conns : InHand(s, c)' <=> c \in Registered(s[1], Addressee[e])
  <2>1. CASE failed
    <3>1. StartSend(s) /\ s[2] \in published' /\ published \subseteq published'
      BY <1>1, <1>a, <1>b, <2>1
    <3> QED
      BY <2>1, <3>1, <1>a, <1>b, <1>e, SendBegins
  <2>2. CASE ~failed
    <3>1. UNCHANGED <<sending, left>>
      BY <1>1, <2>2 DEF sendVars
    <3>2. Held'
      BY <3>1, <1>a, <1>c DEF IInv, Held
    <3>3. \A t : \A c \in Conns : InHand(t, c)' <=> InHand(t, c)
      BY <3>1, <1>c DEF InHand
    <3>4. \A c \in Conns : ~ InHand(s, c)
      BY <1>e DEF InHand
    <3> QED
      BY <2>2, <3>1, <3>2, <3>3, <3>4 DEF IInv, TypeOK
  <2> QED
    BY <2>1, <2>2
<1>3. TypeOK'
  <2>1. sending' \subseteq Senders
    BY <1>2, <1>b DEF IInv, TypeOK
  <2>2. audience' \in [Events -> SUBSET Conns]
    BY <1>a DEF IInv, TypeOK, Registered
  <2>3. faults' \in 0..MaxFaults
    BY <1>1, PushAssumption DEF IInv, TypeOK, SpendFault
  <2>4. buffer' \in [Backends -> SUBSET published'] /\ queue' \subseteq published'
        /\ doubled' \subseteq published' /\ published' \subseteq Events
    BY <1>1, <1>a DEF IInv, TypeOK
  <2> QED
    BY <2>1, <2>2, <2>3, <2>4, <1>2, <1>a, <1>c DEF IInv, TypeOK
<1>4. ~ OnBus(e)
  BY <1>a DEF IInv, TypeOK, OnBus
<1>5. OnePlace'
  BY <1>1, <1>a, <1>4 DEF IInv, OnePlace, OnBus
<1>6. PushesBounded'
  <2> SUFFICES ASSUME NEW d \in Conns, NEW x \in Events
               PROVE  PushBounded(d, x)'
    BY DEF PushesBounded
  <2>2. received[<<d, x>>] \in Nat /\ PushBounded(d, x)
    BY DEF IInv, TypeOK, PushesBounded
  <2>3. /\ Consumer(d, x)' = Consumer(d, x) /\ Worker(d, x)' = Worker(d, x)
        /\ Consumer(d, x) # s
    BY DEF Consumer, Worker, s
  <2>4. CASE x = e
    <3>1. received'[<<d, x>>] = 0
      BY <1>a, <1>c, <2>2, <2>4 DEF PushBounded
    <3>2. ~ InHand(Consumer(d, x), d)'
      <4>1. ~ InHand(Consumer(d, x), d)
        BY <1>d, <2>4 DEF InHand, Consumer
      <4> QED
        BY <4>1, <1>2, <2>3
    <3>3. ~ failed => ~ InHand(Worker(d, x), d)'
      <4>1. ~ InHand(Worker(d, x), d)
        BY <1>d, <2>4 DEF InHand, Worker
      <4> QED
        BY <4>1, <1>2, <2>3
    <3>4. OnBus(x)' => arrived
      BY <1>1, <1>a, <1>4, <2>4 DEF OnBus
    <3>5. failed /\ arrived => Limit(x)' = 2
      BY <1>1, <2>4 DEF Limit
    <3>6. Limit(x)' \in {1, 2}
      BY DEF Limit
    <3>7. Due(d, x)' <= Limit(x)' /\ Due(d, x)' \in Int
      BY <2>3, <3>2, <3>3, <3>4, <3>5, <3>6 DEF Due, One
    <3> QED
      BY <1>a, <2>4, <3>1, <3>6, <3>7 DEF PushBounded
  <2>5. CASE x # e
    <3>1. OnBus(x)' => OnBus(x)
      BY <1>1, <1>a, <2>5 DEF OnBus
    <3>2. Worker(d, x) # s
      BY <2>5 DEF Worker, s
    <3>3. received'[<<d, x>>] = received[<<d, x>>] /\ doubled \subseteq doubled'
      BY <1>1, <1>c
    <3> QED
      BY <1>2, <1>a, <2>2, <2>3, <3>1, <3>2, <3>3, BoundKept
  <2> QED
    BY <2>4, <2>5
<1>7. GivenTogether'
  <2> SUFFICES ASSUME NEW x \in published', NEW d1 \in audience'[x], NEW d2 \in audience'[x]
               PROVE  /\ conn[d1] # "none" /\ UserOf[d1] = Addressee[x]
                      /\ BackendOf[d1] = BackendOf[d2] /\ conn[d1] # "gone" /\ conn[d2] # "gone"
                           => (Given(d1, x)' <=> Given(d2, x)')
    BY <1>c DEF GivenTogether
  <2>1. d1 \in Conns /\ d2 \in Conns
    BY <1>3 DEF TypeOK
  <2>4. ASSUME NEW d \in Conns, failed
        PROVE  /\ x # e => (Given(d, x)' <=> Given(d, x))
               /\ BackendOf[d] # s[1] => (Given(d, e)' <=> Given(d, e))
               /\ BackendOf[d] = s[1] /\ UserOf[d] = Addressee[e] /\ conn[d] \in InTable
                    => Given(d, e)'
    BY <1>2, <1>b, <1>c, <1>e, <2>4, GivenBySend
  <2>5. ASSUME NEW d \in Conns, ~ failed
        PROVE  Given(d, x)' <=> Given(d, x)
    <3>1. UNCHANGED <<sending, left, writing, received>>
      BY <1>1, <1>c, <2>5 DEF sendVars
    <3> QED
      BY <3>1 DEF Given, InHand
  <2>6. CASE x # e
    <3>1. x \in published /\ audience'[x] = audience[x]
      BY <2>6, <1>a DEF IInv, TypeOK
    <3> QED
      BY <2>1, <2>4, <2>5, <2>6, <3>1, <1>2 DEF IInv, GivenTogether
  <2>7. CASE x = e
    <3>1. audience'[e] = UNION {Registered(b, Addressee[e]) : b \in Backends}
      BY <1>a DEF IInv, TypeOK
    <3>2. \A d \in audience'[e] : UserOf[d] = Addressee[e] /\ conn[d] \in InTable
      BY <3>1 DEF Registered, InTable
    <3>3. \A d \in Conns : ~ Given(d, e)
      <4> SUFFICES ASSUME NEW d \in Conns PROVE ~ Given(d, e)
        OBVIOUS
      <4>1. received[<<d, e>>] = 0
        BY <1>a DEF IInv, PushesBounded, PushBounded
      <4> QED
        BY <4>1, <1>d DEF Given
    <3>4. conn[d1] # "none" /\ UserOf[d1] = Addressee[x]
      BY <3>2, <2>7 DEF InTable
    <3>5. BackendOf[d1] = BackendOf[d2] => (Given(d1, x)' <=> Given(d2, x)')
      BY <2>1, <2>4, <2>5, <2>7, <3>2, <3>3
    <3> QED
      BY <3>4, <3>5
  <2> QED
    BY <2>6, <2>7
<1> QED
  BY <1>2, <1>3, <1>5, <1>6, <1>7 DEF IInv

-----------------------------------------------------------------------------
LEMMA StepHolds == IInv /\ [Next]_vars => IInv'
<1> SUFFICES ASSUME IInv, [Next]_vars PROVE IInv'
  OBVIOUS
<1>1. ASSUME NEW e \in Events, PublishFeedEvent(e) PROVE IInv'
  BY <1>1, PublishStep
<1>2. ASSUME NEW b \in Backends, Deliver(b) \/ Consume(b) \/ LoseLink(b) \/ Crash(b)
      PROVE  IInv'
  BY <1>2, DeliverStep, ConsumeStep, LoseLinkStep, CrashStep
<1>3. ASSUME NEW s \in Senders, Send(s) PROVE IInv'
  BY <1>3, BeginWriteStep, EndWriteStep, EndSendStep DEF Send
<1>4. ASSUME NEW c \in Conns, \/ Connect(c) \/ BeginGreeting(c) \/ EndGreeting(c)
                             \/ ClientLeaves(c) \/ Remove(c)
      PROVE  IInv'
  BY <1>4, HandlerStep
<1>5. CASE UNCHANGED vars
  <2>1. UNCHANGED <<alive, linked, published, queue, buffer, audience, doubled, sending,
                    left, conn, writing, received, faults>>
    BY <1>5 DEF vars, busVars, sendVars, connVars
  <2>2. TypeOK' /\ OnePlace'
    BY <2>1 DEF IInv, TypeOK, OnePlace
  <2>3. \A e \in Events : OnBus(e)' => OnBus(e)
    BY <2>1 DEF OnBus
  <2> QED
    BY <2>1, <2>2, <2>3, BusMoves DEF sendVars, connVars
<1> QED
  BY <1>1, <1>2, <1>3, <1>4, <1>5 DEF Next

(* IInv holds in every state.                                              *)
THEOREM Inductive == Spec => []IInv
  BY InitHolds, StepHolds, PTL DEF Spec

(* The bus, the calls of Send and the connections have their types: what   *)
(* is on its way was published, and a call that has ended holds nothing.   *)
THEOREM PushTypeCorrect == Spec => []TypeOK
<1>1. IInv => TypeOK
  BY DEF IInv
<1> QED
  BY <1>1, Inductive, PTL

(* No call of Send writes to a connection its handler has removed: Remove  *)
(* waits for the calls that may have it in their lists.                    *)
THEOREM RemovedIsNotWritten == Spec => []NoWriteAfterRemove
<1>1. IInv => NoWriteAfterRemove
  <2> SUFFICES ASSUME IInv, NEW c \in Conns, conn[c] = "gone"
               PROVE  writing[c] = {} /\ \A s \in sending : c \notin left[s]
    BY DEF NoWriteAfterRemove
  <2>1. \A s \in sending : c \notin left[s]
    BY DEF IInv, Held, InTable
  <2>2. \A s \in writing[c] : FALSE
    BY DEF IInv, Held, InTable
  <2> QED
    BY <2>1, <2>2
<1> QED
  BY <1>1, Inductive, PTL

(* An event comes to a connection once, or twice when its publish failed   *)
(* although it had arrived, whatever panics and crashes come between.      *)
THEOREM EventsArePushedOnce == Spec => []PushedOnce
<1>1. IInv => PushedOnce
  <2> SUFFICES ASSUME IInv, NEW c \in Conns, NEW e \in Events
               PROVE  received[<<c, e>>] <= IF e \in doubled THEN 2 ELSE 1
    BY DEF PushedOnce
  <2>1. PushBounded(c, e) /\ received[<<c, e>>] \in Nat
    BY DEF IInv, TypeOK, PushesBounded
  <2>2. Due(c, e) \in Nat
    BY DEF Due, One
  <2> QED
    BY <2>1, <2>2 DEF PushBounded, Limit
<1> QED
  BY <1>1, Inductive, PTL

(* When an event is done with, of the connections of its user that stayed  *)
(* open at one backend either all have it or none.                         *)
THEOREM ConnectionsGetItTogether == Spec => []AllConnectionsOrNone
<1>1. IInv => AllConnectionsOrNone
  <2> SUFFICES ASSUME IInv, NEW e \in published, ~ UnderWay(e),
                      NEW c \in audience[e], NEW d \in audience[e],
                      BackendOf[c] = BackendOf[d], conn[c] = "open", conn[d] = "open"
               PROVE  received[<<c, e>>] > 0 <=> received[<<d, e>>] > 0
    BY DEF AllConnectionsOrNone
  <2>1. Given(c, e) <=> Given(d, e)
    BY DEF IInv, GivenTogether
  <2>2. \A s \in sending : s[2] # e
    BY DEF UnderWay
  <2> QED
    BY <2>1, <2>2 DEF Given
<1> QED
  BY <1>1, Inductive, PTL

-----------------------------------------------------------------------------
(* What is done with stays done.                                           *)
Stays(e) ==
    /\ ~ UnderWay(e)'
    /\ \A c \in Conns : received'[<<c, e>>] = received[<<c, e>>]

(* A step that moves no event, but may let some be lost.                   *)
LEMMA NothingBegins ==
    ASSUME NEW e, ~ UnderWay(e), queue' \subseteq queue, sending' \subseteq sending,
           \A b \in Backends : buffer'[b] \subseteq buffer[b],
           UNCHANGED received
    PROVE  Stays(e)
  BY DEF UnderWay, Stays

LEMMA SettledStep ==
    ASSUME IInv, [Next]_vars, NEW e \in published, ~ UnderWay(e)
    PROVE  Stays(e)
<1> USE DEF IInv
<1>1. buffer \in [Backends -> SUBSET published] /\ received \in [Conns \X Events -> Nat]
  BY DEF TypeOK
<1>2. e \notin queue /\ (\A b \in Backends : e \notin buffer[b])
      /\ \A s \in sending : s[2] # e
  BY DEF UnderWay
<1>3. ASSUME NEW f \in Events, PublishFeedEvent(f) PROVE Stays(e)
  <2>1. f # e /\ queue' \subseteq queue \union {f} /\ UNCHANGED <<buffer, received>>
    BY <1>3 DEF PublishFeedEvent, connVars
  <2>2. sending' \subseteq sending \union {<<Origin[f], f, "worker">>}
    BY <1>3 DEF PublishFeedEvent, StartSend, sendVars
  <2> QED
    BY <1>2, <2>1, <2>2 DEF UnderWay, Stays
<1>4. ASSUME NEW b \in Backends, Deliver(b) PROVE Stays(e)
  <2>1. PICK f \in queue : queue' = queue \ {f}
                           /\ buffer' = [buffer EXCEPT ![b] = @ \union {f}]
    BY <1>4 DEF Deliver
  <2>2. f # e /\ UNCHANGED <<sending, received>>
    BY <1>2, <1>4 DEF Deliver, sendVars, connVars
  <2>3. \A a \in Backends : buffer'[a] \subseteq buffer[a] \union {f}
    BY <1>1, <2>1
  <2> QED
    BY <1>2, <2>1, <2>2, <2>3 DEF UnderWay, Stays
<1>5. ASSUME NEW b \in Backends, Consume(b) PROVE Stays(e)
  <2>1. PICK f \in buffer[b] : /\ buffer' = [buffer EXCEPT ![b] = @ \ {f}]
                               /\ StartSend(<<b, f, "consumer">>)
    BY <1>5 DEF Consume
  <2>2. f # e /\ UNCHANGED <<queue, received>>
    BY <1>2, <1>5 DEF Consume, connVars
  <2>3. \A a \in Backends : buffer'[a] \subseteq buffer[a]
    BY <1>1, <2>1
  <2>4. sending' = sending \union {<<b, f, "consumer">>}
    BY <2>1 DEF StartSend
  <2> QED
    BY <1>2, <2>2, <2>3, <2>4 DEF UnderWay, Stays
<1>6. ASSUME NEW b \in Backends, LoseLink(b) PROVE Stays(e)
  <2>1. \A a \in Backends : buffer'[a] \subseteq buffer[a]
    BY <1>1, <1>6 DEF LoseLink
  <2> QED
    BY <1>6, <2>1, NothingBegins DEF LoseLink, sendVars, connVars
<1>7. ASSUME NEW b \in Backends, Die(b), UNCHANGED <<queue, received>> PROVE Stays(e)
  <2>1. sending' \subseteq sending /\ \A a \in Backends : buffer'[a] \subseteq buffer[a]
    BY <1>1, <1>7 DEF Die
  <2> QED
    BY <1>7, <2>1, NothingBegins
<1>8. ASSUME NEW b \in Backends, Crash(b) PROVE Stays(e)
  BY <1>7, <1>8 DEF Crash
<1>9. ASSUME NEW s \in Senders, BeginWrite(s) PROVE Stays(e)
  <2>1. UNCHANGED <<queue, received>>
    BY <1>9 DEF BeginWrite
  <2>2. CASE UNCHANGED <<buffer, sending>>
    BY <2>1, <2>2, NothingBegins
  <2>3. CASE Die(s[1])
    BY <1>7, <2>1, <2>3, SendersTyped
  <2> QED
    BY <1>9, <2>2, <2>3 DEF BeginWrite
<1>10. ASSUME NEW s \in Senders, NEW c \in Conns, EndWrite(s, c) PROVE Stays(e)
  <2>1. s \in writing[c] /\ received' = [received EXCEPT ![<<c, s[2]>>] = @ + 1]
    BY <1>10 DEF EndWrite
  <2>2. s[2] # e
    BY <1>2, <2>1, SendersTyped DEF Held
  <2>3. \A d \in Conns : received'[<<d, e>>] = received[<<d, e>>]
    BY <1>1, <2>1, <2>2, SendersTyped DEF TypeOK
  <2>4. UNCHANGED <<queue, buffer, sending>>
    BY <1>10 DEF EndWrite, busVars, sendVars
  <2> QED
    BY <1>2, <2>3, <2>4 DEF UnderWay, Stays
<1>11. ASSUME NEW s \in Senders, EndSend(s) PROVE Stays(e)
  BY <1>11, NothingBegins DEF EndSend, busVars, connVars
<1>12. ASSUME NEW c \in Conns,
              \/ Connect(c) \/ BeginGreeting(c) \/ EndGreeting(c) \/ ClientLeaves(c)
              \/ Remove(c)
       PROVE  Stays(e)
  <2>1. UNCHANGED <<busVars, sendVars, received>>
    BY <1>12 DEF Connect, BeginGreeting, EndGreeting, ClientLeaves, Remove
  <2> QED
    BY <2>1, NothingBegins DEF busVars, sendVars
<1>13. CASE UNCHANGED vars
  BY <1>13, NothingBegins DEF vars, busVars, sendVars, connVars
<1> QED
  BY <1>3, <1>4, <1>5, <1>6, <1>8, <1>9, <1>10, <1>11, <1>12, <1>13 DEF Next, Send

(* An event that was published and is on its way no longer never is again, *)
(* and no connection gets it any more: neither a late delivery nor a Send  *)
(* of a worker that gave up on the broker brings it back.                  *)
SettledForever == [][\A e \in published : ~ UnderWay(e) => Stays(e)]_vars

(* This holds for any number of backends, connections, events and faults.  *)
THEOREM EventsSettleOnce == Spec => SettledForever
<1>1. IInv /\ [Next]_vars => (\A e \in published : ~ UnderWay(e) => Stays(e))
  BY SettledStep
<1> QED
  BY <1>1, Inductive, PTL DEF Spec, SettledForever
=============================================================================

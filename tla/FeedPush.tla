------------------------------ MODULE FeedPush ------------------------------
(***************************************************************************)
(* The push of feed events to websockets: PublishFeedEvent, the consumer   *)
(* every backend runs on the one queue feed_push_queue                     *)
(* (src/services/rabbitmq.go), the table of connections                    *)
(* (src/services/wsmanager.go) and the handler of a connection             *)
(* (src/api/handlers/ws.go).                                               *)
(*                                                                         *)
(* WSConnManager.Send holds the table's read lock while it writes to one   *)
(* connection of the user after the other; Add and Remove take the write   *)
(* lock.  Several goroutines can write to a connection at once: senders,   *)
(* and the handler that greets.  gorilla/websocket panics when it notices, *)
(* which it need not: in the handler gin recovers, in any other goroutine  *)
(* the process dies.  No write has a deadline: a client that does not read *)
(* holds whoever writes to it, and a Send that is held holds the lock.     *)
(*                                                                         *)
(* An event is the push of one post to one user: a call of the worker that *)
(* fans the post out (updateFriendsFeeds in src/services/posts.go).        *)
(***************************************************************************)
EXTENDS Integers, FiniteSets

CONSTANTS
    Backends,    \* the backend processes
    Conns,       \* websocket connections
    UserOf,      \* the user of each of them
    BackendOf,   \* the backend that serves it
    Stalling,    \* the connections whose clients may stop reading
    Events,
    Addressee,   \* the user an event is for
    Origin,      \* the backend whose worker publishes it
    MaxFaults    \* bound on lost messages, lost links and crashes

ASSUME PushAssumption ==
    /\ BackendOf \in [Conns -> Backends]
    /\ Stalling \subseteq Conns
    /\ Origin \in [Events -> Backends]
    /\ DOMAIN UserOf = Conns
    /\ DOMAIN Addressee = Events
    /\ MaxFaults \in Nat

(* A call of Send: by the consumer of a backend, or by a worker that could *)
(* not publish.                                                            *)
Senders == (Backends \X Events \X {"consumer"}) \union
           {<<Origin[e], e, "worker">> : e \in Events}

(* The handler of a connection, which writes the greeting.                 *)
Handler == <<"handler">>

VARIABLES
    alive,       \* the backends that run
    linked,      \* the backends whose channel to RabbitMQ is open
    published,   \* the events for which PublishFeedEvent was called
    queue,       \* the events in feed_push_queue
    buffer,      \* buffer[b]: the events handed to the consumer of b, which
                 \* are acknowledged by that
    sending,     \* the calls of Send under way
    left,        \* left[s]: the connections s has still to write to
    conn,        \* where the handler of each connection is
    writing,     \* writing[c]: who is inside WriteMessage on c
    received,    \* history: how often each event was written to each connection
    audience,    \* history: audience[e]: the connections open when e was
                 \* published
    doubled,     \* history: the events whose failed publish had arrived
    faults

busVars  == <<alive, linked, published, queue, buffer, audience, doubled>>
sendVars == <<sending, left>>
connVars == <<conn, writing, received>>
vars == <<busVars, sendVars, connVars, faults>>

TypeOK ==
    /\ alive \subseteq Backends
    /\ linked \subseteq alive
    /\ published \subseteq Events
    /\ queue \subseteq published
    /\ buffer \in [Backends -> SUBSET published]
    /\ sending \subseteq Senders
    /\ left \in [Senders -> SUBSET Conns]
    /\ \A t \in Senders \ sending : left[t] = {}
    /\ conn \in [Conns -> {"none", "greeting", "open", "closing", "gone"}]
    /\ writing \in [Conns -> SUBSET (Senders \union {Handler})]
    /\ received \in [Conns \X Events -> Nat]
    /\ audience \in [Events -> SUBSET Conns]
    /\ doubled \subseteq published
    /\ faults \in 0..MaxFaults

Init ==
    /\ alive = Backends
    /\ linked = Backends
    /\ published = {}
    /\ queue = {}
    /\ buffer = [b \in Backends |-> {}]
    /\ sending = {}
    /\ left = [s \in Senders |-> {}]
    /\ conn = [c \in Conns |-> "none"]
    /\ writing = [c \in Conns |-> {}]
    /\ received = [ce \in Conns \X Events |-> 0]
    /\ audience = [e \in Events |-> {}]
    /\ doubled = {}
    /\ faults = 0

SpendFault == faults < MaxFaults /\ faults' = faults + 1

(* The connections of u in the table of b.                                 *)
Registered(b, u) ==
    {c \in Conns : /\ BackendOf[c] = b /\ UserOf[c] = u
                   /\ conn[c] \in {"greeting", "open", "closing"}}

(* The write lock of the table of b is free for the taking.                *)
Unlocked(b) == \A s \in sending : s[1] # b

(* The process of b dies with all it holds.                                *)
Die(b) ==
    LET mine == {c \in Conns : BackendOf[c] = b} IN
    /\ alive' = alive \ {b}
    /\ linked' = linked \ {b}
    /\ buffer' = [buffer EXCEPT ![b] = {}]
    /\ sending' = {s \in sending : s[1] # b}
    /\ left' = [s \in Senders |-> IF s[1] = b THEN {} ELSE left[s]]
    /\ conn' = [c \in Conns |-> IF c \in mine THEN "gone" ELSE conn[c]]
    /\ writing' = [c \in Conns |-> IF c \in mine THEN {} ELSE writing[c]]

-----------------------------------------------------------------------------
(* The worker: PublishFeedEvent, and sendDirectWSEvent on an error.        *)

StartSend(s) ==
    /\ sending' = sending \union {s}
    /\ left' = [left EXCEPT ![s] = Registered(s[1], Addressee[s[2]])]

(* The broker confirms nothing: a publish that succeeds may be lost, and   *)
(* one that fails may have arrived.                                        *)
PublishFeedEvent(e) ==
    /\ e \notin published
    /\ Origin[e] \in alive
    /\ published' = published \union {e}
    /\ audience' = [audience EXCEPT ![e] =
           UNION {Registered(b, Addressee[e]) : b \in Backends}]
    /\ \E failed, arrived \in BOOLEAN :
         /\ Origin[e] \notin linked => failed /\ ~arrived
         /\ IF Origin[e] \in linked /\ (failed \/ ~arrived) THEN SpendFault
            ELSE UNCHANGED faults
         /\ queue' = IF arrived THEN queue \union {e} ELSE queue
         /\ doubled' = IF failed /\ arrived THEN doubled \union {e} ELSE doubled
         /\ IF failed THEN StartSend(<<Origin[e], e, "worker">>)
            ELSE UNCHANGED sendVars
    /\ UNCHANGED <<alive, linked, buffer, connVars>>

-----------------------------------------------------------------------------
(* The consumers.                                                          *)

(* Mutant: the message stays in the queue.                                 *)
DeliverAgain(b) ==
    /\ b \in linked
    /\ \E e \in queue : buffer' = [buffer EXCEPT ![b] = @ \union {e}]
    /\ UNCHANGED <<alive, linked, published, queue, audience, doubled, sendVars,
                   connVars, faults>>

(* The broker hands a message to one of the consumers of the queue.        *)
Deliver(b) ==
    /\ b \in linked
    /\ \E e \in queue :
         /\ queue' = queue \ {e}
         /\ buffer' = [buffer EXCEPT ![b] = @ \union {e}]
    /\ UNCHANGED <<alive, linked, published, audience, doubled, sendVars,
                   connVars, faults>>

Consuming(b) == \E s \in sending : s[1] = b /\ s[3] = "consumer"

(* The consumer is one goroutine: it takes a message when the last one is  *)
(* sent.                                                                   *)
Consume(b) ==
    /\ b \in alive
    /\ ~Consuming(b)
    /\ \E e \in buffer[b] :
         /\ buffer' = [buffer EXCEPT ![b] = @ \ {e}]
         /\ StartSend(<<b, e, "consumer">>)
    /\ UNCHANGED <<alive, linked, published, queue, audience, doubled,
                   connVars, faults>>

-----------------------------------------------------------------------------
(* Send.                                                                   *)

Writing(s) == \E c \in Conns : s \in writing[c]

(* WriteMessage begins.  When somebody is writing already it may panic: a  *)
(* writer that finds out only when it ends is taken to find out here.      *)
BeginWrite(s) ==
    /\ s \in sending
    /\ ~Writing(s)
    /\ \E c \in left[s] :
         \/ /\ left' = [left EXCEPT ![s] = @ \ {c}]
            /\ writing' = [writing EXCEPT ![c] = @ \union {s}]
            /\ UNCHANGED <<alive, linked, buffer, sending, conn>>
         \/ writing[c] # {} /\ Die(s[1])
    /\ UNCHANGED <<published, queue, audience, doubled, received, faults>>

(* WriteMessage on c returns; an error, for a client that went away, is    *)
(* ignored.                                                                *)
EndWrite(s, c) ==
    /\ s \in writing[c]
    /\ writing' = [writing EXCEPT ![c] = @ \ {s}]
    /\ received' = [received EXCEPT ![<<c, s[2]>>] = @ + 1]
    /\ UNCHANGED <<busVars, sendVars, conn, faults>>

(* Mutant: the loop ends after the first connection.                       *)
EndSendEarly(s) ==
    /\ s \in sending
    /\ ~Writing(s)
    /\ sending' = sending \ {s}
    /\ UNCHANGED <<busVars, left, connVars, faults>>

(* Mutant: the lock is not released when the user has no connection.       *)
EndSendKeepsLock(s) ==
    /\ s \in sending
    /\ ~Writing(s)
    /\ left[s] = {}
    /\ Registered(s[1], Addressee[s[2]]) # {}
    /\ sending' = sending \ {s}
    /\ UNCHANGED <<busVars, left, connVars, faults>>

EndSend(s) ==
    /\ s \in sending
    /\ ~Writing(s)
    /\ left[s] = {}
    /\ sending' = sending \ {s}
    /\ UNCHANGED <<busVars, left, connVars, faults>>

Send(s) ==
    BeginWrite(s) \/ (\E c \in Conns : EndWrite(s, c)) \/ EndSend(s)

(* What Send does without a client that has stopped reading.               *)
Proceed(s) ==
    BeginWrite(s) \/ (\E c \in Conns \ Stalling : EndWrite(s, c)) \/ EndSend(s)

-----------------------------------------------------------------------------
(* WSFeedHandler.                                                          *)

(* Add, under the write lock.                                              *)
Connect(c) ==
    /\ conn[c] = "none"
    /\ BackendOf[c] \in alive
    /\ Unlocked(BackendOf[c])
    /\ conn' = [conn EXCEPT ![c] = "greeting"]
    /\ UNCHANGED <<busVars, sendVars, writing, received, faults>>

(* The greeting is written without the lock.  If that panics the deferred  *)
(* Remove and Close still run.                                             *)
BeginGreeting(c) ==
    /\ conn[c] = "greeting"
    /\ Handler \notin writing[c]
    /\ \/ writing' = [writing EXCEPT ![c] = @ \union {Handler}] /\ UNCHANGED conn
       \/ /\ writing[c] # {}
          /\ conn' = [conn EXCEPT ![c] = "closing"]
          /\ UNCHANGED writing
    /\ UNCHANGED <<busVars, sendVars, received, faults>>

EndGreeting(c) ==
    /\ Handler \in writing[c]
    /\ writing' = [writing EXCEPT ![c] = @ \ {Handler}]
    /\ conn' = [conn EXCEPT ![c] = "open"]
    /\ UNCHANGED <<busVars, sendVars, received, faults>>

(* ReadMessage fails: the client has gone.                                 *)
ClientLeaves(c) ==
    /\ conn[c] = "open"
    /\ conn' = [conn EXCEPT ![c] = "closing"]
    /\ UNCHANGED <<busVars, sendVars, writing, received, faults>>

(* Mutant: the table is changed without the lock.                          *)
RemoveUnlocked(c) ==
    /\ conn[c] = "closing"
    /\ conn' = [conn EXCEPT ![c] = "gone"]
    /\ UNCHANGED <<busVars, sendVars, writing, received, faults>>

(* Remove, under the write lock, and then Close.                           *)
Remove(c) ==
    /\ conn[c] = "closing"
    /\ Unlocked(BackendOf[c])
    /\ conn' = [conn EXCEPT ![c] = "gone"]
    /\ UNCHANGED <<busVars, sendVars, writing, received, faults>>

-----------------------------------------------------------------------------
(* The channel to RabbitMQ closes and is not opened again: publishing      *)
(* fails from now on and the consumer gets nothing but closed-channel      *)
(* reads.  The client library may drop messages it still has in hand.      *)
LoseLink(b) ==
    /\ b \in linked
    /\ SpendFault
    /\ linked' = linked \ {b}
    /\ \E kept \in SUBSET buffer[b] : buffer' = [buffer EXCEPT ![b] = kept]
    /\ UNCHANGED <<alive, published, queue, audience, doubled, sendVars,
                   connVars>>

Crash(b) ==
    /\ b \in alive
    /\ SpendFault
    /\ Die(b)
    /\ UNCHANGED <<published, queue, audience, doubled, received>>

Next ==
    \/ \E e \in Events : PublishFeedEvent(e)
    \/ \E b \in Backends : Deliver(b) \/ Consume(b) \/ LoseLink(b) \/ Crash(b)
    \/ \E s \in Senders : Send(s)
    \/ \E c \in Conns : \/ Connect(c) \/ BeginGreeting(c) \/ EndGreeting(c)
                        \/ ClientLeaves(c) \/ Remove(c)

Spec == Init /\ [][Next]_vars

(* The goroutines of the processes run and the broker delivers.  Users may *)
(* do as they like: a write ends for a client that reads; for the others   *)
(* it may or may not.                                                      *)
FairSpec ==
    /\ Spec
    /\ \A b \in Backends : WF_vars(Deliver(b)) /\ WF_vars(Consume(b))
    /\ \A s \in Senders : WF_vars(Proceed(s))
    /\ \A c \in Conns \ Stalling : WF_vars(EndGreeting(c))
    /\ \A c \in Conns : WF_vars(Remove(c))

-----------------------------------------------------------------------------
(* Send never touches a connection whose handler has left the table: the   *)
(* handler closes it only after Remove, and Remove waits for every Send    *)
(* that may have it in its list.                                           *)
NoWriteAfterRemove ==
    \A c \in Conns : conn[c] = "gone" =>
        writing[c] = {} /\ \A s \in sending : c \notin left[s]

(* An event reaches a connection at most once, whatever panics and crashes *)
(* come between, but for a failed publish that had arrived and is sent     *)
(* directly as well, which can make it twice.                              *)
PushedOnce ==
    \A c \in Conns, e \in Events :
        received[<<c, e>>] <= IF e \in doubled THEN 2 ELSE 1

(* An event on its way to a user.                                          *)
UnderWay(e) ==
    \/ e \in queue
    \/ \E b \in Backends : e \in buffer[b]
    \/ \E s \in sending : s[2] = e

(* Send misses no connection: when an event is done with, either all the   *)
(* connections its user kept open at a backend have it, or none has.       *)
AllConnectionsOrNone ==
    \A e \in published : ~UnderWay(e) =>
        \A c, d \in audience[e] :
            /\ BackendOf[c] = BackendOf[d]
            /\ conn[c] = "open" /\ conn[d] = "open"
            => (received[<<c, e>>] > 0 <=> received[<<d, e>>] > 0)

(* A client that does not read holds a Send of a backend that has e, and   *)
(* with the Send the lock and perhaps the consumer.                        *)
HeldUp(e) ==
    \E c \in Stalling : \E s \in writing[c] \ {Handler} :
        \/ e \in buffer[s[1]]
        \/ \E t \in sending : t[1] = s[1] /\ t[2] = e

(* No event waits for ever while some backend still consumes: it is held   *)
(* up neither in the queue nor by a Send, of its own or of another event,  *)
(* that keeps the lock or the consumer, unless the backend that has it     *)
(* writes for ever to a client that has stopped reading.                   *)
PublishedIsSettled ==
    \A e \in Events :
        <>[]HeldUp(e) \/ (e \in published ~> (~UnderWay(e) \/ linked = {}))
=============================================================================

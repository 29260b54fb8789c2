---------------------------- MODULE UdpListener ---------------------------
(* The life of the host (monitor/host/server.py): main starts a listener    *)
(* thread per port, serves until interrupted, and stops the listeners, each *)
(* by setting its event and closing its socket if it has one, while the     *)
(* thread may be anywhere between creating the socket and handing a packet  *)
(* to the aggregator.  (After that main returns and the process ends, which *)
(* ends daemon threads anyway; what stop promises by itself is shown here.) *)
EXTENDS Naturals, Sequences

CONSTANTS Listeners,   \* the listeners, in the order main starts and stops them
          MaxPackets   \* bound: packets sent to one port

ASSUME ListenerAssumption ==
    /\ Listeners \in Seq(STRING) \ {<<>>} /\ MaxPackets \in Nat
    /\ \A i, j \in DOMAIN Listeners : Listeners[i] = Listeners[j] => i = j

Kinds == {Listeners[i] : i \in DOMAIN Listeners}

VARIABLES
    main, next,   \* where main is, and the listener it is at
    event,        \* listeners whose stop_event is set
    pc,           \* where each thread is
    sock,         \* its socket: none, open, closed
    assigned,     \* self.socket is not None
    sent, queue,  \* packets sent to its port, and waiting in its socket
    received, late   \* history: packets ingested, and those since stop() began

thread == <<pc, sock, assigned, received, late>>
vars == <<main, next, event, thread, sent, queue>>

Init ==
    /\ main = "start" /\ next = 1 /\ event = {}
    /\ pc = [k \in Kinds |-> "new"]
    /\ sock = [k \in Kinds |-> "none"] /\ assigned = [k \in Kinds |-> FALSE]
    /\ sent = [k \in Kinds |-> 0] /\ queue = sent
    /\ received = sent /\ late = sent

Goto(k, l) == pc' = [pc EXCEPT ![k] = l]

----------------------------------------------------------------------------
\* main

\* On to the next listener, or past the last.
Advance(here, then) ==
    IF next < Len(Listeners) THEN main' = here /\ next' = next + 1
    ELSE main' = then /\ next' = 1

StartListener ==
    /\ main = "start"
    /\ Goto(Listeners[next], "create")
    /\ Advance("start", "http")
    /\ UNCHANGED <<event, sock, assigned, received, late, sent, queue>>

\* The HTTP server is created outside the try: if its port is taken, main ends
\* with the exception.  Otherwise it serves until it is interrupted.
Serve ==
    /\ \/ main = "http" /\ main' \in {"serving", "failed"}
       \/ main = "serving" /\ main' = "event"
    /\ UNCHANGED <<next, event, thread, sent, queue>>

\* stop(): the event first ...
SetEvent ==
    /\ main = "event"
    /\ event' = event \cup {Listeners[next]}
    /\ main' = "close"
    /\ UNCHANGED <<next, thread, sent, queue>>

ClosedSockets(k) == IF assigned[k] THEN [sock EXCEPT ![k] = "closed"] ELSE sock

\* ... then the socket, if the thread has stored one.
CloseSocket ==
    /\ main = "close"
    /\ sock' = ClosedSockets(Listeners[next])
    /\ Advance("event", "stopped")
    /\ UNCHANGED <<event, pc, assigned, received, late, sent, queue>>

----------------------------------------------------------------------------
\* The thread

\* socket(), bind, settimeout.  A port that is taken ends the thread: the
\* host goes on without this listener.
Create(k) ==
    /\ pc[k] = "create"
    /\ \/ Goto(k, "assign") /\ sock' = [sock EXCEPT ![k] = "open"]
       \/ Goto(k, "crashed") /\ UNCHANGED sock
    /\ UNCHANGED <<main, next, event, assigned, received, late, sent, queue>>

Assign(k) ==
    /\ pc[k] = "assign"
    /\ assigned' = [assigned EXCEPT ![k] = TRUE]
    /\ Goto(k, "test")
    /\ UNCHANGED <<main, next, event, sock, received, late, sent, queue>>

\* Mutant: only closing the socket ends the loop.
LoopsForever(k) == TRUE

\* while not self.stop_event.is_set()
Loops(k) == k \notin event

Test(k) ==
    /\ pc[k] = "test"
    /\ Goto(k, IF Loops(k) THEN "receive" ELSE "ended")
    /\ UNCHANGED <<main, next, event, sock, assigned, received, late, sent, queue>>

\* recvfrom is called, which raises if the socket has been closed.
Call(k) ==
    /\ pc[k] = "receive"
    /\ Goto(k, IF sock[k] = "closed" THEN "ended" ELSE "poll")
    /\ UNCHANGED <<main, next, event, sock, assigned, received, late, sent, queue>>

\* A packet comes: recvfrom returns it, or finds its socket closed meanwhile.
Receive(k) ==
    /\ pc[k] = "poll" /\ queue[k] > 0
    /\ queue' = [queue EXCEPT ![k] = @ - 1]
    /\ Goto(k, IF sock[k] = "closed" THEN "ended" ELSE "ingest")
    /\ UNCHANGED <<main, next, event, sock, assigned, received, late, sent>>

\* Mutant: the call blocks until a packet comes.
TimesOutNever(k) == FALSE

\* settimeout(0.5): nothing came, or the socket was closed under the call.
TimesOut(k) == queue[k] = 0 \/ sock[k] = "closed"

AfterTimeout == "test"

Timeout(k) ==
    /\ pc[k] = "poll" /\ TimesOut(k)
    /\ Goto(k, AfterTimeout)
    /\ UNCHANGED <<main, next, event, sock, assigned, received, late, sent, queue>>

\* Mutant: a ProtocolError ends the thread.
AfterPacketFragile == {"test", "ended"}

\* The packet was ingested, or a ProtocolError is passed over.
AfterPacket == {"test"}

Ingest(k) ==
    /\ pc[k] = "ingest"
    /\ received' = [received EXCEPT ![k] = @ + 1]
    /\ late' = [late EXCEPT ![k] = IF k \in event THEN @ + 1 ELSE @]
    /\ \E l \in AfterPacket : Goto(k, l)
    /\ UNCHANGED <<main, next, event, sock, assigned, sent, queue>>

\* An agent sends; without an open socket the packet is lost.
Send(k) ==
    /\ sent[k] < MaxPackets
    /\ sent' = [sent EXCEPT ![k] = @ + 1]
    /\ queue' = [queue EXCEPT ![k] = IF sock[k] = "open" THEN @ + 1 ELSE @]
    /\ UNCHANGED <<main, next, event, thread>>

Run(k) ==
    \/ Create(k) \/ Assign(k) \/ Test(k) \/ Call(k)
    \/ Receive(k) \/ Timeout(k) \/ Ingest(k)

Main == StartListener \/ Serve \/ SetEvent \/ CloseSocket

\* Nothing runs on once main has failed: the process ends.
Next ==
    /\ main # "failed"
    /\ Main \/ \E k \in Kinds : Run(k) \/ Send(k)

\* Threads are scheduled, main stops what it has begun to stop; it need not be
\* interrupted, and nothing needs to be sent.
Spec ==
    /\ Init /\ [][Next]_vars
    /\ WF_vars(main # "serving" /\ Main)
    /\ \A k \in Kinds : WF_vars(main # "failed" /\ Run(k))

----------------------------------------------------------------------------
\* Properties

\* Every variable stays in its range; only a stored socket is ever closed.
TypeOK ==
    /\ main \in {"start", "http", "serving", "failed", "event", "close", "stopped"}
    /\ next \in DOMAIN Listeners /\ event \subseteq Kinds
    /\ pc \in [Kinds -> {"new", "create", "assign", "test", "receive", "poll", "ingest",
                         "ended", "crashed"}]
    /\ sock \in [Kinds -> {"none", "open", "closed"}]
    /\ \A k \in Kinds :
          /\ sent[k] <= MaxPackets /\ received[k] + queue[k] <= sent[k]
          /\ assigned[k] <=> sock[k] # "none" /\ pc[k] # "assign"
          /\ sock[k] = "closed" => assigned[k]

\* No packet, however malformed, ends a listener: it ends because it was
\* stopped, or never got its port.
EndsOnlyStopped == \A k \in Kinds : pc[k] = "ended" => k \in event

\* Once stop() has begun the aggregator gets at most the packet that was
\* already on its way.
AtMostOneLate == \A k \in Kinds : late[k] <= 1

\* A socket that stop() leaves open, because the thread had not stored it yet,
\* is never read from: the thread ends at its first look at the event.
LeftOpenUnused ==
    \A k \in Kinds : main = "stopped" /\ sock[k] = "open" => received[k] = 0

\* However the threads are started, fed and stopped: they end when stopped and
\* only then, and hand over next to nothing once they are.
StopsCleanly == TypeOK /\ EndsOnlyStopped /\ AtMostOneLate /\ LeftOpenUnused

\* Each listener that was stopped ends, also if it waits for a packet that
\* never comes while its socket is closed under it.
StoppedListenersEnd ==
    \A k \in Kinds : k \in event ~> pc[k] \in {"ended", "crashed"}

\* While the host serves, a packet in the socket reaches the aggregator.
PacketsReachAggregator ==
    \A k \in Kinds : queue[k] > 0 ~> queue[k] = 0 \/ k \in event \/ main = "failed"
=============================================================================

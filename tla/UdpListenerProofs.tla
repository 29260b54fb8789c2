------------------------- MODULE UdpListenerProofs ------------------------
(* A listener that is stopped, for every number of listeners and packets.   *)
EXTENDS UdpListener, SequenceTheorems, TLAPS

\* main has passed listener k on its way to its n-th.
Before(k, n) == \E i \in DOMAIN Listeners : Listeners[i] = k /\ i < n

\* Its stop() has returned.
Done(k) == main = "stopped" \/ (main \in {"event", "close"} /\ Before(k, next))

TypeInv ==
    /\ main \in {"start", "http", "serving", "failed", "event", "close", "stopped"}
    /\ next \in DOMAIN Listeners
    /\ pc \in [Kinds -> {"new", "create", "assign", "test", "receive", "poll", "ingest",
                         "ended", "crashed"}]
    /\ sock \in [Kinds -> {"none", "open", "closed"}] /\ assigned \in [Kinds -> BOOLEAN]
    /\ sent \in [Kinds -> Nat] /\ queue \in [Kinds -> Nat]
    /\ received \in [Kinds -> Nat] /\ late \in [Kinds -> Nat]

\* Where main is says which threads run and which events are set.
MainInv ==
    /\ event \subseteq Kinds /\ (main \in {"http", "serving"} => next = 1)
    /\ \A k \in Kinds :
          /\ pc[k] = "new" <=> main = "start" /\ ~Before(k, next)
          /\ k \in event <=> Done(k) \/ (main = "close" /\ k = Listeners[next])

\* A thread has stored its socket once it is in its loop, and only stop()
\* closes it.
SocketOf(k) ==
    /\ pc[k] \in {"new", "create", "crashed"} => sock[k] = "none" /\ ~assigned[k]
    /\ pc[k] = "assign" => sock[k] = "open" /\ ~assigned[k]
    /\ pc[k] \in {"test", "receive", "poll", "ingest", "ended"} =>
          sock[k] # "none" /\ assigned[k]
    /\ sock[k] = "closed" => k \in event

\* What has been handed over; a thread that stop() has left with an open
\* socket has handed over nothing and never will.
PacketsOf(k) ==
    /\ sent[k] <= MaxPackets
    /\ received[k] + queue[k] + (IF pc[k] = "ingest" THEN 1 ELSE 0) <= sent[k]
    /\ pc[k] = "ended" => k \in event
    /\ k \notin event => late[k] = 0
    /\ late[k] <= 1 /\ (late[k] = 1 => pc[k] \in {"test", "ended"})
    /\ pc[k] \in {"new", "create", "assign", "crashed"} => received[k] = 0
    /\ Done(k) /\ sock[k] # "closed" =>
          received[k] = 0 /\ pc[k] \in {"create", "assign", "test", "ended", "crashed"}

ThreadInv == \A k \in Kinds : SocketOf(k) /\ PacketsOf(k)

ListenerInv == TypeInv /\ MainInv /\ ThreadInv

----------------------------------------------------------------------------
\* Every listener has its place in the order of start and stop.
LEMMA InOrderOnce ==
    /\ Len(Listeners) \in Nat \ {0} /\ DOMAIN Listeners = 1..Len(Listeners)
    /\ \A n \in DOMAIN Listeners : Listeners[n] \in Kinds
    /\ \A k \in Kinds : ~Before(k, 1)
    /\ \A k \in Kinds, n \in DOMAIN Listeners :
          /\ Before(k, n + 1) <=> Before(k, n) \/ k = Listeners[n]
          /\ n = Len(Listeners) => Before(k, n) \/ k = Listeners[n]
          /\ k = Listeners[n] => ~Before(k, n)
<1>1. Len(Listeners) \in Nat /\ DOMAIN Listeners = 1..Len(Listeners) /\ Len(Listeners) # 0
  BY ListenerAssumption
<1>2. \A n \in DOMAIN Listeners : Listeners[n] \in Kinds
  BY DEF Kinds
<1>3. \A k \in Kinds : ~Before(k, 1)
  BY <1>1 DEF Before
<1>4. ASSUME NEW k \in Kinds, NEW n \in DOMAIN Listeners
      PROVE  /\ Before(k, n + 1) <=> Before(k, n) \/ k = Listeners[n]
             /\ n = Len(Listeners) => Before(k, n) \/ k = Listeners[n]
             /\ k = Listeners[n] => ~Before(k, n)
  <2>1. Before(k, n + 1) <=> Before(k, n) \/ k = Listeners[n]
    BY <1>1 DEF Before
  <2>2. PICK m \in DOMAIN Listeners : Listeners[m] = k
    BY DEF Kinds
  <2>3. n = Len(Listeners) => Before(k, n) \/ k = Listeners[n]
    BY <1>1, <2>2 DEF Before
  <2>4. k = Listeners[n] => ~Before(k, n)
    BY <1>1, ListenerAssumption DEF Before
  <2> QED
    BY <2>1, <2>3, <2>4
<1> QED
  BY <1>1, <1>2, <1>3, <1>4

\* Where main moves on to, from its n-th listener.
LEMMA MovesOn ==
    ASSUME NEW here, NEW then, next \in 1..Len(Listeners), Advance(here, then)
    PROVE  /\ next' \in DOMAIN Listeners
           /\ \/ main' = here /\ next' = next + 1
              \/ main' = then /\ next' = 1 /\ next = Len(Listeners)
<1>1. Len(Listeners) \in Nat \ {0} /\ DOMAIN Listeners = 1..Len(Listeners)
  BY InOrderOnce
<1> DEFINE n == Len(Listeners)
<1>0. n \in Nat \ {0} /\ next \in 1..n
  BY <1>1
<1> HIDE DEF n
<1>2. CASE next < n
  <2>1. main' = here /\ next' = next + 1
    BY <1>2 DEF Advance, n
  <2>2. next' \in 1..n
    BY <1>1, <1>2, <2>1 DEF n
  <2> QED
    BY <1>1, <2>1, <2>2 DEF n
<1>3. CASE ~(next < n)
  <2>1. main' = then /\ next' = 1
    BY <1>3 DEF Advance, n
  <2>2. next = n /\ 1 \in 1..n
    BY <1>0, <1>3
  <2> QED
    BY <1>1, <2>1, <2>2 DEF n
<1> QED
  BY <1>2, <1>3

\* No thread was started yet.
LEMMA InitHolds == Init => ListenerInv
<1> SUFFICES ASSUME Init PROVE ListenerInv
  OBVIOUS
<1>1. TypeInv
  BY InOrderOnce DEF Init, TypeInv
<1>2. MainInv
  BY InOrderOnce DEF Init, MainInv, Done
<1>3. ThreadInv
  BY ListenerAssumption DEF Init, ThreadInv, SocketOf, PacketsOf, Done
<1> QED
  BY <1>1, <1>2, <1>3 DEF ListenerInv

\* A step that leaves alone a thread, its stop and its packets.
LEMMA LeftAlone ==
    ASSUME ListenerInv, NEW k \in Kinds, Done(k)' <=> Done(k), k \in event' <=> k \in event,
           pc'[k] = pc[k], sock'[k] = sock[k], assigned'[k] = assigned[k],
           sent'[k] = sent[k], queue'[k] = queue[k],
           received'[k] = received[k], late'[k] = late[k]
    PROVE  SocketOf(k)' /\ PacketsOf(k)'
BY DEF ListenerInv, ThreadInv, SocketOf, PacketsOf

----------------------------------------------------------------------------
\* main

\* The main thread starts a listener,
LEMMA StartHolds ==
    ASSUME ListenerInv, StartListener
    PROVE  ListenerInv'
<1> DEFINE l == Listeners[next]
<1>1. /\ main = "start" /\ l \in Kinds /\ next \in 1..Len(Listeners)
      /\ pc' = [pc EXCEPT ![l] = "create"] /\ Advance("start", "http")
      /\ UNCHANGED <<event, sock, assigned, received, late, sent, queue>>
  BY InOrderOnce DEF StartListener, Goto, ListenerInv, TypeInv
<1> HIDE DEF l
<1>2. /\ next' \in DOMAIN Listeners
      /\ \/ main' = "start" /\ next' = next + 1
         \/ main' = "http" /\ next' = 1 /\ next = Len(Listeners)
  BY <1>1, MovesOn
<1>3. TypeInv'
  BY <1>1, <1>2 DEF ListenerInv, TypeInv
<1>4. \A k \in Kinds : ~Done(k) /\ ~Done(k)'
  BY <1>1, <1>2 DEF Done
<1>5. MainInv'
  <2>1. ASSUME NEW k \in Kinds PROVE pc'[k] = "new" <=> main' = "start" /\ ~Before(k, next')
    <3>1. pc[k] = "new" <=> ~Before(k, next)
      BY <1>1 DEF ListenerInv, MainInv
    <3>2. pc'[k] = IF k = l THEN "create" ELSE pc[k]
      BY <1>1 DEF ListenerInv, TypeInv
    <3>3. CASE main' = "start" /\ next' = next + 1
      <4>1. Before(k, next') <=> Before(k, next) \/ k = l
        BY <1>1, <3>3, InOrderOnce DEF l
      <4> QED
        BY <3>1, <3>2, <3>3, <4>1
    <3>4. CASE main' = "http" /\ next = Len(Listeners)
      <4>1. Before(k, next) \/ k = l
        BY <1>1, <3>4, InOrderOnce DEF l
      <4> QED
        BY <3>1, <3>2, <3>4, <4>1
    <3> QED
      BY <1>2, <3>3, <3>4
  <2>2. \A k \in Kinds : k \notin event
    BY <1>1, <1>4 DEF ListenerInv, MainInv
  <2> QED
    BY <1>1, <1>2, <1>4, <2>1, <2>2 DEF ListenerInv, MainInv
<1>6. ASSUME NEW k \in Kinds PROVE SocketOf(k)' /\ PacketsOf(k)'
  <2>1. CASE k # l
    BY <1>1, <1>4, <2>1, LeftAlone DEF ListenerInv, TypeInv
  <2>2. CASE k = l
    <3>1. pc[k] = "new" /\ pc'[k] = "create"
      <4>1. ~Before(k, next)
        BY <1>1, <2>2, InOrderOnce DEF l
      <4> QED
        BY <1>1, <2>2, <4>1 DEF ListenerInv, MainInv, TypeInv
    <3>2. SocketOf(k) /\ PacketsOf(k)
      BY DEF ListenerInv, ThreadInv
    <3> QED
      BY <1>1, <1>4, <3>1, <3>2 DEF SocketOf, PacketsOf
  <2> QED
    BY <2>1, <2>2
<1> QED
  BY <1>3, <1>5, <1>6 DEF ListenerInv, ThreadInv

\* serves,
LEMMA ServeHolds ==
    ASSUME ListenerInv, Serve
    PROVE  ListenerInv'
<1>1. /\ main \in {"http", "serving"} /\ main' \in {"serving", "failed", "event"}
      /\ UNCHANGED <<next, event, pc, sock, assigned, received, late, sent, queue>>
      /\ next = 1
  BY DEF Serve, thread, ListenerInv, MainInv
<1>2. \A k \in Kinds : ~Done(k) /\ ~Done(k)'
  BY <1>1, InOrderOnce DEF Done
<1>3. TypeInv'
  BY <1>1 DEF ListenerInv, TypeInv
<1>4. MainInv'
  BY <1>1, <1>2 DEF ListenerInv, MainInv
<1>5. ThreadInv'
  BY <1>1, <1>2, LeftAlone DEF ThreadInv
<1> QED
  BY <1>3, <1>4, <1>5 DEF ListenerInv

\* asks for the stop,
LEMMA SetEventHolds ==
    ASSUME ListenerInv, SetEvent
    PROVE  ListenerInv'
<1> DEFINE l == Listeners[next]
<1>1. /\ main = "event" /\ main' = "close" /\ event' = event \cup {l} /\ l \in Kinds
      /\ UNCHANGED <<next, pc, sock, assigned, received, late, sent, queue>>
  BY InOrderOnce DEF SetEvent, thread, ListenerInv, TypeInv
<1>2. \A k \in Kinds : Done(k)' <=> Done(k)
  BY <1>1 DEF Done
<1>3. TypeInv'
  BY <1>1 DEF ListenerInv, TypeInv
<1>4. MainInv'
  BY <1>1, <1>2 DEF ListenerInv, MainInv
<1>5. ASSUME NEW k \in Kinds PROVE SocketOf(k)' /\ PacketsOf(k)'
  <2>1. SocketOf(k) /\ PacketsOf(k)
    BY DEF ListenerInv, ThreadInv
  <2> HIDE DEF l
  <2> QED
    BY <1>1, <1>2, <2>1 DEF SocketOf, PacketsOf
<1> QED
  BY <1>3, <1>4, <1>5 DEF ListenerInv, ThreadInv

\* and closes the socket it can see.
LEMMA CloseHolds ==
    ASSUME ListenerInv, CloseSocket
    PROVE  ListenerInv'
<1> DEFINE l == Listeners[next]
<1>1. /\ main = "close" /\ l \in Kinds /\ next \in 1..Len(Listeners)
      /\ sock' = ClosedSockets(l) /\ Advance("event", "stopped")
      /\ UNCHANGED <<event, pc, assigned, received, late, sent, queue>>
  BY InOrderOnce DEF CloseSocket, ListenerInv, TypeInv
<1>2. \A k \in Kinds : sock'[k] = IF k = l /\ assigned[k] THEN "closed" ELSE sock[k]
  BY <1>1 DEF ClosedSockets, ListenerInv, TypeInv
<1> HIDE DEF l
<1>3. /\ next' \in DOMAIN Listeners
      /\ \/ main' = "event" /\ next' = next + 1
         \/ main' = "stopped" /\ next' = 1 /\ next = Len(Listeners)
  BY <1>1, MovesOn
<1>4. TypeInv'
  BY <1>1, <1>3 DEF ListenerInv, TypeInv, ClosedSockets
<1>5. ASSUME NEW k \in Kinds PROVE Done(k)' <=> Done(k) \/ k = l
  <2>1. CASE main' = "event" /\ next' = next + 1
    <3>1. Before(k, next') <=> Before(k, next) \/ k = l
      BY <1>1, <2>1, InOrderOnce DEF l
    <3> QED
      BY <1>1, <2>1, <3>1 DEF Done
  <2>2. CASE main' = "stopped" /\ next = Len(Listeners)
    <3>1. Before(k, next) \/ k = l
      BY <1>1, <2>2, InOrderOnce DEF l
    <3> QED
      BY <1>1, <2>2, <3>1 DEF Done
  <2> QED
    BY <1>3, <2>1, <2>2
<1>6. MainInv'
  BY <1>1, <1>3, <1>5 DEF ListenerInv, MainInv, l
<1>7. ASSUME NEW k \in Kinds PROVE SocketOf(k)' /\ PacketsOf(k)'
  <2>1. CASE k # l
    BY <1>1, <1>2, <1>5, <2>1, LeftAlone
  <2>2. CASE k = l
    <3>1. k \in event /\ pc[k] # "new"
      BY <1>1, <2>2 DEF ListenerInv, MainInv, l
    <3>2. /\ SocketOf(k) /\ PacketsOf(k)
          /\ pc[k] \in {"new", "create", "assign", "test", "receive", "poll", "ingest",
                        "ended", "crashed"}
      BY DEF ListenerInv, ThreadInv, TypeInv
    <3> QED
      BY <1>1, <1>2, <1>5, <2>2, <3>1, <3>2 DEF SocketOf, PacketsOf
  <2> QED
    BY <2>1, <2>2
<1> QED
  BY <1>4, <1>6, <1>7 DEF ListenerInv, ThreadInv

----------------------------------------------------------------------------
\* The threads, and what is sent to them

\* A step of a listener thread.
LEMMA RunHolds ==
    ASSUME ListenerInv, NEW k \in Kinds, Run(k)
    PROVE  ListenerInv'
<1>1. /\ UNCHANGED <<main, next, event, sent>>
      /\ pc[k] # "new" /\ pc'[k] # "new"
  BY DEF Run, Create, Assign, Test, Call, Receive, Timeout, Ingest, Goto, Loops,
         AfterTimeout, AfterPacket, ListenerInv, TypeInv
<1>2. \A j \in Kinds : Done(j)' <=> Done(j)
  BY <1>1 DEF Done
<1>3. TypeInv'
  <2>1. TypeInv
    BY DEF ListenerInv
  <2>2. CASE Create(k)
    BY <2>1, <2>2 DEF Create, Goto, TypeInv
  <2>3. CASE Assign(k)
    BY <2>1, <2>3 DEF Assign, Goto, TypeInv
  <2>4. CASE Test(k)
    BY <2>1, <2>4 DEF Test, Loops, Goto, TypeInv
  <2>5. CASE Call(k)
    BY <2>1, <2>5 DEF Call, Goto, TypeInv
  <2>6. CASE Receive(k)
    BY <2>1, <2>6 DEF Receive, Goto, TypeInv
  <2>7. CASE Timeout(k)
    BY <2>1, <2>7 DEF Timeout, AfterTimeout, Goto, TypeInv
  <2>8. CASE Ingest(k)
    BY <2>1, <2>8 DEF Ingest, AfterPacket, Goto, TypeInv
  <2> QED
    BY <2>2, <2>3, <2>4, <2>5, <2>6, <2>7, <2>8 DEF Run
<1>4. ASSUME NEW j \in Kinds, j # k
      PROVE  /\ pc'[j] = pc[j] /\ sock'[j] = sock[j] /\ assigned'[j] = assigned[j]
             /\ queue'[j] = queue[j]
             /\ received'[j] = received[j] /\ late'[j] = late[j]
  BY <1>4 DEF Run, Create, Assign, Test, Call, Receive, Timeout, Ingest, Goto,
              ListenerInv, TypeInv
<1>5. MainInv'
  BY <1>1, <1>2, <1>4 DEF ListenerInv, MainInv
<1>6. SocketOf(k)' /\ PacketsOf(k)'
  <2>1. /\ SocketOf(k) /\ PacketsOf(k)
        /\ sent[k] \in Nat /\ queue[k] \in Nat /\ received[k] \in Nat /\ late[k] \in Nat
        /\ k \in DOMAIN pc /\ k \in DOMAIN sock /\ k \in DOMAIN assigned
        /\ k \in DOMAIN queue /\ k \in DOMAIN received /\ k \in DOMAIN late
        /\ Done(k) => k \in event
    BY DEF ListenerInv, ThreadInv, TypeInv, MainInv
  <2>2. CASE Create(k)
    BY <1>1, <1>2, <2>1, <2>2 DEF Create, Goto, SocketOf, PacketsOf
  <2>3. CASE Assign(k)
    BY <1>1, <1>2, <2>1, <2>3 DEF Assign, Goto, SocketOf, PacketsOf
  <2>4. CASE Test(k)
    BY <1>1, <1>2, <2>1, <2>4 DEF Test, Loops, Goto, SocketOf, PacketsOf
  <2>5. CASE Call(k)
    BY <1>1, <1>2, <2>1, <2>5 DEF Call, Goto, SocketOf, PacketsOf
  <2>6. CASE Receive(k)
    BY <1>1, <1>2, <2>1, <2>6 DEF Receive, Goto, SocketOf, PacketsOf
  <2>7. CASE Timeout(k)
    BY <1>1, <1>2, <2>1, <2>7 DEF Timeout, AfterTimeout, Goto, SocketOf, PacketsOf
  <2>8. CASE Ingest(k)
    BY <1>1, <1>2, <2>1, <2>8 DEF Ingest, AfterPacket, Goto, SocketOf, PacketsOf
  <2> QED
    BY <2>2, <2>3, <2>4, <2>5, <2>6, <2>7, <2>8 DEF Run
<1>7. ThreadInv'
  BY <1>1, <1>2, <1>4, <1>6, LeftAlone DEF ThreadInv
<1> QED
  BY <1>3, <1>5, <1>7 DEF ListenerInv

\* A datagram is sent.
LEMMA SendHolds ==
    ASSUME ListenerInv, NEW k \in Kinds, Send(k)
    PROVE  ListenerInv'
<1>1. /\ sent[k] < MaxPackets /\ sent' = [sent EXCEPT ![k] = @ + 1]
      /\ queue' = [queue EXCEPT ![k] = IF sock[k] = "open" THEN @ + 1 ELSE @]
      /\ UNCHANGED <<main, next, event, pc, sock, assigned, received, late>>
  BY DEF Send, thread
<1>2. \A j \in Kinds : Done(j)' <=> Done(j)
  BY <1>1 DEF Done
<1>3. TypeInv'
  BY <1>1 DEF ListenerInv, TypeInv
<1>4. MainInv'
  BY <1>1, <1>2 DEF ListenerInv, MainInv
<1>5. ASSUME NEW j \in Kinds PROVE SocketOf(j)' /\ PacketsOf(j)'
  <2>1. /\ SocketOf(j) /\ PacketsOf(j) /\ MaxPackets \in Nat
        /\ sent[j] \in Nat /\ queue[j] \in Nat /\ received[j] \in Nat
    BY ListenerAssumption DEF ListenerInv, ThreadInv, TypeInv
  <2>2. \/ sent'[j] = sent[j] /\ queue'[j] = queue[j]
        \/ sent'[j] = sent[j] + 1 /\ sent[j] < MaxPackets /\ queue'[j] \in {queue[j], queue[j] + 1}
    BY <1>1 DEF ListenerInv, TypeInv
  <2> QED
    BY <1>1, <1>2, <2>1, <2>2 DEF SocketOf, PacketsOf
<1> QED
  BY <1>3, <1>4, <1>5 DEF ListenerInv, ThreadInv

\* Every step keeps the invariant.
LEMMA NextHolds == ListenerInv /\ [Next]_vars => ListenerInv'
<1> SUFFICES ASSUME ListenerInv, [Next]_vars PROVE ListenerInv'
  OBVIOUS
<1>1. CASE UNCHANGED vars
  <2>1. UNCHANGED <<main, next, event, pc, sock, assigned, received, late, sent, queue>>
    BY <1>1 DEF vars, thread
  <2>2. TypeInv' /\ MainInv'
    BY <2>1 DEF ListenerInv, TypeInv, MainInv, Done
  <2>3. ThreadInv'
    BY <2>1 DEF ListenerInv, ThreadInv, SocketOf, PacketsOf, Done
  <2> QED
    BY <2>2, <2>3 DEF ListenerInv
<1>2. CASE Main
  BY <1>2, StartHolds, ServeHolds, SetEventHolds, CloseHolds DEF Main
<1>3. CASE \E k \in Kinds : Run(k) \/ Send(k)
  BY <1>3, RunHolds, SendHolds
<1> QED
  BY <1>1, <1>2, <1>3 DEF Next

\* The fairness is not needed.
LEMMA SpecSteps == Spec => Init /\ [][Next]_vars
BY PTL DEF Spec

\* start, stop and the threads: the inductive invariant of the listeners holds in
\* every reachable state.
THEOREM ListenerInvariant == Spec => []ListenerInv
BY InitHolds, NextHolds, SpecSteps, PTL

\* Wherever its thread is when stop() is called, between creating its socket
\* and handing over a packet, a listener ends only because of it, hands over at
\* most one packet more, and never reads a socket that was left open.
THEOREM AlwaysStopsCleanly == Spec => []StopsCleanly
<1>1. ListenerInv => StopsCleanly
  <2> SUFFICES ASSUME ListenerInv PROVE StopsCleanly
    OBVIOUS
  <2>1. ASSUME NEW k \in Kinds
        PROVE  /\ sent[k] <= MaxPackets /\ received[k] + queue[k] <= sent[k]
               /\ assigned[k] <=> sock[k] # "none" /\ pc[k] # "assign"
               /\ sock[k] = "closed" => assigned[k]
               /\ pc[k] = "ended" => k \in event
               /\ late[k] <= 1
               /\ main = "stopped" /\ sock[k] = "open" => received[k] = 0
    <3>1. /\ SocketOf(k) /\ PacketsOf(k)
          /\ sent[k] \in Nat /\ queue[k] \in Nat /\ received[k] \in Nat
          /\ assigned[k] \in BOOLEAN
          /\ pc[k] \in {"new", "create", "assign", "test", "receive", "poll", "ingest",
                        "ended", "crashed"}
      BY DEF ListenerInv, ThreadInv, TypeInv
    <3> QED
      BY <3>1 DEF SocketOf, PacketsOf, Done
  <2>2. TypeOK
    BY <2>1 DEF ListenerInv, TypeInv, MainInv, TypeOK
  <2> QED
    BY <2>1, <2>2 DEF StopsCleanly, EndsOnlyStopped, AtMostOneLate, LeftOpenUnused
<1> QED
  BY <1>1, ListenerInvariant, PTL
=============================================================================

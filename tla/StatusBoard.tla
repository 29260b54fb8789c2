---------------------------- MODULE StatusBoard ----------------------------
(* The status side of monitor/host/aggregator.py: the map of UAV states and *)
(* its limit, the packets' arrival times, the rate meters, and the snapshot *)
(* with its ages and levels, against the server-sent event streams of       *)
(* monitor/host/server.py that take snapshots.  Both listener threads and   *)
(* every stream read the clock first and get the aggregator's lock later.   *)
(* (What an image packet does to the image itself is in ImageAggregator;    *)
(* here it is counted.)                                                     *)
EXTENDS Integers, Sequences, FiniteSets, SequencesExt

CONSTANTS Uavs,        \* the ids packets carry
          Expected,    \* --uav: the ids known from the start
          MaxTracked,  \* MAX_TRACKED_UAVS
          Streams,     \* the threads serving /api/events
          Window,      \* window_seconds of a RateMeter
          WarnAge, ErrorAge,  \* STATUS_WARN_MS, STATUS_ERROR_MS
          MaxClock, MaxPackets,  \* bounds: time, packets received
          None         \* no value

ASSUME BoardAssumption ==
    /\ Expected \subseteq Uavs /\ IsFiniteSet(Uavs)
    /\ MaxTracked \in Nat /\ Cardinality(Expected) <= MaxTracked
    /\ {Window, WarnAge, ErrorAge, MaxClock, MaxPackets} \subseteq Nat
    /\ WarnAge <= ErrorAge /\ None \notin Nat \cup Uavs

Kinds == {"status", "image"}

VARIABLES
    clock,    \* time.monotonic()
    known,    \* the keys of _uavs
    statusAt, \* status_received_monotonic_ms
    unwritable, \* UAVs whose latest status decoded but cannot be given as JSON
    rx,       \* the samples of status_rx and image_rx (their times)
    listener, \* the packet each listener thread has decoded, and its time
    pc, nowMs, now,     \* each stream: where it is, the clock it has read
    client,   \* its HTTP client: reading, left, or its socket known reset
    shown,    \* what the last event it received says of each status
    heard     \* history: the packets each listener has ingested

board == <<known, statusAt, unwritable, rx, heard>>
stream == <<pc, nowMs, now, client, shown>>
vars == <<clock, board, listener, stream>>

Idle == [uav |-> None, at |-> 0]

Init ==
    /\ clock = 0 /\ known = Expected
    /\ statusAt = [u \in Uavs |-> None] /\ unwritable = {}
    /\ rx = [u \in Uavs |-> [k \in Kinds |-> <<>>]]
    /\ heard = [k \in Kinds |-> <<>>]
    /\ listener = [k \in Kinds |-> Idle]
    /\ pc = [s \in Streams |-> "ms"]
    /\ nowMs = [s \in Streams |-> 0] /\ now = [s \in Streams |-> 0]
    /\ client = [s \in Streams |-> "reading"]
    /\ shown = [s \in Streams |-> [u \in Uavs |->
                  [status |-> None, level |-> "missing"]]]

TimePasses ==
    /\ clock < MaxClock /\ clock' = clock + 1
    /\ UNCHANGED <<board, listener, stream>>

----------------------------------------------------------------------------
\* RateMeter

\* Mutant: one old sample is dropped at a time.
TrimmedOnce(samples, t) ==
    IF samples # <<>> /\ Head(samples) < t - Window THEN Tail(samples) ELSE samples

\* _trim: samples are dropped from the front while they are too old.
Trimmed(samples, t) ==
    LET kept == {i \in 1..Len(samples) + 1 :
                    i > Len(samples) \/ samples[i] >= t - Window}
    IN  SubSeq(samples, CHOOSE i \in kept : \A j \in kept : i <= j, Len(samples))

\* add: the sample, then the trim.
Added(samples, t) == Trimmed(Append(samples, t), t)

----------------------------------------------------------------------------
\* The listener threads

Packets == Len(heard["status"]) + Len(heard["image"])
           + Cardinality({k \in Kinds : listener[k] # Idle})

\* recvfrom, the clock, and the decoding: a malformed packet ends here.
Receive(k) ==
    /\ listener[k] = Idle /\ Packets < MaxPackets
    /\ \E u \in Uavs : listener' = [listener EXCEPT ![k] = [uav |-> u, at |-> clock]]
    /\ UNCHANGED <<clock, board, stream>>

\* Mutant: the limit is looked at before the id is looked up.
RefusedFirst(u) == Cardinality(known) >= MaxTracked

\* _state_for_uav: a known id has its state, a new one is refused at the limit.
Refused(u) == u \notin known /\ Cardinality(known) >= MaxTracked

\* Only a status packet dates the status.
Dated(u, k, t) == IF k = "status" THEN [statusAt EXCEPT ![u] = t] ELSE statusAt

\* decode_status_packet takes any JSON object with a good uav_id.  A number too
\* large for float() in odom.freshness_ms, or half of a surrogate pair in a
\* string, is stored like any other status, and replaced by the next one.
StatusMayBe(u, k) ==
    IF k = "status" THEN {unwritable \cup {u}, unwritable \ {u}} ELSE {unwritable}

\* With the lock held: the packet is refused, or it is counted and dated.
Ingest(k) ==
    /\ listener[k] # Idle
    /\ LET u == listener[k].uav
           t == listener[k].at
       IN  IF Refused(u) THEN UNCHANGED board
           ELSE /\ known' = known \cup {u}
                /\ rx' = [rx EXCEPT ![u][k] = Added(@, t)]
                /\ heard' = [heard EXCEPT ![k] = Append(@, listener[k])]
                /\ statusAt' = Dated(u, k, t)
                /\ unwritable' \in StatusMayBe(u, k)
    /\ listener' = [listener EXCEPT ![k] = Idle]
    /\ UNCHANGED <<clock, stream>>

----------------------------------------------------------------------------
\* snapshot, taken by the event streams

\* Mutant: a level begins after its age.
LevelLate(at, t) ==
    IF at = None THEN "missing"
    ELSE IF t - at > ErrorAge THEN "error"
    ELSE IF t - at > WarnAge THEN "warn" ELSE "ok"

\* level_for_age of the age at time t; the age is negative if the packet came
\* in after the snapshot had read the clock.
Level(at, t) ==
    IF at = None THEN "missing"
    ELSE IF t - at >= ErrorAge THEN "error"
    ELSE IF t - at >= WarnAge THEN "warn" ELSE "ok"

\* snapshot reads the clock twice, for the ages and for the rates ...
ReadMs(s) ==
    /\ pc[s] = "ms"
    /\ nowMs' = [nowMs EXCEPT ![s] = clock]
    /\ pc' = [pc EXCEPT ![s] = "now"]
    /\ UNCHANGED <<clock, board, listener, now, client, shown>>

ReadNow(s) ==
    /\ pc[s] = "now"
    /\ now' = [now EXCEPT ![s] = clock]
    /\ pc' = [pc EXCEPT ![s] = "lock"]
    /\ UNCHANGED <<clock, board, listener, nowMs, client, shown>>

\* sleep(1.0), and the next snapshot.
AfterWrite == "ms"

\* Mutant: a failed write is ignored.
SendIgnores(s, event) ==
    /\ shown' = [shown EXCEPT ![s] = IF client[s] = "reading" THEN event ELSE @]
    /\ pc' = [pc EXCEPT ![s] = AfterWrite]
    /\ UNCHANGED client

\* The event is written.  The socket of a client that left may take one more
\* write before BrokenPipeError or ConnectionResetError ends the handler.
Send(s, event) ==
    \/ /\ client[s] # "reset"
       /\ client' = [client EXCEPT ![s] = IF @ = "left" THEN "reset" ELSE @]
       /\ shown' = [shown EXCEPT ![s] = IF client[s] = "reading" THEN event ELSE @]
       /\ pc' = [pc EXCEPT ![s] = AfterWrite]
    \/ /\ client[s] # "reading"
       /\ pc' = [pc EXCEPT ![s] = "closed"]
       /\ UNCHANGED <<client, shown>>

\* _snapshot_uav: what the properties look at of it.
Described(u, t) == [status |-> statusAt[u], level |-> Level(statusAt[u], t)]

\* rate_bps trims the meters of the UAVs it is asked about.
MetersRead(us, t) ==
    [u \in Uavs |-> [k \in Kinds |->
        IF u \in us THEN Trimmed(rx[u][k], t) ELSE rx[u][k]]]

\* ... and describes every UAV under the lock.  (The event is written after the
\* lock is released: nobody else reads it.)
Snapshot(s) ==
    /\ pc[s] = "lock" /\ unwritable = {}
    /\ rx' = MetersRead(known, now[s])
    /\ Send(s, [u \in Uavs |-> Described(u, nowMs[s])])
    /\ nowMs' = [nowMs EXCEPT ![s] = 0] /\ now' = [now EXCEPT ![s] = 0]
    /\ UNCHANGED <<clock, known, statusAt, unwritable, heard, listener>>

\* One status that cannot be given: float() raises OverflowError on the way,
\* when some of the UAVs have been described, or the encoding of the event
\* raises UnicodeEncodeError after all of them.  The handler catches neither:
\* its thread ends, and with it the stream of a client that may be reading.
SnapshotFails(s) ==
    /\ pc[s] = "lock"
    /\ \E described \in SUBSET known :
          /\ described \cap unwritable # {}
          /\ rx' = MetersRead(described, now[s])
    /\ pc' = [pc EXCEPT ![s] = "aborted"]
    /\ nowMs' = [nowMs EXCEPT ![s] = 0] /\ now' = [now EXCEPT ![s] = 0]
    /\ UNCHANGED <<clock, known, statusAt, unwritable, heard, listener, client, shown>>

Leave(s) ==
    /\ client[s] = "reading"
    /\ client' = [client EXCEPT ![s] = "left"]
    /\ UNCHANGED <<clock, board, listener, pc, nowMs, now, shown>>

Events(s) == ReadMs(s) \/ ReadNow(s) \/ Snapshot(s) \/ SnapshotFails(s)

Next ==
    \/ TimePasses
    \/ \E k \in Kinds : Receive(k) \/ Ingest(k)
    \/ \E s \in Streams : Events(s) \/ Leave(s)

\* The threads are scheduled and time goes on; no packet needs to arrive.
Spec ==
    /\ Init /\ [][Next]_vars
    /\ WF_vars(TimePasses) /\ \A s \in Streams : WF_vars(Events(s))

----------------------------------------------------------------------------
\* Properties

Times == 0..MaxClock

\* Every variable stays in its range; expected ids keep their place, and the
\* limit is kept by two threads that meet new ids.
TypeOK ==
    /\ clock \in Times /\ Expected \subseteq known /\ known \subseteq Uavs
    /\ Cardinality(known) <= MaxTracked
    /\ statusAt \in [Uavs -> Times \cup {None}] /\ unwritable \subseteq known
    /\ rx \in [Uavs -> [Kinds -> Seq(Times)]]
    /\ heard \in [Kinds -> Seq([uav : Uavs, at : Times])]
    /\ listener \in [Kinds -> [uav : Uavs, at : Times] \cup {Idle}]
    /\ pc \in [Streams -> {"ms", "now", "lock", "closed", "aborted"}]
    /\ nowMs \in [Streams -> Times] /\ now \in [Streams -> Times]
    /\ client \in [Streams -> {"reading", "left", "reset"}]

\* No snapshot, however old the clock it has read and in whatever order
\* threads get the lock, makes a meter lose a sample of the last Window before
\* the present.
NoSampleLost ==
    \A u \in Uavs, k \in Kinds :
        LET recent(i) == heard[k][i].uav = u /\ heard[k][i].at >= clock - Window
        IN  Cardinality({i \in DOMAIN heard[k] : recent(i)})
              = Cardinality({i \in DOMAIN rx[u][k] : rx[u][k][i] >= clock - Window})

\* And no snapshot counts a sample older than the window before its own clock.
\* (It does count samples newer than that clock.)
NoOldSampleCounted ==
    \A s \in Streams, u \in Uavs, k \in Kinds : pc[s] = "lock" =>
        LET counted == Trimmed(rx[u][k], now[s])
        IN  \A i \in DOMAIN counted : counted[i] >= now[s] - Window

\* So a rate of the page is that of its last Window, whoever reads and adds.
RatesExact == NoSampleLost /\ NoOldSampleCounted

\* The level a snapshot is about to give says how long before its clock the
\* last status was heard, whether it came before or after that clock was read.
LevelTruthful ==
    \A s \in Streams, u \in Uavs : pc[s] = "lock" =>
        LET times == {p.at : p \in {q \in ToSet(heard["status"]) : q.uav = u}}
            since(age) == \E t \in times : t > nowMs[s] - age
            level == Level(statusAt[u], nowMs[s])
        IN  /\ level = "missing" <=> times = {}
            /\ level = "ok" <=> since(WarnAge)
            /\ level = "error" <=> ~since(ErrorAge) /\ times # {}

\* A packet of a known id is never refused: its place cannot be taken by ids
\* that arrive while the table is full.
KnownNeverRefused ==
    [][\A k \in Kinds :
          listener[k] # Idle /\ listener'[k] = Idle /\ listener[k].uav \in known
          => heard'[k] = Append(heard[k], listener[k])]_vars

\* A full table keeps to its limit and serves every id it knows.
FullTableServes == []TypeOK /\ KnownNeverRefused

\* What a stream shows of a UAV never goes back to an older status.
EventsNeverGoBack ==
    [][\A s \in Streams, u \in Uavs :
          shown[s][u].status # None =>
              /\ shown'[s][u].status # None
              /\ shown'[s][u].status >= shown[s][u].status]_vars

\* A UAV that has fallen silent is in the end shown with level "error", and
\* stays so, to every client that keeps reading a stream that is not cut: the
\* level is computed anew for each event, not when a packet arrives.  (A stream
\* is cut under a reading client only by a status that cannot be given; the page
\* polls then, see WebCard.)
SilenceShown ==
    \A s \in Streams, u \in Uavs :
        <>[](clock = MaxClock /\ statusAt[u] # None /\ clock - statusAt[u] >= ErrorAge)
        => <>[](\/ shown[s][u].level = "error"
                \/ client[s] # "reading" \/ pc[s] = "aborted")

\* The thread of a client that left ends.
LeftEventsEnd ==
    \A s \in Streams : client[s] # "reading" ~> pc[s] \in {"closed", "aborted"}

\* No stream hangs on a status that cannot be given: as long as one is there,
\* the client is let go, whoever sent it, and can see that it is told nothing.
UnwritableEndsEvents ==
    \A s \in Streams :
        <>[](unwritable # {}) => <>[](pc[s] \in {"closed", "aborted"})

\* A client is told of silence as long as its stream stands, never an older
\* status, and let go when it leaves or cannot be told.
EventsKeepUp ==
    SilenceShown /\ EventsNeverGoBack /\ LeftEventsEnd /\ UnwritableEndsEvents
=============================================================================

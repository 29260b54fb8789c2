------------------------------ MODULE WebCard -----------------------------
(* monitor/web/app.js, one card of the page: snapshots arrive on the event  *)
(* stream of the host or, once that has failed, as answers to polls that    *)
(* may overtake each other; the <img> of the card requests the MJPEG stream *)
(* and is retried a second after it failed, with the entry of back then.    *)
(* The handlers of the page run one at a time.                              *)
EXTENDS Integers, Sequences

CONSTANTS Polls,      \* fetches that may be under way at a time
          MaxTime,    \* bound: changes of the host's state
          MaxQueue,   \* bound: snapshots under way on the event stream
          MaxTimers   \* bound: retries of the image set at a time

ASSUME WebAssumption == {MaxTime, MaxQueue, MaxTimers} \subseteq Nat

VARIABLES
    host,       \* up, its time (the changes so far), and what a snapshot of it
                \* gives: is the UAV known, has it an image, the statuses
    reports,    \* does the browser fire error for an MJPEG stream that is cut
    mode,       \* "events" or "polling"
    connected,  \* the event stream has not been cut
    queue,      \* snapshots sent on the event stream
    answers,    \* of each poll: the snapshot it brings, or None
    entry,      \* the snapshot rendered last, or None
    imageLoop,  \* card.dataset.imageLoop = "1"
    src,        \* the <img>: no request, a live, cut or refused one, or failed
    timers      \* calls of ensureImageLoop to come

channels == <<connected, queue, answers>>
card == <<entry, imageLoop, src, timers>>
vars == <<host, reports, mode, channels, card>>

\* The latest statuses of all UAVs: the page can take them, it throws before it
\* has rendered the card (NaN is no JSON for it, but is for the host), or the
\* host raises when it is to give them.
Statuses == {"fine", "unreadable", "raises"}

None == [time |-> -1, known |-> FALSE, has_image |-> FALSE, status |-> "fine"]
Snapshot == [time |-> host.time, known |-> host.known,
             has_image |-> host.has_image, status |-> host.status]

\* --uav makes ids known from the start.
Started(time) ==
    {[up |-> TRUE, time |-> time, known |-> listed, has_image |-> FALSE,
      status |-> "fine"] : listed \in BOOLEAN}

Init ==
    /\ host \in Started(0) /\ reports \in BOOLEAN
    /\ mode \in {"events", "polling"}   \* polling: no window.EventSource
    /\ connected = TRUE /\ queue = <<>>
    /\ answers = [p \in Polls |-> None]
    /\ entry = None /\ imageLoop = FALSE /\ src = "none" /\ timers = 0

----------------------------------------------------------------------------
\* The host: statuses and the first image of the UAV come in, the host ends,
\* which cuts its connections, or is started again, without images.

\* A status of this UAV, which is known then, or of another one.
StatusArrives ==
    /\ host.up /\ host.time < MaxTime
    /\ \E known \in {host.known, TRUE}, status \in Statuses :
          host' = [host EXCEPT !.time = @ + 1, !.known = known, !.status = status]
    /\ UNCHANGED <<reports, mode, channels, card>>

FirstImage ==
    /\ host.up /\ host.time < MaxTime /\ ~host.has_image
    /\ host' = [host EXCEPT !.time = @ + 1, !.known = TRUE, !.has_image = TRUE]
    /\ UNCHANGED <<reports, mode, channels, card>>

HostEnds ==
    /\ host.up /\ host.time < MaxTime
    /\ host' = [host EXCEPT !.up = FALSE]
    /\ connected' = FALSE
    /\ src' = IF src = "live" THEN "cut" ELSE src
    /\ UNCHANGED <<reports, mode, queue, answers, entry, imageLoop, timers>>

HostStarts ==
    /\ ~host.up
    /\ host' \in Started(host.time + 1)
    /\ UNCHANGED <<reports, mode, channels, card>>

SendEvent ==
    /\ host.up /\ connected /\ mode = "events" /\ Len(queue) < MaxQueue
    /\ host.status # "raises"
    /\ queue' = Append(queue, Snapshot)
    /\ UNCHANGED <<host, reports, mode, connected, answers, card>>

\* The handler of the stream does not survive a snapshot that raises.
EventsEnd ==
    /\ host.up /\ connected /\ mode = "events" /\ host.status = "raises"
    /\ connected' = FALSE
    /\ UNCHANGED <<host, reports, mode, queue, answers, card>>

----------------------------------------------------------------------------
\* The page

\* Mutant: the loop's mark survives the image.
EnsureImageLoopMarked(has_image) ==
    IF ~has_image THEN src' = "none" /\ UNCHANGED imageLoop
    ELSE IF imageLoop THEN UNCHANGED <<src, imageLoop>>
    ELSE imageLoop' = TRUE /\ src' = IF host.up THEN "live" ELSE "refused"

\* ensureImageLoop: without an image the <img> is emptied; with one, a request
\* is made unless the loop is running.
EnsureImageLoop(has_image) ==
    IF ~has_image THEN imageLoop' = FALSE /\ src' = "none"
    ELSE IF imageLoop THEN UNCHANGED <<src, imageLoop>>
    ELSE imageLoop' = TRUE /\ src' = IF host.up THEN "live" ELSE "refused"

\* render goes through the UAVs of the snapshot: the card of one that is not
\* among them stays as it is.
Render(snapshot) ==
    IF snapshot.known
    THEN entry' = snapshot /\ EnsureImageLoop(snapshot.has_image)
    ELSE UNCHANGED <<entry, imageLoop, src>>

\* What the page does with the text of a snapshot: an exception leaves the card
\* alone, be it uncaught in onmessage or caught in tick.
Taken(snapshot) ==
    IF snapshot.status = "fine" THEN Render(snapshot)
    ELSE UNCHANGED <<entry, imageLoop, src>>

OnMessage ==
    /\ mode = "events" /\ queue # <<>>
    /\ Taken(Head(queue)) /\ queue' = Tail(queue)
    /\ UNCHANGED <<host, reports, mode, connected, answers, timers>>

\* events.close(): nothing of the stream is delivered any more.
Closed == <<>>

\* events.onerror: the page polls from now on, for ever.
OnEventsError ==
    /\ mode = "events" /\ ~connected
    /\ mode' = "polling" /\ queue' = Closed
    /\ UNCHANGED <<host, reports, connected, answers, card>>

\* tick: a fetch that the host answers now, or fails to, whenever that arrives.
Tick(p) ==
    /\ mode = "polling" /\ answers[p] = None /\ host.up
    /\ answers' = [answers EXCEPT ![p] = Snapshot]
    /\ UNCHANGED <<host, reports, mode, connected, queue, card>>

\* The answer, or "connection lost": no answer, or one that cannot be taken.
Answered(p) ==
    /\ answers[p] # None
    /\ answers' = [answers EXCEPT ![p] = None]
    /\ UNCHANGED <<host, reports, mode, connected, queue, timers>>
    /\ Taken(answers[p])

FetchFails(p) ==
    /\ answers[p] # None /\ ~host.up
    /\ answers' = [answers EXCEPT ![p] = None]
    /\ UNCHANGED <<host, reports, mode, connected, queue, card>>

\* card.dataset.imageLoop = ""
AfterError == FALSE

\* image.onerror: for a request that was refused, and for a stream that was cut
\* if the browser reports that.
OnImageError ==
    /\ src \in {"cut", "refused"} /\ timers < MaxTimers
    /\ src' = "failed" /\ imageLoop' = AfterError /\ timers' = timers + 1
    /\ UNCHANGED <<host, reports, mode, channels, entry>>

\* The retry, with an entry that had an image when the loop was started.
Retry ==
    /\ timers > 0 /\ timers' = timers - 1
    /\ EnsureImageLoop(TRUE)
    /\ UNCHANGED <<host, reports, mode, channels, entry>>

Next ==
    \/ StatusArrives \/ FirstImage \/ HostEnds \/ HostStarts
    \/ SendEvent \/ EventsEnd
    \/ OnMessage \/ OnEventsError \/ OnImageError \/ Retry
    \/ \E p \in Polls : Tick(p) \/ Answered(p) \/ FetchFails(p)

\* The host sends an event each second, the browser runs the handlers of what
\* has happened, polls each second and fires its timers.  A fetch that is
\* answered brings its answer.  Nothing makes the host change.  That a live MJPEG
\* stream was cut need not be reported by every browser.
ImageErrorDue == OnImageError /\ (src = "refused" \/ reports)

Fairness ==
    /\ WF_vars(SendEvent) /\ WF_vars(EventsEnd)
    /\ WF_vars(OnMessage) /\ WF_vars(OnEventsError)
    /\ WF_vars(ImageErrorDue) /\ WF_vars(Retry)
    /\ \A p \in Polls : WF_vars(Tick(p)) /\ WF_vars(Answered(p))

Spec == Init /\ [][Next]_vars /\ Fairness

----------------------------------------------------------------------------
\* Properties

\* Every variable stays in its range; no snapshot is from the future, and what
\* is left of a closed event stream is never rendered.
TypeOK ==
    /\ mode \in {"events", "polling"}
    /\ src \in {"none", "live", "cut", "refused", "failed"} /\ timers \in 0..MaxTimers
    /\ entry.time <= host.time
    /\ mode = "polling" => queue = <<>>

\* The loop is marked as running exactly while the <img> has a request that
\* has not failed; one that failed has a retry before it.
FailedIsRetried ==
    /\ imageLoop <=> src \in {"live", "cut", "refused"}
    /\ src = "failed" => timers > 0

\* The requests the <img> may end up with: one exactly if the host has an image,
\* and a live one, if the browser reports those that were cut.
Settled ==
    IF ~host.has_image THEN {"none"}
    ELSE IF reports THEN {"live"} ELSE {"live", "cut"}

\* Whatever came late, out of order, broken or from an earlier host: when the
\* host stays up, knows the UAV and has statuses that can be given and taken,
\* the card ends up with its state and its image.  Nor is an image given up on
\* the way.
CardFollowsHost ==
    /\ [](TypeOK /\ FailedIsRetried)
    /\ <>[](host.up /\ host.known /\ host.status = "fine") =>
          <>[](entry = Snapshot /\ src \in Settled)
=============================================================================

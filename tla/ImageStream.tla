---------------------------- MODULE ImageStream ----------------------------
(* The readers of the latest image: MonitorAggregator.wait_for_image and    *)
(* the MJPEG handler threads of monitor/host/server.py that call it in a    *)
(* loop, against the listener thread that publishes images under the same   *)
(* lock.  One action is one critical section, or one step outside the lock. *)
(* An image is represented by its number in the order of publication, which *)
(* the code does not know: it compares version numbers.                     *)
EXTENDS Integers

CONSTANTS Streams,     \* the threads serving /api/mjpeg/<uav_id>
          MaxImages,   \* bound: images published
          NoImage      \* latest_image is None

ASSUME StreamAssumption ==
    MaxImages \in Nat \ {0} /\ NoImage \notin 0..MaxImages

VARIABLES
    tracked,   \* the aggregator has a state for the UAV
    images,    \* the images published; the last one is latest_image
    version,   \* image_version
    pc,        \* where each thread is
    last,      \* its `version` variable, -1 before the first image
    expired,   \* the deadline of its current wait has passed
    frame,     \* the image it is about to write
    client,    \* its HTTP client: reading, left, or its socket known reset
    sent       \* history: the last image the client received, or 0

vars == <<tracked, images, version, pc, last, expired, frame, client, sent>>

Image == IF images = 0 THEN NoImage ELSE images

Init ==
    /\ tracked \in BOOLEAN /\ images = 0 /\ version = 0
    /\ pc = [t \in Streams |-> "call"]
    /\ last = [t \in Streams |-> -1]
    /\ expired = [t \in Streams |-> FALSE]
    /\ frame = [t \in Streams |-> NoImage]
    /\ client = [t \in Streams |-> "reading"]
    /\ sent = [t \in Streams |-> 0]

----------------------------------------------------------------------------
\* The listener thread

\* A first packet creates the UAV's state.
Track ==
    /\ ~tracked /\ tracked' = TRUE
    /\ UNCHANGED <<images, version, pc, last, expired, frame, client, sent>>

\* Mutant: notify() wakes one waiter only.
WokenOne(w) == IF w = {} THEN {} ELSE {CHOOSE t \in w : TRUE}

\* notify_all: every waiter of the condition goes on to reacquire the lock.
Woken(w) == w

Waiting == {t \in Streams : pc[t] = "wait"}

\* Mutant: two version numbers are used in turn.
NextVersionTwo == 1 + (version % 2)

NextVersion == version + 1

\* The end of ingest_image_packet for a completed frame.
Publish ==
    /\ images < MaxImages
    /\ tracked' = TRUE /\ images' = images + 1 /\ version' = NextVersion
    /\ pc' = [t \in Streams |-> IF t \in Woken(Waiting) THEN "check" ELSE pc[t]]
    /\ UNCHANGED <<last, expired, frame, client, sent>>

----------------------------------------------------------------------------
\* wait_for_image

Call(t) ==
    /\ pc[t] = "call"
    /\ expired' = [expired EXCEPT ![t] = FALSE]
    /\ pc' = [pc EXCEPT ![t] = "check"]
    /\ UNCHANGED <<tracked, images, version, last, frame, client, sent>>

\* The deadline passes; a thread asleep in Condition.wait wakes up.
Expire(t) ==
    /\ pc[t] \in {"check", "wait"} /\ ~expired[t]
    /\ expired' = [expired EXCEPT ![t] = TRUE]
    /\ pc' = [pc EXCEPT ![t] = "check"]
    /\ UNCHANGED <<tracked, images, version, last, frame, client, sent>>

HasNew(t) == tracked /\ Image # NoImage /\ version # last[t]

\* image, version = wait_for_image(...), and the handler's test for None.
Return(t, img, v) ==
    /\ frame' = [frame EXCEPT ![t] = img]
    /\ last' = [last EXCEPT ![t] = v]
    /\ pc' = [pc EXCEPT ![t] = IF img = NoImage THEN "sleep" ELSE "write"]

\* Mutant: nothing is returned when there is nothing new.
TimeoutResultNone(t) == Return(t, NoImage, last[t])

\* What a wait returns at its deadline: the latest image, new or not.
TimeoutResult(t) ==
    IF tracked THEN Return(t, Image, version) ELSE Return(t, NoImage, last[t])

\* One pass of the loop, with the lock held until it returns or waits.
Check(t) ==
    /\ pc[t] = "check"
    /\ IF HasNew(t) THEN Return(t, Image, version)
       ELSE IF expired[t] THEN TimeoutResult(t)
       ELSE pc' = [pc EXCEPT ![t] = "wait"] /\ UNCHANGED <<frame, last>>
    /\ UNCHANGED <<tracked, images, version, expired, client, sent>>

----------------------------------------------------------------------------
\* The MJPEG handler around it

\* Mutant: a stream opened before the first image gives up.
AfterSleepEnd == "closed"

AfterSleep == "call"

\* No image yet: sleep(0.1) and wait again, without touching the socket.
Sleep(t) ==
    /\ pc[t] = "sleep"
    /\ pc' = [pc EXCEPT ![t] = AfterSleep]
    /\ UNCHANGED <<tracked, images, version, last, expired, frame, client, sent>>

\* The write of one part.  The socket of a client that left may still take
\* one write before it is known to be reset.
Write(t) ==
    /\ pc[t] = "write" /\ client[t] # "reset"
    /\ client' = [client EXCEPT ![t] = IF @ = "left" THEN "reset" ELSE @]
    /\ sent' = [sent EXCEPT ![t] =
                    IF client[t] = "reading" THEN frame[t] ELSE @]
    /\ pc' = [pc EXCEPT ![t] = "call"]
    /\ UNCHANGED <<tracked, images, version, last, expired, frame>>

\* BrokenPipeError or ConnectionResetError ends the handler.
WriteFails(t) ==
    /\ pc[t] = "write" /\ client[t] \in {"left", "reset"}
    /\ pc' = [pc EXCEPT ![t] = "closed"]
    /\ client' = [client EXCEPT ![t] = "reset"]
    /\ UNCHANGED <<tracked, images, version, last, expired, frame, sent>>

Leave(t) ==
    /\ client[t] = "reading"
    /\ client' = [client EXCEPT ![t] = "left"]
    /\ UNCHANGED <<tracked, images, version, pc, last, expired, frame, sent>>

Thread(t) ==
    Call(t) \/ Expire(t) \/ Check(t) \/ Sleep(t) \/ Write(t) \/ WriteFails(t)

Next == Track \/ Publish \/ \E t \in Streams : Thread(t) \/ Leave(t)

\* Threads are scheduled and deadlines pass; images need not arrive, and
\* clients need not leave.
Spec == Init /\ [][Next]_vars /\ \A t \in Streams : WF_vars(Thread(t))

----------------------------------------------------------------------------
\* Properties

\* Every variable stays in its range; no thread ever writes a missing image.
TypeOK ==
    /\ tracked \in BOOLEAN /\ images \in 0..MaxImages /\ version \in 0..MaxImages
    /\ pc \in [Streams -> {"call", "check", "wait", "sleep", "write", "closed"}]
    /\ last \in [Streams -> -1..MaxImages]
    /\ expired \in [Streams -> BOOLEAN]
    /\ frame \in [Streams -> {NoImage} \cup 1..MaxImages]
    /\ client \in [Streams -> {"reading", "left", "reset"}]
    /\ sent \in [Streams -> 0..MaxImages]

\* No lost wakeup: a thread sleeps in Condition.wait only while there is
\* nothing new for it, whatever was published between its check and its sleep.
NoLostWakeup == \A t \in Streams : pc[t] = "wait" => ~HasNew(t)

\* A client that reads is never left waiting for something newer than what it
\* has while the latest image is another one: what a thread takes the image it
\* wrote and the image at hand for, by their version numbers, they are.
NeverWaitsBehind ==
    \A t \in Streams : pc[t] = "wait" /\ client[t] = "reading" => sent[t] = images

\* The latest image reaches every client that keeps reading, also one that
\* connected before the first image and one that was writing when it came.
LatestReachesClients ==
    \A t \in Streams : \A v \in 1..MaxImages :
        images = v ~> sent[t] >= v \/ client[t] # "reading"

\* Once the UAV has an image, the thread of a client that left ends, although
\* no further image may arrive: a wait that times out rewrites the last one.
\* (Before the first image nothing is ever written and the thread stays.)
LeftStreamsEnd ==
    \A t \in Streams :
        client[t] # "reading" /\ Image # NoImage ~> pc[t] = "closed"
=============================================================================

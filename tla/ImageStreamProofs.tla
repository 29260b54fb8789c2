------------------------- MODULE ImageStreamProofs ------------------------
(* The image streams, for every number of threads and of images.            *)
EXTENDS ImageStream, TLAPS

\* The version numbers count the images; no thread remembers a later one; a
\* thread that writes has an image; no image without a state of the UAV.
Bounded ==
    /\ version = images /\ (version > 0 => tracked)
    /\ \A t \in Streams :
          /\ last[t] <= version
          /\ pc[t] = "write" => frame[t] # NoImage

\* The image a thread is writing is the one its version variable stands for:
\* were they read in two critical sections, the stream would skip an image it
\* never sent.
VersionMatchesFrame ==
    \A t \in Streams : pc[t] = "write" => frame[t] = last[t]

\* Except while it writes, a thread has sent what it remembers.
Remembered ==
    \A t \in Streams : client[t] = "reading" /\ pc[t] # "write" =>
        sent[t] = IF last[t] <= 0 THEN 0 ELSE last[t]

Inv == TypeOK /\ NoLostWakeup /\ VersionMatchesFrame /\ Bounded /\ Remembered

\* Nothing was published or sent yet.
LEMMA InvInit == Init => Inv
BY StreamAssumption
DEF Init, Inv, TypeOK, NoLostWakeup, VersionMatchesFrame, Bounded, Remembered,
      HasNew, Image

\* The image is the one of the current version.
LEMMA ImageType ==
    ASSUME TypeOK, Bounded
    PROVE  /\ Image \in {NoImage} \cup 1..MaxImages
           /\ Image # NoImage <=> version > 0
           /\ Image # NoImage => Image = version
BY StreamAssumption DEF TypeOK, Bounded, Image

\* What a return from wait_for_image does to the invariant: a function that
\* differs at t only is looked at there and elsewhere.
LEMMA ReturnKeepsInv ==
    ASSUME Inv, NEW t \in Streams, NEW img, NEW v,
           \/ tracked /\ img = Image /\ v = version
           \/ img = NoImage /\ v = last[t],
           pc[t] = "check", Return(t, img, v),
           UNCHANGED <<tracked, images, version, expired, client, sent>>
    PROVE  Inv'
<1>1. /\ img \in {NoImage} \cup 1..MaxImages /\ v \in -1..MaxImages
      /\ v <= version /\ last[t] <= v
      /\ img # NoImage => img = v
      /\ img = NoImage => v = last[t] \/ (v = 0 /\ version = 0)
  BY ImageType, StreamAssumption DEF Inv, TypeOK, Bounded
<1>2. TypeOK'
  BY <1>1 DEF Inv, TypeOK, Return
<1>3. NoLostWakeup'
  BY <1>1 DEF Inv, TypeOK, NoLostWakeup, HasNew, Image, Return
<1>4. VersionMatchesFrame'
  BY <1>1 DEF Inv, TypeOK, VersionMatchesFrame, Return
<1>5. Bounded'
  <2>1. \A s \in Streams : s # t => last'[s] = last[s] /\ frame'[s] = frame[s] /\ pc'[s] = pc[s]
    BY DEF Inv, TypeOK, Return
  <2>2. /\ last'[t] = v /\ frame'[t] = img
        /\ pc'[t] = "write" => img # NoImage
    BY DEF Inv, TypeOK, Return
  <2>. QED
    BY <1>1, <2>1, <2>2 DEF Inv, Bounded, TypeOK
<1>6. Remembered'
  <2>1. \A s \in Streams : s # t => last'[s] = last[s] /\ pc'[s] = pc[s]
    BY DEF Inv, TypeOK, Return
  <2>2. /\ last'[t] = v /\ last[t] \in -1..MaxImages
        /\ pc'[t] # "write" => img = NoImage
    BY DEF Inv, TypeOK, Return
  <2>3. pc'[t] # "write" => v = last[t] \/ (v = 0 /\ last[t] <= 0)
    BY <1>1, <2>2
  <2>. QED
    BY <2>1, <2>2, <2>3 DEF Inv, Remembered
<1>. QED
  BY <1>2, <1>3, <1>4, <1>5, <1>6 DEF Inv

\* Every step keeps the invariant,
LEMMA InvStep == Inv /\ [Next]_vars => Inv'
<1>. SUFFICES ASSUME Inv, [Next]_vars PROVE Inv'
  OBVIOUS
<1>. USE StreamAssumption
<1>1. CASE Track
  BY <1>1, ImageType DEF Track, Inv, TypeOK, NoLostWakeup, VersionMatchesFrame, Bounded, Remembered,
      HasNew, Image
<1>2. CASE Publish
  <2>1. TypeOK'
    BY <1>2 DEF Publish, NextVersion, Inv, TypeOK, Bounded
  <2>2. NoLostWakeup'
    BY <1>2 DEF Publish, Woken, Waiting, Inv, TypeOK, NoLostWakeup
  <2>3. VersionMatchesFrame'
    BY <1>2 DEF Publish, Woken, Waiting, Inv, TypeOK, VersionMatchesFrame
  <2>4. Bounded'
    BY <1>2 DEF Publish, NextVersion, Woken, Waiting, Inv, TypeOK, Bounded
  <2>5. Remembered'
    BY <1>2 DEF Publish, Woken, Waiting, Inv, TypeOK, Remembered
  <2>. QED
    BY <2>1, <2>2, <2>3, <2>4, <2>5 DEF Inv
<1>3. ASSUME NEW t \in Streams, Call(t) PROVE Inv'
  BY <1>3 DEF Call, Inv, TypeOK, NoLostWakeup, VersionMatchesFrame, Bounded, Remembered,
      HasNew, Image
<1>4. ASSUME NEW t \in Streams, Expire(t) PROVE Inv'
  BY <1>4 DEF Expire, Inv, TypeOK, NoLostWakeup, VersionMatchesFrame, Bounded, Remembered,
      HasNew, Image
<1>5. ASSUME NEW t \in Streams, Check(t) PROVE Inv'
  <2>1. CASE HasNew(t)
    BY <1>5, <2>1, ReturnKeepsInv DEF Check, HasNew
  <2>2. CASE ~HasNew(t) /\ expired[t]
    BY <1>5, <2>2, ReturnKeepsInv DEF Check, TimeoutResult
  <2>3. CASE ~HasNew(t) /\ ~expired[t]
    BY <1>5, <2>3 DEF Check, Inv, TypeOK, NoLostWakeup, VersionMatchesFrame, Bounded, Remembered,
      HasNew, Image
  <2>. QED
    BY <2>1, <2>2, <2>3
<1>6. ASSUME NEW t \in Streams, Sleep(t) PROVE Inv'
  BY <1>6 DEF Sleep, AfterSleep, Inv, TypeOK, NoLostWakeup, VersionMatchesFrame, Bounded, Remembered,
      HasNew, Image
<1>7. ASSUME NEW t \in Streams, Write(t) PROVE Inv'
  <2>1. frame[t] \in 1..MaxImages /\ frame[t] = last[t]
    BY <1>7 DEF Write, Inv, TypeOK, VersionMatchesFrame, Bounded
  <2>2. TypeOK'
    BY <1>7, <2>1 DEF Write, Inv, TypeOK
  <2>3. NoLostWakeup' /\ VersionMatchesFrame'
    BY <1>7 DEF Write, Inv, TypeOK, NoLostWakeup, VersionMatchesFrame, HasNew, Image
  <2>4. Bounded'
    BY <1>7, <2>1 DEF Write, Inv, TypeOK, Bounded
  <2>5. Remembered'
    BY <1>7, <2>1 DEF Write, Inv, TypeOK, Remembered
  <2>. QED
    BY <2>2, <2>3, <2>4, <2>5 DEF Inv
<1>8. ASSUME NEW t \in Streams, WriteFails(t) PROVE Inv'
  BY <1>8 DEF WriteFails, Inv, TypeOK, NoLostWakeup, VersionMatchesFrame, Bounded, Remembered,
      HasNew, Image
<1>9. ASSUME NEW t \in Streams, Leave(t) PROVE Inv'
  BY <1>9 DEF Leave, Inv, TypeOK, NoLostWakeup, VersionMatchesFrame, Bounded, Remembered,
      HasNew, Image
<1>10. CASE UNCHANGED vars
  BY <1>10 DEF vars, Inv, TypeOK, NoLostWakeup, VersionMatchesFrame, Bounded, Remembered,
      HasNew, Image
<1>. QED
  BY <1>1, <1>2, <1>3, <1>4, <1>5, <1>6, <1>7, <1>8, <1>9, <1>10 DEF Next, Thread

\* which holds in every reachable state.
LEMMA InvAlways == Spec => []Inv
BY InvInit, InvStep, PTL DEF Spec

\* Every variable stays in its range; no thread ever writes a missing image.
THEOREM TypesAlwaysOK == Spec => []TypeOK
BY InvAlways, PTL DEF Inv

\* However many threads wait and whatever is published between the check of
\* one and its sleep: none sleeps while there is an image it has not returned.
THEOREM NeverALostWakeup == Spec => []NoLostWakeup
BY InvAlways, PTL DEF Inv

\* The image a thread writes is the one it will not ask for again.
THEOREM VersionAlwaysMatches == Spec => []VersionMatchesFrame
BY InvAlways, PTL DEF Inv

\* No client that reads is left waiting with an image that is not the latest.
THEOREM NoneWaitsBehind == Spec => []NeverWaitsBehind
<1>1. Inv => NeverWaitsBehind
  <2>. SUFFICES ASSUME Inv, NEW t \in Streams, pc[t] = "wait", client[t] = "reading"
                PROVE  sent[t] = images
    BY DEF NeverWaitsBehind
  <2>1. /\ images \in Nat /\ version = images /\ last[t] \in Int /\ last[t] <= version
        /\ sent[t] = IF last[t] <= 0 THEN 0 ELSE last[t]
    BY StreamAssumption DEF Inv, TypeOK, Bounded, Remembered
  <2>2. images = 0 \/ version = last[t]
    BY <2>1, StreamAssumption
    DEF Inv, TypeOK, NoLostWakeup, HasNew, Image, Bounded
  <2>. QED
    BY <2>1, <2>2
<1>. QED
  BY <1>1, InvAlways, PTL
=============================================================================

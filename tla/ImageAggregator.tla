-------------------------- MODULE ImageAggregator --------------------------
(* The image half of monitor/host/aggregator.py for one UAV: chunks of JPEG *)
(* frames arrive in any order and any number of times, one frame is under   *)
(* assembly, the latest complete one is shown.  Other UAVs have independent *)
(* states under the same lock.  The handler runs in the one image listener  *)
(* thread; `now` is the host's monotonic clock as the handler reads it.     *)
(*                                                                          *)
(* A payload is an abstract value, an assembled frame a function from chunk *)
(* index to payload.  Times are in units of the model's clock.              *)
EXTENDS Integers, FiniteSets

CONSTANTS Payloads,        \* what a chunk may carry
          FrameOf(_),      \* the frame id a payload was sent under
          Fits(_),         \* the chunks stay below MAX_IMAGE_FRAME_BYTES
          Jpeg(_),         \* validate_jpeg_frame accepts the assembled frame
          AssemblyTimeout, \* IMAGE_ASSEMBLY_TIMEOUT_MS
          ErrorAge,        \* IMAGE_ERROR_MS
          None             \* Python's None

ASSUME TimeoutAssumption ==
    /\ AssemblyTimeout \in Nat \ {0} /\ ErrorAge \in Nat \ {0}
    /\ AssemblyTimeout <= ErrorAge
ASSUME NoneAssumption == None \notin Int

VARIABLES
    now,         \* time.monotonic() * 1000 of the host
    candidate,   \* image_candidate: the ImageAssembly, or None
    image,       \* latest_image
    latestFrame, \* latest_image_frame_id
    latestStamp, \* latest_image_agent_monotonic_ms
    received,    \* latest_image_received_monotonic_ms
    version      \* image_version

shown == <<image, latestFrame, latestStamp, received, version>>
hostVars == <<now, candidate, shown>>

\* What unpack_image_chunk lets through.
IsChunk(c) ==
    /\ c.frame \in Nat /\ c.stamp \in Nat /\ c.count \in Nat \ {0}
    /\ c.index \in 0..(c.count - 1) /\ c.payload \in Payloads
    /\ FrameOf(c.payload) = c.frame

HostIdle ==
    /\ candidate = None /\ image = None
    /\ latestFrame = None /\ latestStamp = None /\ received = None
    /\ version = 0

HostInit == now \in Nat /\ HostIdle

----------------------------------------------------------------------------
\* Restart detection

\* Mutant: any frame of a newer clock counts, whatever its id.
RestartsClockAnyId(c) == c.stamp > latestStamp

\* A frame id that does not advance although the agent's clock does: the
\* agent process restarted.
RestartsClock(c) ==
    latestFrame # None /\ c.frame <= latestFrame /\ c.stamp > latestStamp

\* Mutant: a stale image is never given up.
RestartsStaleNever(c) == FALSE

\* The shown image is stale and the id does not advance: the agent may have
\* rebooted, its clock cannot be compared.  ("latest_image_frame_id or -1":
\* a latest frame 0 also counts as -1.)
RestartsStale(c) ==
    /\ received # None /\ now - received >= ErrorAge
    /\ c.frame <= IF latestFrame \in {None, 0} THEN -1 ELSE latestFrame

\* _is_agent_restart_frame.
IsRestart(c) == latestStamp # None /\ (RestartsClock(c) \/ RestartsStale(c))

----------------------------------------------------------------------------
\* The handler

\* A chunk of a frame that is not newer than the shown one is dropped.
IsOld(c) == latestFrame # None /\ c.frame <= latestFrame /\ ~IsRestart(c)

\* The assembly as the handler finds it, after a possible reset.
Current(c) == IF IsRestart(c) THEN None ELSE candidate

NewAssembly(c) ==
    [frame |-> c.frame, stamp |-> c.stamp, count |-> c.count,
     created |-> now, chunks |-> <<>>]

\* Mutant: an incomplete assembly is never expired.
ExpiredNever(a) == FALSE

Expired(a) == now - a.created >= AssemblyTimeout

\* The assembly the chunk is offered to: the current one, or a new one when
\* there is none, it has expired, or the chunk belongs to a newer frame.
Assembly(c) ==
    LET a == Current(c) IN
    IF a = None THEN NewAssembly(c)
    ELSE IF Expired(a) \/ c.frame > a.frame THEN NewAssembly(c)
    ELSE a

\* Mutant: the first payload received for an index wins.
StoredFirstWins(a, c) ==
    [i \in DOMAIN a.chunks \cup {c.index} |->
        IF i \in DOMAIN a.chunks THEN a.chunks[i] ELSE c.payload]

\* The chunks of assembly a with c's payload at its index.
Stored(a, c) ==
    [i \in DOMAIN a.chunks \cup {c.index} |->
        IF i = c.index THEN c.payload ELSE a.chunks[i]]

\* Mutant: frame ids are not compared (here, nor before the call).
AcceptsAnyFrame(a, c) == c.count = a.count /\ Fits(Stored(a, c))

\* ImageAssembly.add stores the chunk: frame and chunk count agree, and the
\* frame stays below the size limit (otherwise add raises before storing).
Accepts(a, c) ==
    c.frame = a.frame /\ c.count = a.count /\ Fits(Stored(a, c))

\* The assembly after ImageAssembly.add.
Add(a, c) == IF Accepts(a, c) THEN [a EXCEPT !.chunks = Stored(a, c)] ELSE a

\* ImageAssembly.add returned True.
CompletedBy(a, c) ==
    Accepts(a, c) /\ Cardinality(DOMAIN Stored(a, c)) = a.count

DropOld(c) ==
    /\ IsOld(c)
    /\ UNCHANGED <<candidate, shown>>

\* The chunk joins the assembly (or is refused by it) without completing an
\* acceptable frame.  When validate_jpeg_frame raises, the complete assembly
\* stays where it is.
Collect(c) ==
    LET a == Assembly(c) IN
    /\ ~IsOld(c)
    /\ CompletedBy(a, c) => ~Jpeg(Stored(a, c))
    /\ candidate' = Add(a, c)
    /\ latestFrame' = IF IsRestart(c) THEN None ELSE latestFrame
    /\ latestStamp' = IF IsRestart(c) THEN None ELSE latestStamp
    /\ UNCHANGED <<image, received, version>>

\* The chunk completes the assembly: the frame is shown, waiters are notified.
Publish(c) ==
    LET a == Assembly(c) IN
    /\ ~IsOld(c)
    /\ CompletedBy(a, c) /\ Jpeg(Stored(a, c))
    /\ image' = Stored(a, c)
    /\ latestFrame' = a.frame /\ latestStamp' = a.stamp
    /\ received' = now /\ version' = version + 1
    /\ candidate' = None

\* ingest_image_packet.
Ingest(c) == (DropOld(c) \/ Collect(c) \/ Publish(c)) /\ UNCHANGED now

----------------------------------------------------------------------------
\* The host alone, against every packet sequence the protocol allows.

Receive(c) == IsChunk(c) /\ Ingest(c)

Tick == now' \in {t \in Nat : t > now} /\ UNCHANGED <<candidate, shown>>

HostNext == (\E c \in [frame : Nat, stamp : Nat, count : Nat, index : Nat,
                      payload : Payloads] : Receive(c)) \/ Tick

HostSpec == HostInit /\ [][HostNext]_hostVars

----------------------------------------------------------------------------
\* Properties

\* An image is shown only whole, its chunks from first to last, and all of
\* them were sent under one frame id: the id reported with it, unless a restart
\* of the agent has been detected since.
ShownFrameWhole ==
    image # None =>
        /\ 0 \in DOMAIN image
        /\ DOMAIN image = 0..(Cardinality(DOMAIN image) - 1)
        /\ \A i \in DOMAIN image : FrameOf(image[i]) = FrameOf(image[0])
        /\ latestFrame \in {FrameOf(image[0]), None}

\* The frame under assembly is newer than the one shown: no chunk, however old
\* or repeated, can lead the display back without a detected restart.  The
\* id and the time stamp of the shown frame are known or unknown together.
AssemblyAhead ==
    /\ candidate # None /\ latestFrame # None => candidate.frame > latestFrame
    /\ latestFrame = None <=> latestStamp = None
=============================================================================

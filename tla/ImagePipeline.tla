--------------------------- MODULE ImagePipeline ---------------------------
(* One UAV's image stream end to end: an agent like monitor/mock_sender.py  *)
(* that numbers its frames from 1, splits them into chunks and may restart  *)
(* at any point (the process, keeping the machine's monotonic clock, or the *)
(* machine, resetting it); UDP, which may lose, duplicate, delay and        *)
(* reorder chunks; and the host's aggregator.                               *)
EXTENDS ImageAggregator

CONSTANTS Chunks,      \* number of chunks of every frame
          NotJpeg,     \* payloads of frames that are not JPEG images
          TooBig,      \* payloads of frames above the size limit
          MaxFlight,   \* bound: chunks in flight
          Networks     \* the networks between agent and host, one per behavior

Last == Chunks - 1

\* What may be stored of a frame, and a frame with all its chunks.
PartialFrames == UNION {[S -> Payloads] : S \in SUBSET (0..Last)}
WholeFrames == [0..Last -> Payloads]

\* A network delivers within ErrorAge, one that keeps order also within
\* AssemblyTimeout (several seconds each).
ASSUME NetworkAssumption ==
    /\ Chunks \in Nat \ {0} /\ MaxFlight \in Nat
    /\ \A n \in Networks :
          /\ n.reliable \in BOOLEAN /\ n.delay \in Nat /\ n.time \in Nat
          /\ n.frames \in Nat /\ n.sessions \in Nat \ {0}
          /\ n.delay < ErrorAge
          /\ n.reliable => n.delay < AssemblyTimeout

\* split_image_frame cuts every chunk but the last to max_payload_bytes, so it
\* is the last that is one too many; a file that is no JPEG image, or is cut
\* short, lacks the end marker.
ASSUME FrameAssumption ==
    /\ \A F \in PartialFrames : Last \notin DOMAIN F => Fits(F)
    /\ \A F \in WholeFrames :
          /\ Fits(F) <=> F[Last] \notin TooBig
          /\ F[Last] \in NotJpeg => ~Jpeg(F)
          /\ (\A i \in 0..Last : F[i] \notin NotJpeg) => Jpeg(F)

\* None is neither an ImageAssembly nor an image.
Assemblies == [frame : Nat, stamp : Nat, count : Nat, created : Nat,
               chunks : PartialFrames]
ASSUME NoStateAssumption == None \notin Assemblies \cup PartialFrames

VARIABLES network   \* the one of this behavior, with the bounds of its runs

Reliable == network.reliable  \* it delivers once and in order, and the agent
                              \* does not sleep within a frame
MaxDelay == network.delay     \* a chunk is delivered within this time or never
MaxFrame == network.frames    \* bound: frames per session
MaxSession == network.sessions  \* bound: how often the agent is started
MaxNow == network.time        \* bound: how long the model's clock runs

VARIABLES session,  \* how often the agent has been started
          frame,    \* frame_id of the agent
          next,     \* index of the next chunk of the frame, 0 between frames
          clock,    \* monotonic_ms() of the agent at its last frame
          net,      \* chunks in flight, with the host time they were sent
          began,    \* history: when this session began (Reliable runs only)
          settled   \* history: this frame began long after the last restart

agentVars == <<session, frame, next, clock, began, settled>>
vars == <<hostVars, agentVars, net, network>>

Origin(s, f) == [session |-> s, frame |-> f]

Init ==
    /\ HostIdle /\ now = 0
    /\ session = 1 /\ frame = 0 /\ next = 0 /\ clock = 0
    /\ net = {} /\ began = 0 /\ settled = TRUE
    /\ network \in Networks

----------------------------------------------------------------------------
\* The agent

\* Packet i of split_image_frame: every packet of a frame has its id, its one
\* timestamp and its chunk count.
Packet(i) ==
    [chunk |-> [frame |-> frame', stamp |-> clock', count |-> Chunks,
                index |-> i, payload |-> Origin(session, frame')],
     sent |-> now]

\* frame_id += 1, a new timestamp, and the first packet of the frame.
StartFrame ==
    /\ next = 0 /\ frame < MaxFrame /\ Cardinality(net) < MaxFlight
    /\ frame' = frame + 1 /\ clock' = clock + 1
    /\ settled' = (session = 1 \/ now - began >= ErrorAge + MaxDelay)
    /\ net' = net \cup {Packet(0)}
    /\ next' = 1 % Chunks
    /\ UNCHANGED <<hostVars, session, began>>

SendNext ==
    /\ next > 0 /\ Cardinality(net) < MaxFlight
    /\ UNCHANGED <<frame, clock>>
    /\ net' = net \cup {Packet(next)}
    /\ next' = (next + 1) % Chunks
    /\ UNCHANGED <<hostVars, session, began, settled>>

\* A new agent process; a frame it was sending stays incomplete.
RestartAgent ==
    /\ session < MaxSession
    /\ session' = session + 1 /\ frame' = 0 /\ next' = 0
    /\ clock' \in {clock, 0}
    /\ began' = IF Reliable THEN now ELSE began
    /\ settled' = FALSE
    /\ UNCHANGED <<hostVars, net>>

----------------------------------------------------------------------------
\* The network and the clock

SentBefore(m, n) ==
    \/ m.chunk.payload.session < n.chunk.payload.session
    \/ /\ m.chunk.payload.session = n.chunk.payload.session
       /\ \/ m.chunk.frame < n.chunk.frame
          \/ m.chunk.frame = n.chunk.frame /\ m.chunk.index < n.chunk.index

Deliver(m) ==
    /\ Reliable => \A n \in net \ {m} : SentBefore(m, n)
    /\ Receive(m.chunk)
    /\ net' \in IF Reliable THEN {net \ {m}} ELSE {net, net \ {m}}
    /\ UNCHANGED agentVars

Lose(m) ==
    /\ ~Reliable
    /\ net' = net \ {m}
    /\ UNCHANGED <<hostVars, agentVars>>

TimePasses ==
    /\ now < MaxNow
    /\ \A m \in net : now - m.sent < MaxDelay
    /\ Reliable => next = 0
    /\ now' = now + 1
    /\ UNCHANGED <<candidate, shown, agentVars, net>>

Next ==
    /\ \/ StartFrame \/ SendNext \/ RestartAgent
       \/ \E m \in net : Deliver(m) \/ Lose(m)
       \/ TimePasses
    /\ UNCHANGED network

Spec == Init /\ [][Next]_vars

----------------------------------------------------------------------------
\* Properties

Times == 0..MaxNow
Ids == 1..MaxFrame
Origins == [session : 1..MaxSession, frame : Ids]
Images == [0..Last -> Origins]

\* Every variable stays in its range; the state kept per UAV is one assembly
\* with at most the chunks of one frame, and one complete image.
TypeOK ==
    /\ now \in Times
    /\ candidate # None =>
          /\ candidate.frame \in Ids /\ candidate.count = Chunks
          /\ candidate.stamp \in Nat /\ candidate.created \in 0..now
          /\ DOMAIN candidate.chunks \subseteq 0..Last
          /\ DOMAIN candidate.chunks # {} \/ candidate.chunks = <<>>
    /\ image \in Images \cup {None}
    /\ latestFrame \in Ids \cup {None} /\ latestStamp \in Nat \cup {None}
    /\ received \in Times \cup {None} /\ version \in Nat
    /\ network \in Networks
    /\ session \in 1..MaxSession /\ frame \in 0..MaxFrame
    /\ next \in 0..Last /\ Cardinality(net) <= MaxFlight

\* The shown image joins chunks of two frames.  By ShownFrameWhole they have
\* one id, so they are of two sessions of the agent.
Torn == image # None /\ \E i, j \in DOMAIN image : image[i] # image[j]

\* With a network that keeps order, no shown image mixes a frame of the agent's
\* first session with another, even when the agent restarts in the middle of
\* it; only an agent that restarts again within the assembly timeout can be
\* torn (its second session may leave an assembly without a first chunk).
\* With any network what the host keeps per UAV stays within the bounds above.
NeverTorn ==
    /\ TypeOK
    /\ Reliable /\ Torn => \A i \in DOMAIN image : image[i].session > 1

\* As long as the agent has not restarted, every image shown is of a later frame
\* than the one before, however chunks are delayed, duplicated and reordered;
\* with a network that keeps order so is, whenever it restarts, every image
\* that is of one frame.  (Chunk delays stay below ErrorAge: an older chunk
\* would be taken for a rebooted agent's.)
NeverBackwards ==
    [][image # None /\ version' # version =>
          /\ session = 1 => image[0].frame < image'[0].frame
          /\ Reliable /\ ~Torn /\ ~Torn' =>
                \/ image[0].session < image'[0].session
                \/ /\ image[0].session = image'[0].session
                   /\ image[0].frame < image'[0].frame]_vars

\* No frame is shown that took AssemblyTimeout or longer from the first chunk
\* received to the last.
ShownInTime ==
    [][version' # version /\ candidate # None =>
          \/ now - candidate.created < AssemblyTimeout
          \/ Chunks = 1]_vars

\* With a network that keeps order, once a restarted agent has run for ErrorAge
\* (from when the last chunk of its predecessor can have arrived), and from the
\* start for the first one, every frame it completes is what the host shows: a restart, a
\* reboot, a half-sent frame or a rejected one never blinds the display for
\* longer.
DisplayFollowsAgent ==
    /\ Reliable /\ net = {} /\ next = 0 /\ frame > 0 /\ settled
    /\ Origin(session, frame) \notin NotJpeg \cup TooBig
    => image = [i \in 0..Last |-> Origin(session, frame)]
=============================================================================

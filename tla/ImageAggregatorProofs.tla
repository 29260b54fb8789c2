----------------------- MODULE ImageAggregatorProofs -----------------------
(* What the image handler guarantees against any sequence of well-formed    *)
(* chunks, at any times: nothing is assumed of the agent or the network.    *)
(* The pipeline of agent, network and host implements that specification,   *)
(* so it has the same guarantees; then what it guarantees itself: nothing   *)
(* shown late, nothing shown backwards, no frame of the agent's first       *)
(* session torn, and a display that follows the agent after a restart.      *)
EXTENDS ImagePipeline, FiniteSetTheorems, TLAPS

Partial == UNION {[S -> Payloads] : S \in SUBSET Nat}

\* An assembly holds chunks of its own frame only, at indices below its count.
IsAssembly(a) ==
    /\ a \in [frame : Nat, stamp : Nat, count : Nat \ {0}, created : Nat,
              chunks : Partial]
    /\ DOMAIN a.chunks \subseteq 0..(a.count - 1)
    /\ \A i \in DOMAIN a.chunks : FrameOf(a.chunks[i]) = a.frame

HostInv ==
    /\ now \in Nat
    /\ candidate # None => IsAssembly(candidate)
    /\ latestFrame \in Nat \cup {None} /\ latestStamp \in Nat \cup {None}
    /\ ShownFrameWhole
    /\ AssemblyAhead

\* The chunk is offered to an assembly that is newer than the shown frame.
LEMMA AssemblyFits ==
    ASSUME HostInv, NEW c, IsChunk(c), ~IsOld(c)
    PROVE  /\ IsAssembly(Assembly(c))
           /\ latestFrame # None /\ ~IsRestart(c)
                 => Assembly(c).frame > latestFrame
<1>1. IsAssembly(NewAssembly(c))
  <2>1. <<>> \in Partial /\ DOMAIN <<>> = {}
    <3>1. <<>> \in [{} -> Payloads]
      OBVIOUS
    <3> QED
      BY <3>1 DEF Partial
  <2> QED
    BY <2>1 DEF IsAssembly, NewAssembly, IsChunk, HostInv
<1>2. latestFrame # None /\ ~IsRestart(c) => c.frame > latestFrame
  BY NoneAssumption DEF IsOld, IsChunk, HostInv
<1>3. CASE Assembly(c) = NewAssembly(c)
  BY <1>1, <1>2, <1>3 DEF NewAssembly
<1>4. CASE Assembly(c) # NewAssembly(c)
  <2>1. ~IsRestart(c) /\ candidate # None /\ Assembly(c) = candidate
    BY <1>4 DEF Assembly, Current
  <2> QED
    BY <2>1 DEF HostInv, AssemblyAhead
<1> QED
  BY <1>3, <1>4

\* Storing an accepted chunk keeps an assembly one of a single frame.
LEMMA StoredFits ==
    ASSUME NEW a, IsAssembly(a), NEW c, IsChunk(c), Accepts(a, c)
    PROVE  /\ IsAssembly([a EXCEPT !.chunks = Stored(a, c)])
           /\ Stored(a, c) \in Partial
           /\ c.index \in DOMAIN Stored(a, c)
           /\ DOMAIN Stored(a, c) \subseteq 0..(a.count - 1)
           /\ \A i \in DOMAIN Stored(a, c) : FrameOf(Stored(a, c)[i]) = a.frame
<1> DEFINE D == DOMAIN a.chunks \cup {c.index}
<1>1. /\ c.frame = a.frame /\ c.count = a.count /\ c.payload \in Payloads
      /\ FrameOf(c.payload) = a.frame /\ c.index \in 0..(a.count - 1)
      /\ a.count \in Nat
  BY DEF Accepts, IsChunk, IsAssembly
<1>2. PICK S \in SUBSET Nat : a.chunks \in [S -> Payloads]
  BY DEF IsAssembly, Partial
<1>3. D \subseteq 0..(a.count - 1) /\ D \in SUBSET Nat
  BY <1>1, <1>2 DEF IsAssembly
<1>4. /\ DOMAIN Stored(a, c) = D
      /\ \A i \in D : Stored(a, c)[i] = IF i = c.index THEN c.payload
                                        ELSE a.chunks[i]
  BY DEF Stored
<1>5. Stored(a, c) \in [D -> Payloads]
  BY <1>1, <1>2 DEF Stored
<1>6. Stored(a, c) \in Partial
  BY <1>3, <1>5 DEF Partial
<1>7. \A i \in D : FrameOf(Stored(a, c)[i]) = a.frame
  BY <1>1, <1>4 DEF IsAssembly
<1>8. IsAssembly([a EXCEPT !.chunks = Stored(a, c)])
  BY <1>3, <1>4, <1>6, <1>7 DEF IsAssembly
<1> QED
  BY <1>3, <1>4, <1>6, <1>7, <1>8

\* A complete assembly has every chunk from the first to the last.
LEMMA CompleteIsWhole ==
    ASSUME NEW D, NEW n \in Nat \ {0}, D \subseteq 0..(n - 1), Cardinality(D) = n
    PROVE  D = 0..(n - 1)
<1>1. IsFiniteSet(0..(n - 1)) /\ Cardinality(0..(n - 1)) = n
  BY FS_Interval
<1> QED
  BY <1>1, FS_Subset

\* Every step of the host keeps its invariant,
LEMMA HostStep ==
    ASSUME HostInv, HostNext
    PROVE  HostInv'
<1>1. ASSUME NEW c, IsChunk(c), DropOld(c), UNCHANGED now PROVE HostInv'
  BY <1>1 DEF DropOld, shown, HostInv, ShownFrameWhole, AssemblyAhead
<1>2. ASSUME NEW c, IsChunk(c), Collect(c), UNCHANGED now PROVE HostInv'
  <2> DEFINE a == Assembly(c)
  <2>1. /\ ~IsOld(c) /\ candidate' = Add(a, c)
        /\ latestFrame' = IF IsRestart(c) THEN None ELSE latestFrame
        /\ latestStamp' = IF IsRestart(c) THEN None ELSE latestStamp
        /\ UNCHANGED <<image, received, version, now>>
    BY <1>2 DEF Collect
  <2>2. IsAssembly(a)
        /\ (latestFrame # None /\ ~IsRestart(c) => a.frame > latestFrame)
    BY <1>2, <2>1, AssemblyFits
  <2> HIDE DEF a
  <2>3. IsAssembly(candidate') /\ candidate'.frame = a.frame
    <3>1. CASE Accepts(a, c)
      BY <1>2, <2>1, <2>2, <3>1, StoredFits DEF Add, IsAssembly
    <3>2. CASE ~Accepts(a, c)
      BY <2>1, <2>2, <3>2 DEF Add
    <3> QED
      BY <3>1, <3>2
  <2>4. AssemblyAhead'
    BY <2>1, <2>2, <2>3 DEF HostInv, AssemblyAhead
  <2>5. ShownFrameWhole'
    BY <2>1 DEF HostInv, ShownFrameWhole
  <2> QED
    BY <2>1, <2>3, <2>4, <2>5 DEF HostInv, IsAssembly
<1>3. ASSUME NEW c, IsChunk(c), Publish(c), UNCHANGED now PROVE HostInv'
  <2> DEFINE a == Assembly(c)
  <2>1. /\ ~IsOld(c) /\ CompletedBy(a, c) /\ image' = Stored(a, c)
        /\ latestFrame' = a.frame /\ latestStamp' = a.stamp
        /\ candidate' = None /\ now' = now
    BY <1>3 DEF Publish
  <2>2. IsAssembly(a)
    BY <1>3, <2>1, AssemblyFits
  <2> HIDE DEF a
  <2>3. a.frame \in Nat /\ a.stamp \in Nat /\ a.count \in Nat \ {0}
    BY <2>2 DEF IsAssembly
  <2>4. /\ DOMAIN image' \subseteq 0..(a.count - 1)
        /\ Cardinality(DOMAIN image') = a.count
        /\ \A i \in DOMAIN image' : FrameOf(image'[i]) = a.frame
    BY <1>3, <2>1, <2>2, StoredFits DEF CompletedBy
  <2>5. DOMAIN image' = 0..(a.count - 1)
    BY <2>3, <2>4, CompleteIsWhole
  <2>6. ShownFrameWhole'
    BY <2>1, <2>3, <2>4, <2>5 DEF ShownFrameWhole
  <2>7. AssemblyAhead'
    BY <2>1, <2>3, NoneAssumption DEF AssemblyAhead
  <2> QED
    BY <2>1, <2>3, <2>6, <2>7 DEF HostInv
<1>4. CASE Tick
  BY <1>4 DEF Tick, shown, HostInv, ShownFrameWhole, AssemblyAhead
<1> QED
  BY <1>1, <1>2, <1>3, <1>4 DEF HostNext, Receive, Ingest

\* which holds for any chunks that arrive,
LEMMA HostInvariance == HostSpec => []HostInv
<1>1. HostInit => HostInv
  BY NoneAssumption DEF HostInit, HostIdle, HostInv, ShownFrameWhole, AssemblyAhead
<1>2. HostInv /\ [HostNext]_hostVars => HostInv'
  <2> SUFFICES ASSUME HostInv, [HostNext]_hostVars PROVE HostInv'
    OBVIOUS
  <2>1. CASE HostNext
    BY <2>1, HostStep
  <2>2. CASE UNCHANGED hostVars
    BY <2>2 DEF hostVars, shown, HostInv, ShownFrameWhole, AssemblyAhead
  <2> QED
    BY <2>1, <2>2
<1> QED
  BY <1>1, <1>2, PTL DEF HostSpec

\* Whatever arrives, the host never shows a partial frame, nor one joined from
\* chunks of different frame ids.
THEOREM NeverPartial == HostSpec => []ShownFrameWhole
<1>1. HostInv => ShownFrameWhole
  BY DEF HostInv
<1> QED
  BY <1>1, HostInvariance, PTL

\* Whatever arrives, only a frame newer than the shown one is ever assembled.
THEOREM AlwaysAhead == HostSpec => []AssemblyAhead
<1>1. HostInv => AssemblyAhead
  BY DEF HostInv
<1> QED
  BY <1>1, HostInvariance, PTL

----------------------------------------------------------------------------
\* The pipeline

IsPacket(c) ==
    \E f, s, n, i, p :
        c = [frame |-> f, stamp |-> s, count |-> n, index |-> i, payload |-> p]

PipelineInv == now \in Nat /\ \A m \in net : IsPacket(m.chunk)

\* so also for those an agent sends.
LEMMA PipelineInvariance == Spec => []PipelineInv
<1>1. Init => PipelineInv
  BY DEF Init, PipelineInv
<1>2. PipelineInv /\ [Next]_vars => PipelineInv'
  <2> SUFFICES ASSUME PipelineInv, [Next]_vars PROVE PipelineInv'
    OBVIOUS
  <2>1. \A i : IsPacket(Packet(i).chunk)
    BY DEF IsPacket, Packet
  <2>2. CASE StartFrame
    BY <2>1, <2>2 DEF StartFrame, PipelineInv, hostVars
  <2>3. CASE SendNext
    BY <2>1, <2>3 DEF SendNext, PipelineInv, hostVars
  <2>4. CASE RestartAgent
    BY <2>4 DEF RestartAgent, PipelineInv, hostVars
  <2>5. ASSUME NEW m \in net, Deliver(m) PROVE PipelineInv'
    <3>1. now' = now /\ net' \subseteq net
      BY <2>5 DEF Deliver, Receive, Ingest
    <3> QED
      BY <3>1 DEF PipelineInv
  <2>6. ASSUME NEW m \in net, Lose(m) PROVE PipelineInv'
    BY <2>6 DEF Lose, PipelineInv, hostVars
  <2>7. CASE TimePasses
    BY <2>7 DEF TimePasses, PipelineInv
  <2>8. CASE UNCHANGED vars
    BY <2>8 DEF vars, hostVars, PipelineInv
  <2> QED
    BY <2>2, <2>3, <2>4, <2>5, <2>6, <2>7, <2>8 DEF Next
<1> QED
  BY <1>1, <1>2, PTL DEF Spec

\* Whatever the agent and the network do, the host they meet is the one of
\* HostSpec: every delivery is a step of the handler for a well-formed chunk,
\* and everything else leaves the host alone or lets time pass.
THEOREM PipelineImplementsHost == Spec => HostSpec
<1>1. Init => HostInit
  BY DEF Init, HostInit
<1>2. PipelineInv /\ [Next]_vars => [HostNext]_hostVars
  <2> SUFFICES ASSUME PipelineInv, [Next]_vars PROVE HostNext \/ UNCHANGED hostVars
    OBVIOUS
  <2>1. CASE StartFrame \/ SendNext \/ RestartAgent
    BY <2>1 DEF StartFrame, SendNext, RestartAgent
  <2>2. ASSUME NEW m \in net, Deliver(m) PROVE HostNext
    <3>1. IsPacket(m.chunk) /\ IsChunk(m.chunk) /\ Receive(m.chunk)
      BY <2>2 DEF Deliver, Receive, PipelineInv
    <3>2. m.chunk \in [frame : Nat, stamp : Nat, count : Nat, index : Nat,
                       payload : Payloads]
      BY <3>1 DEF IsPacket, IsChunk
    <3> QED
      BY <3>1, <3>2 DEF HostNext
  <2>3. ASSUME NEW m \in net, Lose(m) PROVE UNCHANGED hostVars
    BY <2>3 DEF Lose
  <2>4. CASE TimePasses
    <3>1. Tick
      BY <2>4 DEF TimePasses, PipelineInv, Tick
    <3> QED
      BY <3>1 DEF HostNext
  <2>5. CASE UNCHANGED vars
    BY <2>5 DEF vars
  <2> QED
    BY <2>1, <2>2, <2>3, <2>4, <2>5 DEF Next
<1> QED
  BY <1>1, <1>2, PipelineInvariance, PTL DEF Spec, HostSpec

\* From agent to display, over any number of chunks, frames and restarts and a
\* network that loses, repeats and reorders at will: only whole frames are
\* shown, their chunks sent under one id.
THEOREM PipelineNeverPartial == Spec => []ShownFrameWhole
  BY PipelineImplementsHost, NeverPartial, PTL

\* Nor does an old chunk ever start an assembly behind the display.
THEOREM PipelineAlwaysAhead == Spec => []AssemblyAhead
  BY PipelineImplementsHost, AlwaysAhead, PTL

----------------------------------------------------------------------------
\* What the pipeline keeps

\* What is in flight, under assembly and shown was sent by some session of the
\* agent up to this one, under the frame id it carries.
OriginInv ==
    /\ IsFiniteSet(net) /\ clock \in Nat /\ (next > 0 => frame > 0)
    /\ \A m \in net :
          /\ m.chunk.payload \in Origins /\ m.chunk.payload.session <= session
          /\ m.chunk.frame = m.chunk.payload.frame
          /\ m.chunk.stamp \in Nat /\ m.chunk.count = Chunks
          /\ m.chunk.index \in 0..Last
          /\ m.sent \in 0..now /\ now - m.sent <= MaxDelay
    /\ candidate # None => \A i \in DOMAIN candidate.chunks :
          /\ candidate.chunks[i] \in Origins
          /\ candidate.chunks[i].session <= session
          /\ candidate.chunks[i].frame = candidate.frame
    /\ image # None => \A i \in DOMAIN image :
          /\ image[i].session <= session
          /\ latestFrame \in {image[i].frame, None}

StateInv == HostInv /\ PipelineInv /\ TypeOK /\ OriginInv

\* The assembly a chunk is offered to is a new one or the candidate.
LEMMA AssemblyIs ==
    ASSUME NEW c
    PROVE  \/ Assembly(c) = NewAssembly(c)
           \/ /\ Assembly(c) = candidate /\ candidate # None
              /\ ~IsRestart(c) /\ ~Expired(candidate)
              /\ ~(c.frame > candidate.frame)
BY DEF Assembly, Current

\* A packet of the agent, offered to the host, joins an assembly that only
\* holds chunks of its own frame id, sent up to this session.
LEMMA OfferedAssembly ==
    ASSUME StateInv, NEW m \in net
    PROVE  LET a == Assembly(m.chunk) IN
           /\ a.frame \in Ids /\ a.count = Chunks /\ a.stamp \in Nat
           /\ a.created \in 0..now /\ DOMAIN a.chunks \subseteq 0..Last
           /\ DOMAIN a.chunks # {} \/ a.chunks = <<>>
           /\ \A i \in DOMAIN a.chunks :
                 /\ a.chunks[i] \in Origins /\ a.chunks[i].session <= session
                 /\ a.chunks[i].frame = a.frame
<1> DEFINE c == m.chunk
           a == Assembly(c)
<1>1. CASE a = NewAssembly(c)
  <2>1. /\ a.frame = c.frame /\ a.count = c.count /\ a.stamp = c.stamp
        /\ a.created = now /\ a.chunks = <<>> /\ DOMAIN a.chunks = {}
    BY <1>1 DEF NewAssembly
  <2>2. c.frame \in Ids /\ c.count = Chunks /\ c.stamp \in Nat /\ now \in 0..now
    BY DEF StateInv, OriginInv, Origins, PipelineInv
  <2> QED
    BY <2>1, <2>2
<1>2. CASE a = candidate /\ candidate # None
  BY <1>2 DEF StateInv, TypeOK, OriginInv
<1> QED
  BY <1>1, <1>2, AssemblyIs

\* Likewise what that assembly holds with the packet stored in it.
LEMMA OfferedStored ==
    ASSUME StateInv, NEW m \in net, Accepts(Assembly(m.chunk), m.chunk)
    PROVE  LET a == Assembly(m.chunk)
               F == Stored(a, m.chunk)
           IN  /\ DOMAIN F \subseteq 0..Last /\ DOMAIN F # {}
               /\ \A i \in DOMAIN F :
                     /\ F[i] \in Origins /\ F[i].session <= session
                     /\ F[i].frame = a.frame
<1> DEFINE a == Assembly(m.chunk)
           F == Stored(a, m.chunk)
<1>1. /\ DOMAIN F = DOMAIN a.chunks \cup {m.chunk.index}
      /\ F[m.chunk.index] = m.chunk.payload
      /\ \A i \in DOMAIN a.chunks : i # m.chunk.index => F[i] = a.chunks[i]
  BY SMTT(30) DEF Stored
<1>2. /\ m.chunk.payload \in Origins /\ m.chunk.payload.session <= session
      /\ m.chunk.payload.frame = m.chunk.frame /\ m.chunk.index \in 0..Last
  BY DEF StateInv, OriginInv
<1>3. m.chunk.frame = a.frame
  BY DEF Accepts
<1>4. /\ DOMAIN a.chunks \subseteq 0..Last
      /\ \A i \in DOMAIN a.chunks :
            /\ a.chunks[i] \in Origins /\ a.chunks[i].session <= session
            /\ a.chunks[i].frame = a.frame
  BY OfferedAssembly
<1> QED
  BY <1>1, <1>2, <1>3, <1>4

\* They are the assembly and the frame that the assumptions on frames speak of.
LEMMA OfferedFrames ==
    ASSUME StateInv, NEW m \in net, IsChunk(m.chunk), ~IsOld(m.chunk)
    PROVE  LET a == Assembly(m.chunk)
               F == Stored(a, m.chunk)
           IN  /\ IsAssembly(a) /\ a # None /\ F \in PartialFrames /\ F # None
               /\ DOMAIN F \subseteq 0..Last
               /\ Accepts(a, m.chunk) =>
                     /\ Add(a, m.chunk) # None /\ Add(a, m.chunk).chunks = F
                     /\ Add(a, m.chunk).frame = a.frame
                     /\ Add(a, m.chunk).created = a.created
<1> DEFINE c == m.chunk
           a == Assembly(c)
           F == Stored(a, c)
<1>1. IsAssembly(a)
  BY AssemblyFits DEF StateInv
<1>2. /\ DOMAIN a.chunks \subseteq 0..Last /\ a.chunks \in Partial
      /\ a \in [frame : Nat, stamp : Nat, count : Nat \ {0}, created : Nat,
                chunks : Partial]
      /\ c.index \in 0..Last /\ c.payload \in Payloads
  BY <1>1, OfferedAssembly DEF IsAssembly, StateInv, OriginInv, IsChunk
<1>3. \A G \in Partial : DOMAIN G \subseteq 0..Last => G \in PartialFrames
  BY DEF Partial, PartialFrames
<1>4. a \in Assemblies
  <2>1. a.chunks \in PartialFrames
    BY <1>2, <1>3
  <2> HIDE DEF a
  <2> QED
    BY <1>2, <2>1 DEF Assemblies
<1>5. F \in PartialFrames /\ DOMAIN F \subseteq 0..Last
  <2>1. /\ DOMAIN F = DOMAIN a.chunks \cup {c.index} /\ F[c.index] = c.payload
        /\ \A i \in DOMAIN a.chunks : i # c.index => F[i] = a.chunks[i]
    BY SMTT(20) DEF Stored
  <2>2. F = [i \in DOMAIN F |-> F[i]]
    BY DEF Stored
  <2>3. \A i \in DOMAIN F : F[i] \in Payloads /\ i \in 0..Last
    <3>1. \A i \in DOMAIN a.chunks : a.chunks[i] \in Payloads
      BY <1>2 DEF Partial
    <3> HIDE DEF a, F
    <3> QED
      BY <1>2, <2>1, <3>1
  <2> HIDE DEF F
  <2>4. F \in [DOMAIN F -> Payloads] /\ DOMAIN F \subseteq 0..Last
    BY <2>2, <2>3
  <2> QED
    BY <2>4 DEF PartialFrames
<1>6. ASSUME Accepts(a, c)
      PROVE  /\ Add(a, c) # None /\ Add(a, c).chunks = F
             /\ Add(a, c).frame = a.frame /\ Add(a, c).created = a.created
  <2> HIDE DEF a, F
  <2>1. Add(a, c) = [a EXCEPT !.chunks = F]
    BY <1>6 DEF Add, F
  <2>2. Add(a, c) \in Assemblies
    BY <1>4, <1>5, <2>1 DEF Assemblies
  <2>3. /\ Add(a, c).chunks = F
        /\ Add(a, c).frame = a.frame /\ Add(a, c).created = a.created
    BY <1>4, <2>1 DEF Assemblies
  <2> QED
    BY <2>2, <2>3, NoStateAssumption
<1> QED
  BY <1>1, <1>4, <1>5, <1>6, NoStateAssumption

\* A published frame has all its chunks.
LEMMA PublishedWhole ==
    ASSUME StateInv, NEW m \in net, CompletedBy(Assembly(m.chunk), m.chunk)
    PROVE  DOMAIN Stored(Assembly(m.chunk), m.chunk) = 0..Last
<1> DEFINE a == Assembly(m.chunk)
           D == DOMAIN Stored(a, m.chunk)
<1>1. Accepts(a, m.chunk) /\ Cardinality(D) = a.count
  BY DEF CompletedBy
<1>2. D \subseteq 0..(Chunks - 1)
  BY <1>1, OfferedStored DEF Last
<1>3. a.count = Chunks
  BY OfferedAssembly
<1> HIDE DEF D
<1>4. D = 0..(Chunks - 1)
  BY <1>1, <1>2, <1>3, CompleteIsWhole, NetworkAssumption
<1> QED
  BY <1>4 DEF Last, D

\* A chunk that arrives is one that was sent.
LEMMA DeliverKeepsState ==
    ASSUME StateInv, NEW m \in net, Deliver(m), UNCHANGED network
    PROVE  TypeOK' /\ OriginInv'
<1> DEFINE c == m.chunk
           a == Assembly(c)
           F == Stored(a, c)
<1>1. /\ IsChunk(c) /\ Ingest(c) /\ now' = now
      /\ net' \subseteq net
      /\ UNCHANGED <<session, frame, next, clock, network>>
  BY DEF Deliver, Receive, Ingest, agentVars
<1>2. IsFiniteSet(net') /\ Cardinality(net') <= MaxFlight
  <2>1. IsFiniteSet(net) /\ Cardinality(net) <= MaxFlight
    BY DEF StateInv, TypeOK, OriginInv
  <2>2. IsFiniteSet(net') /\ Cardinality(net') <= Cardinality(net)
    BY <1>1, <2>1, FS_Subset
  <2>3. Cardinality(net') \in Nat /\ Cardinality(net) \in Nat
    BY <2>1, <2>2, FS_CardinalityType
  <2> QED
    BY <2>1, <2>2, <2>3, NetworkAssumption
\* The packets left in flight, and what the handler does not touch.
<1>3. ASSUME /\ candidate' # None =>
                   /\ candidate'.frame \in Ids /\ candidate'.count = Chunks
                   /\ candidate'.stamp \in Nat /\ candidate'.created \in 0..now
                   /\ DOMAIN candidate'.chunks \subseteq 0..Last
                   /\ DOMAIN candidate'.chunks # {} \/ candidate'.chunks = <<>>
                   /\ \A i \in DOMAIN candidate'.chunks :
                         /\ candidate'.chunks[i] \in Origins
                         /\ candidate'.chunks[i].session <= session
                         /\ candidate'.chunks[i].frame = candidate'.frame,
             image' \in Images \cup {None},
             image' # None => \A i \in DOMAIN image' :
                                 /\ image'[i].session <= session
                                 /\ latestFrame' \in {image'[i].frame, None},
             latestFrame' \in Ids \cup {None}, latestStamp' \in Nat \cup {None},
             received' \in Times \cup {None}, version' \in Nat
      PROVE  TypeOK' /\ OriginInv'
  <2>1. TypeOK'
    BY <1>1, <1>2, <1>3 DEF StateInv, TypeOK, Times, Ids, Images, Origins,
                            MaxNow, MaxFrame, MaxSession
  <2>2. OriginInv'
    BY <1>1, <1>2, <1>3 DEF StateInv, OriginInv, Origins, Ids, MaxFrame,
                            MaxSession, MaxDelay
  <2> QED
    BY <2>1, <2>2
<1>4. CASE DropOld(c)
  <2>1. UNCHANGED <<candidate, image, latestFrame, latestStamp, received, version>>
    BY <1>4 DEF DropOld, shown
  <2> QED
    BY <1>3, <2>1 DEF StateInv, TypeOK, OriginInv
<1>5. CASE Collect(c)
  <2>1. /\ candidate' = Add(a, c)
        /\ latestFrame' \in {latestFrame, None}
        /\ latestStamp' \in {latestStamp, None}
        /\ UNCHANGED <<image, received, version>>
    BY <1>5 DEF Collect
  <2>2. /\ candidate'.frame = a.frame /\ candidate'.count = a.count
        /\ candidate'.stamp = a.stamp /\ candidate'.created = a.created
        /\ \/ candidate'.chunks = a.chunks
           \/ Accepts(a, c) /\ candidate'.chunks = F
    <3>1. CASE Accepts(a, c)
      <4>1. candidate' = [a EXCEPT !.chunks = F]
        BY <2>1, <3>1 DEF Add
      <4>2. IsAssembly(a)
        BY <1>1, <1>5, AssemblyFits DEF Collect, StateInv
      <4> HIDE DEF a, F
      <4> QED
        BY <3>1, <4>1, <4>2 DEF IsAssembly
    <3>2. CASE ~Accepts(a, c)
      BY <2>1, <3>2 DEF Add
    <3> QED
      BY <3>1, <3>2
  <2>3. /\ a.frame \in Ids /\ a.count = Chunks /\ a.stamp \in Nat
        /\ a.created \in 0..now /\ DOMAIN a.chunks \subseteq 0..Last
        /\ DOMAIN a.chunks # {} \/ a.chunks = <<>>
        /\ \A i \in DOMAIN a.chunks :
              /\ a.chunks[i] \in Origins /\ a.chunks[i].session <= session
              /\ a.chunks[i].frame = a.frame
    BY OfferedAssembly
  <2>4. Accepts(a, c) =>
           /\ DOMAIN F \subseteq 0..Last /\ DOMAIN F # {}
           /\ \A i \in DOMAIN F :
                 /\ F[i] \in Origins /\ F[i].session <= session
                 /\ F[i].frame = a.frame
    BY OfferedStored
  <2> HIDE DEF a, F
  <2> QED
    BY SMTT(60), <1>3, <2>1, <2>2, <2>3, <2>4 DEF StateInv, TypeOK, OriginInv
<1>6. CASE Publish(c)
  <2>1. /\ CompletedBy(a, c) /\ Accepts(a, c)
        /\ image' = F /\ latestFrame' = a.frame /\ latestStamp' = a.stamp
        /\ received' = now /\ version' = version + 1 /\ candidate' = None
    BY <1>6 DEF Publish, CompletedBy
  <2>2. a.frame \in Ids /\ a.stamp \in Nat
    BY OfferedAssembly
  <2>3. \A i \in DOMAIN F : /\ F[i] \in Origins /\ F[i].session <= session
                            /\ F[i].frame = a.frame
    BY <2>1, OfferedStored
  <2>4. F \in Images
    <3>1. DOMAIN F = 0..Last
      BY <2>1, PublishedWhole
    <3>2. F = [i \in DOMAIN F |-> F[i]]
      BY DEF Stored
    <3> QED
      BY <2>3, <3>1, <3>2 DEF Images
  <2>5. now \in Times /\ version \in Nat
    BY DEF StateInv, TypeOK
  <2> HIDE DEF a, F
  <2> QED
    BY <1>3, <2>1, <2>2, <2>3, <2>4, <2>5
<1> QED
  BY <1>1, <1>4, <1>5, <1>6 DEF Ingest

\* A chunk that is sent is of the frame the agent is at.
LEMMA SendKeepsState ==
    ASSUME StateInv, StartFrame \/ SendNext, UNCHANGED network
    PROVE  TypeOK' /\ OriginInv'
<1>1. PICK i \in 0..Last : /\ net' = net \cup {Packet(i)}
                           /\ Cardinality(net) < MaxFlight
  BY NetworkAssumption DEF StartFrame, SendNext, StateInv, TypeOK, Last
<1>2. /\ UNCHANGED <<now, candidate, image, latestFrame, latestStamp, received,
                     version, session>>
      /\ frame' \in 1..MaxFrame /\ clock' \in Nat /\ next' \in 0..Last
  <2>1. CASE StartFrame
    BY <2>1, NetworkAssumption DEF StartFrame, hostVars, shown, StateInv, TypeOK,
                                   OriginInv, Last, MaxFrame
  <2>2. CASE SendNext
    <3>1. next > 0 /\ next' = (next + 1) % Chunks /\ next \in 0..Last
      BY <2>2 DEF SendNext, StateInv, TypeOK
    <3>2. frame \in 1..MaxFrame
      BY <2>2 DEF SendNext, StateInv, TypeOK, OriginInv
    <3> QED
      BY <2>2, <3>1, <3>2, NetworkAssumption
         DEF SendNext, hostVars, shown, StateInv, TypeOK, OriginInv, Last
  <2> QED
    BY <2>1, <2>2
<1>3. /\ Packet(i).chunk.payload = Origin(session, frame')
      /\ Packet(i).chunk.frame = frame' /\ Packet(i).chunk.stamp = clock'
      /\ Packet(i).chunk.count = Chunks /\ Packet(i).chunk.index = i
      /\ Packet(i).sent = now
  BY DEF Packet
<1>4. Origin(session, frame') \in Origins
  BY <1>2 DEF Origin, Origins, Ids, StateInv, TypeOK
<1>5. IsFiniteSet(net') /\ Cardinality(net') <= MaxFlight
  <2>1. IsFiniteSet(net) /\ Cardinality(net) \in Nat
    BY FS_CardinalityType DEF StateInv, OriginInv
  <2>2. /\ IsFiniteSet(net')
        /\ Cardinality(net') \in {Cardinality(net), Cardinality(net) + 1}
    BY <1>1, <2>1, FS_AddElement
  <2> QED
    BY <1>1, <2>1, <2>2, NetworkAssumption
<1>6. TypeOK'
  BY <1>2, <1>5 DEF StateInv, TypeOK, Times, Ids, Images, Origins,
                    MaxNow, MaxFrame, MaxSession
<1>7. MaxDelay \in Nat /\ now \in Nat
  BY NetworkAssumption DEF StateInv, TypeOK, MaxDelay, PipelineInv
<1> HIDE DEF Packet
<1>8. OriginInv'
  BY SMTT(60), <1>1, <1>2, <1>3, <1>4, <1>5, <1>7
     DEF StateInv, TypeOK, OriginInv, Origins, Origin, Ids, MaxFrame, MaxSession, MaxDelay
<1> QED
  BY <1>6, <1>8

\* Every step keeps the types and the origins,
LEMMA StateStep ==
    ASSUME StateInv, [Next]_vars
    PROVE  TypeOK' /\ OriginInv'
<1>0. now \in Nat /\ MaxNow \in Nat /\ MaxSession \in Nat
  BY NetworkAssumption DEF StateInv, PipelineInv, TypeOK, MaxNow, MaxSession
<1>1. CASE (StartFrame \/ SendNext) /\ UNCHANGED network
  BY <1>1, SendKeepsState
<1>2. CASE RestartAgent /\ UNCHANGED network
  <2>1. /\ UNCHANGED <<now, candidate, image, latestFrame, latestStamp, received,
                       version, net, network>>
        /\ session < MaxSession /\ session' = session + 1 /\ frame' = 0 /\ next' = 0
        /\ clock' \in {clock, 0}
    BY <1>2 DEF RestartAgent, hostVars, shown
  <2>2. session \in Nat /\ \A k \in 1..MaxSession : k <= session => k <= session'
    BY <2>1 DEF StateInv, TypeOK
  <2>3. TypeOK'
    BY SMTT(60), <1>0, <2>1, NetworkAssumption
       DEF StateInv, TypeOK, Times, Ids, Images, Origins, MaxNow, MaxFrame,
           MaxSession, Last
  <2>4. /\ Origins' = Origins /\ MaxDelay' = MaxDelay
        /\ \A o \in Origins : o.session <= session => o.session <= session'
    BY <2>1, <2>2 DEF Origins, Ids, MaxSession, MaxFrame, MaxDelay
  <2>5. image # None => \A i \in DOMAIN image : image[i] \in Origins
    BY DEF StateInv, TypeOK, Images
  <2> HIDE DEF Origins
  <2>6. OriginInv'
    BY <2>1, <2>4, <2>5 DEF StateInv, OriginInv
  <2> QED
    BY <2>3, <2>6
<1>3. ASSUME NEW m \in net, Deliver(m), UNCHANGED network PROVE TypeOK' /\ OriginInv'
  BY <1>3, DeliverKeepsState
<1>4. ASSUME NEW m \in net, Lose(m), UNCHANGED network PROVE TypeOK' /\ OriginInv'
  <2>1. /\ net' = net \ {m}
        /\ UNCHANGED <<now, candidate, image, latestFrame, latestStamp, received,
                       version, session, frame, next, clock, network>>
    BY <1>4 DEF Lose, hostVars, shown, agentVars
  <2>2. IsFiniteSet(net') /\ Cardinality(net') <= MaxFlight
    <3>1. IsFiniteSet(net) /\ Cardinality(net) <= MaxFlight
      BY DEF StateInv, TypeOK, OriginInv
    <3>2. IsFiniteSet(net') /\ Cardinality(net') <= Cardinality(net)
      BY <2>1, <3>1, FS_Subset
    <3>3. Cardinality(net') \in Nat /\ Cardinality(net) \in Nat
      BY <3>1, <3>2, FS_CardinalityType
    <3> QED
      BY <3>1, <3>2, <3>3, NetworkAssumption
  <2>3. TypeOK'
    BY <2>1, <2>2 DEF StateInv, TypeOK, Times, Ids, Images, Origins,
                      MaxNow, MaxFrame, MaxSession
  <2>4. OriginInv'
    BY <2>1, <2>2 DEF StateInv, OriginInv, Origins, Ids, MaxFrame, MaxSession, MaxDelay
  <2> QED
    BY <2>3, <2>4
<1>5. CASE TimePasses /\ UNCHANGED network
  <2>1. /\ now < MaxNow /\ now' = now + 1 /\ \A m \in net : now - m.sent < MaxDelay
        /\ UNCHANGED <<candidate, image, latestFrame, latestStamp, received,
                       version, session, frame, next, clock, net, network>>
    BY <1>5 DEF TimePasses, shown, agentVars
  <2>2. TypeOK'
    BY SMTT(60), <1>0, <2>1 DEF StateInv, TypeOK, Times, Ids, Images, Origins,
                      MaxNow, MaxFrame, MaxSession
  <2>3. MaxDelay \in Nat
    BY NetworkAssumption DEF StateInv, TypeOK, MaxDelay
  <2>4. OriginInv'
    BY <1>0, <2>1, <2>3
       DEF StateInv, OriginInv, Origins, Ids, MaxFrame, MaxSession, MaxDelay
  <2> QED
    BY <2>2, <2>4
<1>6. CASE UNCHANGED vars
  BY <1>6 DEF vars, hostVars, shown, agentVars, StateInv, TypeOK, OriginInv, Times, Ids,
              Images, Origins, MaxNow, MaxFrame, MaxSession, MaxDelay
<1> QED
  BY <1>1, <1>2, <1>3, <1>4, <1>5, <1>6 DEF Next

\* in every reachable state.
LEMMA StateInvariance == Spec => []StateInv
<1>1. Init => TypeOK /\ OriginInv
  <2> SUFFICES ASSUME Init PROVE TypeOK /\ OriginInv
    OBVIOUS
  <2>1. /\ MaxNow \in Nat /\ MaxFrame \in Nat /\ MaxSession \in Nat \ {0}
        /\ Last \in Nat /\ MaxFlight \in Nat
    BY NetworkAssumption DEF Init, MaxNow, MaxFrame, MaxSession, Last
  <2> QED
    BY <2>1, FS_EmptySet DEF Init, HostIdle, TypeOK, OriginInv, Times, Ids
<1>2. StateInv /\ [Next]_vars => TypeOK' /\ OriginInv'
  BY StateStep
<1> QED
  BY <1>1, <1>2, PipelineImplementsHost, HostInvariance, PipelineInvariance, PTL
     DEF Spec, StateInv

\* Only a delivered chunk that completes a frame changes what is shown.
LEMMA OnlyPublish ==
    ASSUME [Next]_vars, version' # version
    PROVE  \E m \in net : Deliver(m) /\ Publish(m.chunk)
<1>1. CASE StartFrame \/ SendNext \/ RestartAgent
  BY <1>1 DEF StartFrame, SendNext, RestartAgent, hostVars, shown
<1>2. ASSUME NEW m \in net, Deliver(m) PROVE Publish(m.chunk)
  BY <1>2 DEF Deliver, Receive, Ingest, DropOld, Collect, shown
<1>3. ASSUME NEW m \in net, Lose(m) PROVE FALSE
  BY <1>3 DEF Lose, hostVars, shown
<1>4. CASE TimePasses
  BY <1>4 DEF TimePasses, shown
<1>5. CASE UNCHANGED vars
  BY <1>5 DEF vars, hostVars, shown
<1> QED
  BY <1>1, <1>2, <1>3, <1>4, <1>5 DEF Next

\* No frame is shown whose chunks took the assembly timeout or longer to
\* arrive, whatever agent and network do.
THEOREM AlwaysShownInTime == Spec => ShownInTime
<1> DEFINE InTime ==
             version' # version /\ candidate # None =>
                 \/ now - candidate.created < AssemblyTimeout
                 \/ Chunks = 1
<1>1. ASSUME StateInv, [Next]_vars PROVE InTime
  <2> SUFFICES ASSUME version' # version, candidate # None
               PROVE  now - candidate.created < AssemblyTimeout \/ Chunks = 1
    OBVIOUS
  <2>1. PICK m \in net : Publish(m.chunk)
    BY <1>1, OnlyPublish
  <2> DEFINE a == Assembly(m.chunk)
  <2>2. CompletedBy(a, m.chunk)
    BY <2>1 DEF Publish
  <2>3. CASE a = candidate /\ ~Expired(candidate)
    <3>1. now \in Nat /\ candidate.created \in 0..now /\ AssemblyTimeout \in Nat
      BY <1>1, TimeoutAssumption DEF StateInv, TypeOK, PipelineInv
    <3> QED
      BY <2>3, <3>1 DEF Expired
  <2>4. CASE a = NewAssembly(m.chunk)
    <3>1. DOMAIN a.chunks = {}
      BY <2>4 DEF NewAssembly
    <3>0. DOMAIN Stored(a, m.chunk) = DOMAIN a.chunks \cup {m.chunk.index}
      BY SMTT(30) DEF Stored
    <3> HIDE DEF a
    <3>2. DOMAIN Stored(a, m.chunk) = {m.chunk.index}
      BY <3>0, <3>1
    <3>3. 0..Last = {m.chunk.index}
      BY <1>1, <2>2, <3>2, PublishedWhole DEF a
    <3>4. Chunks \in Nat \ {0} /\ Last = Chunks - 1
      BY NetworkAssumption DEF Last
    <3>5. 0 \in 0..Last /\ Last \in 0..Last
      BY <3>4
    <3>6. Last = 0
      BY <3>3, <3>5
    <3> QED
      BY <3>4, <3>6
  <2> QED
    BY <2>3, <2>4, AssemblyIs
<1>2. StateInv /\ [Next]_vars => [InTime]_vars
  BY <1>1
<1> QED
  BY <1>2, StateInvariance, PTL DEF Spec, ShownInTime

----------------------------------------------------------------------------
\* Before the first restart

\* Until the agent restarts, its stamps grow with its frame ids, and what is in
\* flight of a frame not newer than the shown one was sent before that was
\* shown.
SoloInv ==
    session = 1 =>
        /\ clock = frame
        /\ \A m \in net : /\ m.chunk.stamp = m.chunk.frame /\ m.chunk.frame <= frame
                          /\ m.chunk.frame = frame => next = 0 \/ m.chunk.index < next
        /\ candidate # None =>
              /\ candidate.stamp = candidate.frame /\ candidate.frame <= frame
              /\ candidate.frame = frame =>
                    \A i \in DOMAIN candidate.chunks : next = 0 \/ i < next
        /\ latestStamp = latestFrame
        /\ image # None => latestFrame = image[0].frame
        /\ latestFrame # None =>
              /\ received \in Nat
              /\ latestFrame <= frame
              /\ latestFrame = frame => next = 0
              /\ \A m \in net : m.chunk.frame <= latestFrame => m.sent <= received

\* While there is one session, what is published is a later frame.
LEMMA SoloDeliver ==
    ASSUME StateInv, SoloInv, session = 1, NEW m \in net, Deliver(m), UNCHANGED network
    PROVE  /\ SoloInv'
           /\ latestFrame # None /\ Publish(m.chunk)
                 => latestFrame < Assembly(m.chunk).frame
<1> DEFINE c == m.chunk
           a == Assembly(c)
           F == Stored(a, c)
<1>1. /\ IsChunk(c) /\ Ingest(c) /\ now' = now /\ net' \subseteq net
      /\ UNCHANGED <<session, frame, next, clock>>
  BY DEF Deliver, Receive, Ingest, agentVars
<1>2. /\ c.frame \in Ids /\ c.stamp = c.frame /\ c.frame <= frame
      /\ c.frame = frame => next = 0 \/ c.index < next
      /\ c.index \in 0..Last /\ m.sent \in 0..now /\ now - m.sent <= MaxDelay
  BY DEF StateInv, OriginInv, SoloInv, Origins
<1>3. /\ now \in Nat /\ MaxDelay \in Nat /\ MaxDelay < ErrorAge /\ ErrorAge \in Nat
      /\ frame \in Nat /\ next \in 0..Last /\ Ids \subseteq Nat /\ Last \in Nat
  BY NetworkAssumption, TimeoutAssumption
     DEF StateInv, PipelineInv, TypeOK, MaxDelay, Ids, MaxFrame, Last
<1>4. latestFrame # None =>
         /\ latestFrame \in Ids /\ latestStamp = latestFrame /\ received \in Nat
         /\ c.frame <= latestFrame => m.sent <= received
  BY DEF SoloInv, StateInv, TypeOK
\* Nothing that arrives is taken for a restarted or rebooted agent's.
<1>5. latestFrame # None => ~IsRestart(c)
  <2> SUFFICES ASSUME latestFrame # None, IsRestart(c) PROVE FALSE
    OBVIOUS
  <2>1. CASE RestartsClock(c)
    <3>1. c.frame \in Nat /\ latestFrame \in Nat
      BY <1>2, <1>4 DEF Ids
    <3>2. c.frame <= latestFrame /\ c.frame > latestFrame
      BY <1>2, <1>4, <2>1 DEF RestartsClock
    <3> QED
      BY <3>1, <3>2
  <2>2. CASE RestartsStale(c)
    <3>1. latestFrame \in Nat \ {0} /\ c.frame \in Nat
      BY <1>2, <1>4 DEF Ids
    <3>2. c.frame <= latestFrame /\ now - received >= ErrorAge
      BY <2>2, <3>1 DEF RestartsStale
    <3> QED
      BY <1>2, <1>3, <1>4, <3>2
  <2> QED
    BY <2>1, <2>2 DEF IsRestart
<1>6. latestFrame = None => ~IsRestart(c)
  BY DEF SoloInv, IsRestart
<1>7. ~IsOld(c) => IsAssembly(a) /\ (latestFrame # None => latestFrame < a.frame)
  BY <1>1, <1>3, <1>4, <1>5, AssemblyFits DEF StateInv, IsAssembly
\* The assembly belongs to a frame sent in this session.
<1>8. /\ a.stamp = a.frame /\ a.frame <= frame /\ a.frame \in Ids
      /\ a.frame = frame => \A i \in DOMAIN a.chunks : next = 0 \/ i < next
  <2>1. CASE a = NewAssembly(c)
    BY <1>2, <2>1 DEF NewAssembly
  <2>2. CASE a = candidate /\ candidate # None
    BY <2>2 DEF SoloInv, StateInv, TypeOK
  <2> QED
    BY <2>1, <2>2, AssemblyIs
<1>9. Accepts(a, c) =>
         (a.frame = frame => \A i \in DOMAIN F : next = 0 \/ i < next)
  <2>1. Accepts(a, c) => c.frame = a.frame
    BY DEF Accepts
  <2>2. DOMAIN F = DOMAIN a.chunks \cup {c.index}
    BY SMTT(30) DEF Stored
  <2> QED
    BY <1>2, <1>8, <2>1, <2>2
<1>10. CASE DropOld(c)
  <2>1. UNCHANGED <<candidate, image, latestFrame, latestStamp, received, version>>
    BY <1>10 DEF DropOld, shown
  <2> QED
    BY <1>1, <1>10, <2>1 DEF SoloInv, DropOld, Publish
<1>11. CASE Collect(c)
  <2>1. /\ ~IsOld(c) /\ candidate' = Add(a, c)
        /\ (CompletedBy(a, c) => ~Jpeg(Stored(a, c)))
        /\ UNCHANGED <<image, received, version, latestFrame, latestStamp>>
    BY <1>5, <1>6, <1>11 DEF Collect
  <2>2. /\ candidate'.frame = a.frame /\ candidate'.stamp = a.stamp
        /\ \/ candidate'.chunks = a.chunks
           \/ Accepts(a, c) /\ candidate'.chunks = F
    <3> HIDE DEF a, F
    <3>1. CASE Accepts(a, c)
      BY <1>7, <2>1, <3>1 DEF Add, IsAssembly, F, a
    <3>2. CASE ~Accepts(a, c)
      BY <2>1, <3>2 DEF Add
    <3> QED
      BY <3>1, <3>2
  <2>3. ~Publish(c)
    BY <2>1 DEF Publish
  <2> HIDE DEF a, F
  <2> QED
    BY <1>1, <1>8, <1>9, <2>1, <2>2, <2>3 DEF SoloInv
<1>12. CASE Publish(c)
  <2>1. /\ ~IsOld(c) /\ CompletedBy(a, c) /\ Accepts(a, c)
        /\ image' = F /\ latestFrame' = a.frame /\ latestStamp' = a.stamp
        /\ received' = now /\ candidate' = None
    BY <1>12 DEF Publish, CompletedBy
  <2>2. DOMAIN F = 0..Last
    BY <2>1, PublishedWhole
  <2>3. F[0].frame = a.frame
    <3>1. 0 \in DOMAIN F
      BY <1>3, <2>2
    <3> QED
      BY <2>1, <3>1, OfferedStored
  <2>4. a.frame = frame => next = 0
    <3>1. Last \in DOMAIN F
      BY <1>3, <2>2
    <3>2. a.frame = frame => next = 0 \/ Last < next
      BY <1>9, <2>1, <3>1
    <3> QED
      BY <1>3, <3>2
  <2>5. \A n \in net : n.sent <= now
    BY <1>3 DEF StateInv, OriginInv
  <2>6. received' \in Nat /\ \A n \in net' : n.sent <= received'
    BY <1>1, <1>3, <2>1, <2>5
  <2>7. image'[0].frame = latestFrame' /\ latestStamp' = latestFrame'
    BY <1>8, <2>1, <2>3
  <2>8. latestFrame' <= frame' /\ (latestFrame' = frame' => next' = 0)
    BY <1>1, <1>8, <2>1, <2>4
  <2> HIDE DEF a, F
  <2>9. SoloInv'
    BY <1>1, <2>1, <2>6, <2>7, <2>8 DEF SoloInv
  <2> QED
    BY <1>7, <2>1, <2>9 DEF a
<1> QED
  BY <1>1, <1>10, <1>11, <1>12 DEF Ingest

\* Every step keeps what holds of a single session.
LEMMA SoloStep ==
    ASSUME StateInv, SoloInv, [Next]_vars
    PROVE  SoloInv'
<1> SUFFICES ASSUME session' = 1 PROVE SoloInv'
  BY DEF SoloInv
<1>1. now \in Nat /\ session \in Nat \ {0} /\ frame \in Nat /\ clock \in Nat
  BY DEF StateInv, PipelineInv, TypeOK, OriginInv, MaxFrame
<1>2. Last \in Nat /\ Chunks = Last + 1 /\ next \in 0..Last /\ Chunks \in Nat \ {0}
  BY NetworkAssumption DEF Last, StateInv, TypeOK
<1>3. CASE StartFrame
  <2>1. /\ next = 0 /\ frame' = frame + 1 /\ clock' = clock + 1
        /\ net' = net \cup {Packet(0)} /\ next' = 1 % Chunks
        /\ UNCHANGED <<now, candidate, image, latestFrame, latestStamp, received,
                       version, session>>
    BY <1>3 DEF StartFrame, hostVars, shown
  <2>2. /\ Packet(0).chunk.frame = frame' /\ Packet(0).chunk.stamp = clock'
        /\ Packet(0).chunk.index = 0 /\ Packet(0).sent = now
    BY DEF Packet
  <2>3. next' = 0 \/ 0 < next'
    BY <1>2, <2>1
  <2> HIDE DEF Packet
  <2> QED
    BY <1>1, <2>1, <2>2, <2>3 DEF SoloInv, StateInv, OriginInv, TypeOK, Ids, Origins
<1>4. CASE SendNext
  <2>1. /\ next > 0 /\ frame' = frame /\ clock' = clock
        /\ net' = net \cup {Packet(next)} /\ next' = (next + 1) % Chunks
        /\ UNCHANGED <<now, candidate, image, latestFrame, latestStamp, received,
                       version, session>>
    BY <1>4 DEF SendNext, hostVars, shown
  <2>2. /\ Packet(next).chunk.frame = frame /\ Packet(next).chunk.stamp = clock
        /\ Packet(next).chunk.index = next /\ Packet(next).sent = now
    BY <2>1 DEF Packet
  <2>3. next' = 0 \/ next' = next + 1
    BY <1>2, <2>1
  <2>4. latestFrame # None => latestFrame < frame
    BY <1>1, <1>2, <2>1 DEF SoloInv, StateInv, TypeOK, Ids
  <2>5. \A n \in net : n.chunk.index \in 0..Last
    BY DEF StateInv, OriginInv
  <2>6. candidate # None => DOMAIN candidate.chunks \subseteq 0..Last
    BY DEF StateInv, TypeOK
  <2> HIDE DEF Packet
  <2>7. \A n \in net' :
          /\ n.chunk.stamp = n.chunk.frame /\ n.chunk.frame <= frame'
          /\ n.chunk.frame = frame' => next' = 0 \/ n.chunk.index < next'
    BY <1>1, <1>2, <2>1, <2>2, <2>3, <2>5 DEF SoloInv
  <2>8. candidate # None /\ candidate.frame = frame =>
          \A i \in DOMAIN candidate.chunks : next' = 0 \/ i < next'
    BY <1>2, <2>1, <2>3, <2>6 DEF SoloInv
  <2>9. latestFrame # None =>
          \A n \in net' : n.chunk.frame <= latestFrame => n.sent <= received
    BY <1>1, <2>1, <2>2, <2>4 DEF SoloInv, StateInv, TypeOK, Ids
  <2> QED
    BY <1>1, <2>1, <2>4, <2>7, <2>8, <2>9 DEF SoloInv
<1>5. CASE RestartAgent
  BY <1>1, <1>5 DEF RestartAgent
<1>6. ASSUME NEW m \in net, Deliver(m), UNCHANGED network PROVE SoloInv'
  <2>1. session = 1
    BY <1>6 DEF Deliver, agentVars
  <2> QED
    BY <1>6, <2>1, SoloDeliver
<1>7. ASSUME NEW m \in net, Lose(m) PROVE SoloInv'
  BY <1>7 DEF Lose, SoloInv, hostVars, shown, agentVars
<1>8. CASE TimePasses
  BY <1>8 DEF TimePasses, SoloInv, shown, agentVars
<1>9. CASE UNCHANGED vars
  BY <1>9 DEF vars, SoloInv, hostVars, shown, agentVars
<1> QED
  BY <1>3, <1>4, <1>5, <1>6, <1>7, <1>8, <1>9 DEF Next

----------------------------------------------------------------------------
\* Networks that keep order

\* The place of a chunk in what the agent sends over all its sessions.
At(o, i) == [payload |-> o, index |-> i]

Earlier(x, y) ==
    \/ x.payload.session < y.payload.session
    \/ /\ x.payload.session = y.payload.session
       /\ \/ x.payload.frame < y.payload.frame
          \/ x.payload.frame = y.payload.frame /\ x.index < y.index

\* The chunk the agent sends next, if it does not restart.
Upcoming ==
    At(Origin(session, IF next = 0 THEN frame + 1 ELSE frame), next)

Pending == {At(m.chunk.payload, m.chunk.index) : m \in net} \cup {Upcoming}

\* Sent, and not in flight any more: with such a network, delivered.
Past(x) == \A y \in Pending : Earlier(x, y)

\* The chunks pending are in order, without gaps; what the host holds is past.
OrderInv ==
    Reliable =>
        /\ \A m \in net : Earlier(At(m.chunk.payload, m.chunk.index), Upcoming)
        /\ \A x \in Pending : \A i \in 0..(x.index - 1) :
              At(x.payload, i) \in Pending \/ Past(At(x.payload, i))
        /\ candidate # None => \A i \in DOMAIN candidate.chunks :
              Past(At(candidate.chunks[i], i))
        /\ image # None => \A i \in DOMAIN image : Past(At(image[i], i))

Places == [payload : [session : Nat, frame : Nat], index : Nat]

\* The order of the places in what an agent sends is strict,
LEMMA EarlierOrders ==
    /\ \A x, y, z \in Places : Earlier(x, y) /\ Earlier(y, z) => Earlier(x, z)
    /\ \A x, y \in Places : Earlier(x, y) => ~Earlier(y, x) /\ x # y
BY DEF Earlier, Places

\* and what is still to come has a place in it.
LEMMA PendingPlaces ==
    ASSUME StateInv
    PROVE  /\ Pending \subseteq Places /\ Upcoming \in Pending
           /\ Upcoming.payload.session = session /\ Upcoming.index = next
           /\ Upcoming.payload.frame = IF next = 0 THEN frame + 1 ELSE frame
           /\ \A x \in Pending : x.payload.session \in Nat \ {0} /\ x.index \in 0..Last
           /\ \A o \in Origins, i \in 0..Last : At(o, i) \in Places
<1>1. /\ session \in Nat \ {0} /\ frame \in Nat /\ next \in 0..Last /\ Last \in Nat
  BY NetworkAssumption DEF StateInv, TypeOK, MaxFrame, Last
<1>2. \A m \in net : m.chunk.payload \in Origins /\ m.chunk.index \in 0..Last
  BY DEF StateInv, OriginInv
<1>3. \A o \in Origins, i \in 0..Last :
        /\ At(o, i) \in Places /\ o.session \in Nat \ {0}
        /\ At(o, i).payload = o /\ At(o, i).index = i
  BY DEF At, Origins, Ids, Places
<1>4. /\ Upcoming \in Places /\ Upcoming.payload.session = session
      /\ Upcoming.index = next
      /\ Upcoming.payload.frame = IF next = 0 THEN frame + 1 ELSE frame
  BY <1>1 DEF Upcoming, At, Origin, Places
<1> HIDE DEF Origins
<1> QED
  BY <1>1, <1>2, <1>3, <1>4 DEF Pending

\* Sending moves on by one chunk or to the first chunk of a later frame; what
\* was to be sent is in flight.
LEMMA SendPending ==
    ASSUME StateInv, StartFrame \/ SendNext
    PROVE  /\ Pending' = Pending \cup {Upcoming'}
           /\ \A n \in net' : n \in net \/ At(n.chunk.payload, n.chunk.index) = Upcoming
           /\ Upcoming' \in Places /\ Earlier(Upcoming, Upcoming')
           /\ Upcoming'.payload.session = session
           /\ Upcoming'.index = 0 \/ Upcoming' = At(Upcoming.payload, Upcoming.index + 1)
<1>1. /\ session \in Nat \ {0} /\ frame \in Nat /\ next \in 0..Last /\ Last \in Nat
      /\ Chunks = Last + 1
  BY NetworkAssumption DEF StateInv, TypeOK, MaxFrame, Last
<1>2. /\ session' = session
      /\ next' = (next + 1) % Chunks
      /\ frame' = IF next = 0 THEN frame + 1 ELSE frame
      /\ net' = net \cup {Packet(next)}
  BY <1>1 DEF StartFrame, SendNext
<1>3. next' = 0 \/ next' = next + 1
  BY <1>1, <1>2
<1>4. /\ Packet(next).chunk.payload = Origin(session, frame')
      /\ Packet(next).chunk.index = next
  BY DEF Packet
<1>5. At(Packet(next).chunk.payload, Packet(next).chunk.index) = Upcoming
  BY <1>2, <1>4 DEF Upcoming
<1>6. Pending' = Pending \cup {Upcoming'}
  <2> HIDE DEF Packet
  <2> QED
    BY <1>2, <1>5 DEF Pending
<1>7. \A n \in net' : n \in net \/ At(n.chunk.payload, n.chunk.index) = Upcoming
  BY <1>2, <1>5
<1>8. /\ Upcoming' = At(Origin(session, IF next' = 0 THEN frame' + 1 ELSE frame'), next')
      /\ Upcoming = At(Origin(session, frame'), next)
  BY <1>2 DEF Upcoming
<1>9. /\ Upcoming' \in Places /\ Earlier(Upcoming, Upcoming')
      /\ Upcoming'.payload.session = session
  BY <1>1, <1>2, <1>3, <1>8 DEF Places, At, Origin, Earlier
<1>10. Upcoming'.index = 0 \/ Upcoming' = At(Upcoming.payload, Upcoming.index + 1)
  <2>1. CASE next' = 0
    BY <1>8, <2>1 DEF At
  <2>2. CASE next' # 0
    BY <1>3, <1>8, <2>2 DEF At
  <2> QED
    BY <2>1, <2>2
<1> QED
  BY <1>6, <1>7, <1>9, <1>10

\* A restart skips to the next session.
LEMMA RestartPending ==
    ASSUME StateInv, RestartAgent
    PROVE  /\ net' = net /\ Pending' \subseteq Pending \cup {Upcoming'}
           /\ Upcoming' \in Places /\ Earlier(Upcoming, Upcoming')
           /\ Upcoming'.index = 0 /\ Upcoming'.payload.session = session + 1
<1>1. session \in Nat \ {0} /\ frame \in Nat /\ next \in Nat
  BY NetworkAssumption DEF StateInv, TypeOK, MaxFrame, Last
<1>2. session' = session + 1 /\ frame' = 0 /\ next' = 0 /\ net' = net
  BY DEF RestartAgent
<1>3. Upcoming' = At(Origin(session + 1, 1), 0)
  BY <1>2 DEF Upcoming
<1>4. /\ Upcoming' \in Places /\ Earlier(Upcoming, Upcoming')
      /\ Upcoming'.index = 0 /\ Upcoming'.payload.session = session + 1
  BY <1>1, <1>3 DEF Upcoming, At, Origin, Earlier, Places
<1>5. Pending' \subseteq Pending \cup {Upcoming'}
  BY <1>2 DEF Pending
<1> QED
  BY <1>2, <1>4, <1>5

\* A network that keeps order delivers what is earlier than all else pending.
LEMMA DeliverPending ==
    ASSUME StateInv, OrderInv, Reliable, NEW m \in net, Deliver(m)
    PROVE  LET x == At(m.chunk.payload, m.chunk.index) IN
           /\ x \in Pending /\ Upcoming' = Upcoming /\ net' \subseteq net
           /\ Pending' \subseteq Pending /\ Pending \subseteq Pending' \cup {x}
           /\ \A y \in Pending' : Earlier(x, y)
<1> DEFINE place(n) == At(n.chunk.payload, n.chunk.index)
<1>1. /\ net' = net \ {m} /\ UNCHANGED <<session, frame, next>>
      /\ \A n \in net \ {m} : SentBefore(m, n)
  BY DEF Deliver, agentVars
<1>2. Upcoming' = Upcoming
  BY <1>1 DEF Upcoming
<1>3. /\ Pending' = {place(n) : n \in net'} \cup {Upcoming}
      /\ Pending = {place(n) : n \in net} \cup {Upcoming}
  BY <1>2 DEF Pending
<1>4. \A n \in net \ {m} : Earlier(place(m), place(n))
  <2> TAKE n \in net \ {m}
  <2>1. /\ m.chunk.frame = m.chunk.payload.frame
        /\ n.chunk.frame = n.chunk.payload.frame
    BY DEF StateInv, OriginInv
  <2> QED
    BY <1>1, <2>1 DEF SentBefore, Earlier, At
<1>5. Earlier(place(m), Upcoming)
  BY DEF OrderInv
<1> QED
  BY <1>1, <1>2, <1>3, <1>4, <1>5

\* What the host holds after a delivery is the chunk delivered, or was held.
LEMMA HeldAfter ==
    ASSUME StateInv, NEW m \in net, Deliver(m)
    PROVE  /\ candidate' # None => \A i \in DOMAIN candidate'.chunks :
                 \/ i = m.chunk.index /\ candidate'.chunks[i] = m.chunk.payload
                 \/ /\ candidate # None /\ i \in DOMAIN candidate.chunks
                    /\ candidate'.chunks[i] = candidate.chunks[i]
           /\ image' = image \/ \A i \in DOMAIN image' :
                 \/ i = m.chunk.index /\ image'[i] = m.chunk.payload
                 \/ /\ candidate # None /\ i \in DOMAIN candidate.chunks
                    /\ image'[i] = candidate.chunks[i]
<1> DEFINE c == m.chunk
           a == Assembly(c)
           F == Stored(a, c)
<1>1. IsChunk(c) /\ Ingest(c)
  BY DEF Deliver, Receive
<1>2. \A i \in DOMAIN a.chunks :
         /\ candidate # None /\ i \in DOMAIN candidate.chunks
         /\ a.chunks[i] = candidate.chunks[i]
  <2>1. CASE a = NewAssembly(c)
    <3>1. a.chunks = <<>>
      BY <2>1 DEF NewAssembly
    <3>2. DOMAIN a.chunks = {}
      BY <3>1
    <3> QED
      BY <3>2
  <2>2. CASE a = candidate /\ candidate # None
    BY <2>2
  <2> QED
    BY <2>1, <2>2, AssemblyIs
<1>3. \A i \in DOMAIN F :
         \/ i = c.index /\ F[i] = c.payload
         \/ /\ candidate # None /\ i \in DOMAIN candidate.chunks
            /\ F[i] = candidate.chunks[i]
  <2>1. /\ DOMAIN F = DOMAIN a.chunks \cup {c.index} /\ F[c.index] = c.payload
        /\ \A i \in DOMAIN a.chunks : i # c.index => F[i] = a.chunks[i]
    BY SMTT(30) DEF Stored
  <2> HIDE DEF a, F
  <2> QED
    BY <1>2, <2>1
<1>4. CASE DropOld(c)
  BY <1>4 DEF DropOld, shown
<1>5. CASE Collect(c)
  <2>1. ~IsOld(c) /\ candidate' = Add(a, c) /\ image' = image
    BY <1>5 DEF Collect
  <2>2. candidate'.chunks = a.chunks \/ candidate'.chunks = F
    <3>1. IsAssembly(a)
      BY <1>1, <2>1, AssemblyFits DEF StateInv
    <3> HIDE DEF a, F
    <3>2. CASE Accepts(a, c)
      BY <2>1, <3>1, <3>2 DEF Add, IsAssembly, F
    <3>3. CASE ~Accepts(a, c)
      BY <2>1, <3>3 DEF Add
    <3> QED
      BY <3>2, <3>3
  <2> HIDE DEF a, F
  <2> QED
    BY <1>2, <1>3, <2>1, <2>2
<1>6. CASE Publish(c)
  <2>1. image' = F /\ candidate' = None
    BY <1>6 DEF Publish
  <2> HIDE DEF a, F
  <2> QED
    BY <1>3, <2>1
<1> QED
  BY <1>1, <1>4, <1>5, <1>6 DEF Ingest

\* What a step leaves pending, and that nothing past becomes pending again.
LEMMA PendingStep ==
    ASSUME StateInv, OrderInv, Reliable, [Next]_vars
    PROVE  /\ Reliable' = Reliable
           /\ Pending' \subseteq Pending \cup {Upcoming'} /\ Upcoming' \in Places
           /\ Upcoming' = Upcoming \/ Earlier(Upcoming, Upcoming')
           /\ \A x \in Places : Past(x) => \A y \in Pending' : Earlier(x, y)
<1>1. Reliable' = Reliable
  BY DEF Next, vars, Reliable
<1>2. Upcoming \in Pending /\ Pending \subseteq Places
  BY PendingPlaces
<1>3. /\ Pending' \subseteq Pending \cup {Upcoming'} /\ Upcoming' \in Places
      /\ Upcoming' = Upcoming \/ Earlier(Upcoming, Upcoming')
  <2>1. CASE StartFrame \/ SendNext
    BY <2>1, SendPending
  <2>2. CASE RestartAgent
    BY <2>2, RestartPending
  <2>3. ASSUME NEW m \in net, Deliver(m)
        PROVE  Pending' \subseteq Pending /\ Upcoming' = Upcoming
    BY <2>3, DeliverPending
  <2>4. ASSUME NEW m \in net, Lose(m) PROVE FALSE
    BY <2>4 DEF Lose
  <2>5. CASE TimePasses \/ UNCHANGED vars
    <3>1. UNCHANGED <<net, session, frame, next>>
      BY <2>5 DEF TimePasses, vars, agentVars
    <3>2. UNCHANGED Upcoming
      BY <3>1 DEF Upcoming
    <3>3. UNCHANGED Pending
      BY <3>1, <3>2 DEF Pending
    <3> QED
      BY <1>2, <3>2, <3>3
  <2> QED
    BY <1>2, <2>1, <2>2, <2>3, <2>4, <2>5 DEF Next
<1>4. ASSUME NEW x \in Places, Past(x), NEW y \in Pending' PROVE Earlier(x, y)
  <2>1. CASE y \in Pending
    BY <1>4, <2>1 DEF Past
  <2>2. CASE y = Upcoming'
    <3>1. Earlier(x, Upcoming)
      BY <1>2, <1>4 DEF Past
    <3> QED
      BY <1>2, <1>3, <2>2, <3>1, EarlierOrders
  <2> QED
    BY <1>3, <2>1, <2>2
<1> QED
  BY <1>1, <1>3, <1>4

\* A step that delivers nothing leaves pending what it must of each frame: a
\* place before a pending one is pending too, or was past, as it was before the
\* step of a chunk of that frame that was pending then.
LEMMA PartStep ==
    ASSUME StateInv, OrderInv, Reliable,
           \/ StartFrame \/ SendNext \/ RestartAgent
           \/ UNCHANGED <<net, session, frame, next>>,
           NEW x \in Pending', NEW i \in 0..(x.index - 1)
    PROVE  \/ At(x.payload, i) \in Pending'
           \/ /\ Past(At(x.payload, i))
              /\ \E z \in Pending : z.payload = x.payload /\ i \in 0..(z.index - 1)
<1> DEFINE p == At(x.payload, i)
<1>1. /\ Pending \subseteq Places /\ Upcoming \in Pending
      /\ \A y \in Pending : y.index \in 0..Last
      /\ Last \in Nat
  BY PendingPlaces, NetworkAssumption DEF Last
<1>2. CASE StartFrame \/ SendNext
  <2>1. /\ Pending' = Pending \cup {Upcoming'}
        /\ Upcoming'.index = 0 \/ Upcoming' = At(Upcoming.payload, Upcoming.index + 1)
    BY <1>2, SendPending
  <2>2. CASE x \in Pending
    BY <2>1, <2>2 DEF OrderInv
  <2>3. CASE x = Upcoming' /\ Upcoming'.index # 0
    <3>1. x = At(Upcoming.payload, Upcoming.index + 1) /\ Upcoming.index \in Nat
      BY <1>1, <2>1, <2>3
    <3>2. x.payload = Upcoming.payload /\ x.index = Upcoming.index + 1
      BY <3>1 DEF At
    <3>3. CASE i = Upcoming.index
      <4>1. At(Upcoming.payload, Upcoming.index) = Upcoming
        BY DEF At, Upcoming
      <4> QED
        BY <1>1, <2>1, <3>2, <3>3, <4>1
    <3>4. CASE i \in 0..(Upcoming.index - 1)
      BY <1>1, <2>1, <3>2, <3>4 DEF OrderInv
    <3> QED
      BY <3>1, <3>2, <3>3, <3>4
  <2> QED
    BY <2>1, <2>2, <2>3
<1>3. CASE RestartAgent
  <2>1. net' = net /\ Upcoming'.index = 0
    BY <1>3, RestartPending
  <2>2. Pending' = {At(m.chunk.payload, m.chunk.index) : m \in net} \cup {Upcoming'}
    BY <2>1 DEF Pending
  <2>3. PICK m \in net : x = At(m.chunk.payload, m.chunk.index)
    BY <2>1, <2>2
  <2>4. x \in Pending /\ Earlier(x, Upcoming)
    BY <2>3 DEF Pending, OrderInv
  <2>5. p # Upcoming
    BY <1>1, <2>4 DEF At, Places, Earlier
  <2>6. p \in Pending => p \in Pending'
    BY <2>2, <2>5 DEF Pending
  <2> QED
    BY <2>4, <2>6 DEF OrderInv
<1>4. CASE UNCHANGED <<net, session, frame, next>>
  <2>1. UNCHANGED Upcoming
    BY <1>4 DEF Upcoming
  <2>2. UNCHANGED Pending
    BY <1>4, <2>1 DEF Pending
  <2> QED
    BY <2>2 DEF OrderInv
<1> QED
  BY <1>2, <1>3, <1>4

\* On a reliable network nothing overtakes: every step keeps the order,
LEMMA OrderStep ==
    ASSUME StateInv, OrderInv, [Next]_vars
    PROVE  OrderInv'
<1> SUFFICES ASSUME Reliable
             PROVE  /\ \A m \in net' : Earlier(At(m.chunk.payload, m.chunk.index), Upcoming')
                    /\ \A x \in Pending' : \A i \in 0..(x.index - 1) :
                         \/ At(x.payload, i) \in Pending'
                         \/ \A y \in Pending' : Earlier(At(x.payload, i), y)
                    /\ candidate' # None => \A i \in DOMAIN candidate'.chunks :
                         \A y \in Pending' : Earlier(At(candidate'.chunks[i], i), y)
                    /\ image' # None => \A i \in DOMAIN image' :
                         \A y \in Pending' : Earlier(At(image'[i], i), y)
  <2>1. Reliable' = Reliable
    BY DEF Next, vars, Reliable
  <2> QED
    BY <2>1 DEF OrderInv, Past
<1>1. /\ Pending' \subseteq Pending \cup {Upcoming'} /\ Upcoming' \in Places
      /\ Upcoming' = Upcoming \/ Earlier(Upcoming, Upcoming')
      /\ \A x \in Places : Past(x) => \A y \in Pending' : Earlier(x, y)
  BY PendingStep
<1>2. /\ Pending \subseteq Places /\ Upcoming \in Pending
      /\ \A x \in Pending : x.index \in 0..Last
      /\ \A o \in Origins, i \in 0..Last : At(o, i) \in Places
      /\ Last \in Nat
  BY PendingPlaces, NetworkAssumption DEF Last
<1>3. \A x \in Pending : \A i \in 0..(x.index - 1) :
         At(x.payload, i) \in Places /\ At(x.payload, i) # x /\ ~Earlier(x, At(x.payload, i))
  BY <1>2 DEF At, Places, Earlier
\* What the host held stays past.
<1>4. /\ candidate # None => \A i \in DOMAIN candidate.chunks :
            \A y \in Pending' : Earlier(At(candidate.chunks[i], i), y)
      /\ image # None => \A i \in DOMAIN image :
            \A y \in Pending' : Earlier(At(image[i], i), y)
  <2>1. candidate # None => \A i \in DOMAIN candidate.chunks :
           At(candidate.chunks[i], i) \in Places /\ Past(At(candidate.chunks[i], i))
    BY <1>2 DEF OrderInv, StateInv, OriginInv, TypeOK
  <2>2. image # None => \A i \in DOMAIN image :
           At(image[i], i) \in Places /\ Past(At(image[i], i))
    BY <1>2 DEF OrderInv, StateInv, TypeOK, Images
  <2> QED
    BY <1>1, <2>1, <2>2
<1>5. CASE StartFrame \/ SendNext \/ RestartAgent
  <2>1. /\ \A n \in net' : n \in net \/ At(n.chunk.payload, n.chunk.index) = Upcoming
        /\ Earlier(Upcoming, Upcoming')
    BY <1>5, SendPending, RestartPending
  <2>2. UNCHANGED <<candidate, image>>
    BY <1>5 DEF StartFrame, SendNext, RestartAgent, hostVars, shown
  <2>3. ASSUME NEW m \in net' PROVE Earlier(At(m.chunk.payload, m.chunk.index), Upcoming')
    <3>1. CASE m \in net
      <4>1. /\ Earlier(At(m.chunk.payload, m.chunk.index), Upcoming)
            /\ At(m.chunk.payload, m.chunk.index) \in Pending
        BY <3>1 DEF OrderInv, Pending
      <4> QED
        BY <1>1, <1>2, <2>1, <4>1, EarlierOrders
    <3> QED
      BY <2>1, <3>1
  <2>4. ASSUME NEW x \in Pending', NEW i \in 0..(x.index - 1)
        PROVE  \/ At(x.payload, i) \in Pending'
               \/ At(x.payload, i) \in Places /\ Past(At(x.payload, i))
    <3>1. \A z \in Pending : \A k \in 0..(z.index - 1) : At(z.payload, k) \in Places
      BY <1>3
    <3> QED
      BY <1>5, <3>1, PartStep
  <2> QED
    BY <1>1, <1>4, <2>2, <2>3, <2>4
<1>6. ASSUME NEW m \in net, Deliver(m)
      PROVE  /\ \A n \in net' : Earlier(At(n.chunk.payload, n.chunk.index), Upcoming')
             /\ \A x \in Pending' : \A i \in 0..(x.index - 1) :
                  \/ At(x.payload, i) \in Pending'
                  \/ \A y \in Pending' : Earlier(At(x.payload, i), y)
             /\ candidate' # None => \A i \in DOMAIN candidate'.chunks :
                  \A y \in Pending' : Earlier(At(candidate'.chunks[i], i), y)
             /\ image' # None => \A i \in DOMAIN image' :
                  \A y \in Pending' : Earlier(At(image'[i], i), y)
  <2> DEFINE d == At(m.chunk.payload, m.chunk.index)
  <2>1. /\ Upcoming' = Upcoming /\ net' \subseteq net /\ Pending' \subseteq Pending
        /\ Pending \subseteq Pending' \cup {d}
        /\ \A y \in Pending' : Earlier(d, y)
    BY <1>6, DeliverPending
  <2>2. \A n \in net' : Earlier(At(n.chunk.payload, n.chunk.index), Upcoming')
    BY <2>1 DEF OrderInv
  <2>3. ASSUME NEW x \in Pending', NEW i \in 0..(x.index - 1)
        PROVE  \/ At(x.payload, i) \in Pending'
               \/ \A y \in Pending' : Earlier(At(x.payload, i), y)
    <3> HIDE DEF d
    <3> QED
      BY <1>1, <1>3, <2>1 DEF OrderInv
  <2>4. candidate' # None => \A i \in DOMAIN candidate'.chunks :
          \A y \in Pending' : Earlier(At(candidate'.chunks[i], i), y)
    BY <1>4, <1>6, <2>1, HeldAfter
  <2>5. image' # None => \A i \in DOMAIN image' :
          \A y \in Pending' : Earlier(At(image'[i], i), y)
    BY <1>4, <1>6, <2>1, HeldAfter
  <2> QED
    BY <2>2, <2>3, <2>4, <2>5
<1>7. ASSUME NEW m \in net, Lose(m) PROVE FALSE
  BY <1>7 DEF Lose
<1>8. CASE TimePasses \/ UNCHANGED vars
  <2>1. UNCHANGED <<candidate, image, net, Upcoming, Pending>>
    BY <1>8 DEF TimePasses, vars, hostVars, shown, agentVars, Pending, Upcoming
  <2> QED
    BY <1>1, <1>3, <1>4, <2>1 DEF OrderInv
<1> QED
  BY <1>5, <1>6, <1>7, <1>8 DEF Next

\* in every reachable state.
LEMMA OrderInvariance == Spec => [](StateInv /\ SoloInv /\ OrderInv)
<1>1. Init /\ StateInv => SoloInv /\ OrderInv
  <2> SUFFICES ASSUME Init, StateInv PROVE SoloInv /\ OrderInv
    OBVIOUS
  <2>1. /\ candidate = None /\ image = None /\ latestFrame = None
        /\ latestStamp = None /\ net = {} /\ next = 0 /\ clock = 0 /\ frame = 0
    BY DEF Init, HostIdle
  <2>2. Pending = {Upcoming} /\ Upcoming.index = 0
    BY <2>1 DEF Pending, Upcoming, At
  <2> QED
    BY <2>1, <2>2 DEF SoloInv, OrderInv
<1>2. StateInv /\ SoloInv /\ OrderInv /\ [Next]_vars => SoloInv' /\ OrderInv'
  BY SoloStep, OrderStep
<1> QED
  BY <1>1, <1>2, StateInvariance, PTL DEF Spec

\* Before a restart every image shown is of a later frame, whatever the network
\* does; on a network that keeps order every image of one frame always is.
THEOREM DisplayNeverBackwards == Spec => NeverBackwards
<1> DEFINE Later ==
             image # None /\ version' # version =>
                 /\ session = 1 => image[0].frame < image'[0].frame
                 /\ Reliable /\ ~Torn /\ ~Torn' =>
                       \/ image[0].session < image'[0].session
                       \/ /\ image[0].session = image'[0].session
                          /\ image[0].frame < image'[0].frame
<1>1. ASSUME StateInv, SoloInv, OrderInv, [Next]_vars PROVE Later
  <2> SUFFICES ASSUME image # None, version' # version PROVE Later
    OBVIOUS
  <2>1. PICK m \in net : Deliver(m) /\ Publish(m.chunk)
    BY <1>1, OnlyPublish
  <2> DEFINE a == Assembly(m.chunk)
             F == Stored(a, m.chunk)
  <2>2. /\ CompletedBy(a, m.chunk) /\ Accepts(a, m.chunk)
        /\ image' = F /\ latestFrame' = a.frame
    BY <2>1 DEF Publish, CompletedBy
  <2>3. /\ DOMAIN F = 0..Last /\ m.chunk.index \in 0..Last
        /\ F[m.chunk.index] = m.chunk.payload
        /\ \A i \in DOMAIN F : F[i] \in Origins /\ F[i].frame = a.frame
    <3>1. DOMAIN F = 0..Last
      BY <1>1, <2>2, PublishedWhole
    <3>2. \A i \in DOMAIN F : F[i] \in Origins /\ F[i].frame = a.frame
      BY <1>1, <2>2, OfferedStored
    <3>3. m.chunk.index \in 0..Last
      BY <1>1 DEF StateInv, OriginInv
    <3>4. F[m.chunk.index] = m.chunk.payload
      BY SMTT(30) DEF Stored
    <3> QED
      BY <3>1, <3>2, <3>3, <3>4
  <2>4. image \in Images /\ DOMAIN image = 0..Last /\ Last \in Nat
    BY <1>1, NetworkAssumption DEF StateInv, TypeOK, Images, Last
  <2>5. session = 1 => image[0].frame < image'[0].frame
    <3> SUFFICES ASSUME session = 1 PROVE image[0].frame < image'[0].frame
      OBVIOUS
    <3>1. latestFrame = image[0].frame
      BY <1>1 DEF SoloInv
    <3>2. latestFrame \in Int
      BY <2>4, <3>1 DEF Images, Origins, Ids
    <3>3. latestFrame # None
      BY <3>2, NoneAssumption
    <3>4. UNCHANGED network
      BY <1>1 DEF Next, vars
    <3>5. latestFrame < a.frame
      BY <1>1, <2>1, <3>3, <3>4, SoloDeliver
    <3> HIDE DEF a, F
    <3> QED
      BY <2>2, <2>3, <2>4, <3>1, <3>5
  <2>6. ASSUME Reliable, ~Torn, ~Torn'
        PROVE  \/ image[0].session < image'[0].session
               \/ /\ image[0].session = image'[0].session
                  /\ image[0].frame < image'[0].frame
    <3>1. Past(At(image[Last], Last))
      BY <1>1, <2>4, <2>6 DEF OrderInv
    <3>2. At(m.chunk.payload, m.chunk.index) \in Pending
      BY DEF Pending
    <3>3. Earlier(At(image[Last], Last), At(m.chunk.payload, m.chunk.index))
      BY <3>1, <3>2 DEF Past
    <3>4. image[0] = image[Last]
      BY <2>4, <2>6 DEF Torn
    <3>5. image' # None /\ image'[0] = m.chunk.payload
      <4>1. image' # None
        <5>1. IsChunk(m.chunk) /\ ~IsOld(m.chunk)
          BY <2>1 DEF Deliver, Receive, Publish
        <5> QED
          BY <1>1, <2>2, <5>1, OfferedFrames
      <4> HIDE DEF a, F
      <4> QED
        BY <2>2, <2>3, <2>4, <2>6, <4>1 DEF Torn
    <3> QED
      BY <2>3, <2>4, <3>3, <3>4, <3>5 DEF Earlier, At
  <2> QED
    BY <2>5, <2>6
<1>2. StateInv /\ SoloInv /\ OrderInv /\ [Next]_vars => [Later]_vars
  BY <1>1
<1> QED
  BY <1>2, OrderInvariance, PTL DEF Spec, NeverBackwards

\* The assembly holds a chunk of the agent's first session.
HoldsFirst ==
    candidate # None
    /\ \E i \in DOMAIN candidate.chunks : candidate.chunks[i].session = 1

\* With all its chunks it is of no JPEG image (it would have been shown).
FirstRejected ==
    HoldsFirst /\ Last \in DOMAIN candidate.chunks =>
        /\ DOMAIN candidate.chunks = 0..Last
        /\ candidate.chunks[Last] \in NotJpeg \ TooBig

\* Of a frame of that session that has arrived in part, and of one that has
\* its frame id, it holds that part.
PartHeld ==
    \A x \in Pending : \A i \in 0..(x.index - 1) :
        /\ Past(At(x.payload, i))
        /\ \/ x.payload.session = 1
           \/ HoldsFirst /\ x.payload.frame = candidate.frame
        => /\ candidate # None /\ candidate.frame = x.payload.frame
           /\ i \in DOMAIN candidate.chunks
           /\ candidate.chunks[i] = x.payload

\* What is pending of that session is ahead of the display and the assembly,
FirstAhead ==
    \A x \in Pending : x.payload.session = 1 =>
        /\ latestFrame # None => latestFrame < x.payload.frame
        /\ candidate # None => \/ candidate.frame < x.payload.frame
                               \/ candidate.frame = x.payload.frame /\ x.index > 0

\* and arrives before the assembly of its frame expires.
FirstTimely ==
    candidate # None =>
        /\ \A m \in net :
              m.chunk.payload.session = 1 /\ m.chunk.frame = candidate.frame
              => m.sent <= candidate.created
        /\ session = 1 /\ next > 0 /\ candidate.frame = frame
              => now <= candidate.created

FirstUntorn ==
    image # None /\ (\E i \in DOMAIN image : image[i].session = 1) => ~Torn

FirstInv ==
    Reliable =>
        FirstRejected /\ PartHeld /\ FirstAhead /\ FirstTimely /\ FirstUntorn

\* Sending, restarting and waiting.
LEMMA FirstKept ==
    ASSUME StateInv, OrderInv, FirstInv, Reliable, [Next]_vars,
           \/ StartFrame \/ SendNext \/ RestartAgent
           \/ TimePasses \/ UNCHANGED vars
    PROVE  FirstInv'
<1>1. UNCHANGED <<candidate, image, latestFrame>>
  BY DEF StartFrame, SendNext, RestartAgent, TimePasses, vars, hostVars, shown
<1>2. /\ \/ StartFrame \/ SendNext \/ RestartAgent
         \/ UNCHANGED <<net, session, frame, next>>
      /\ (TimePasses \/ UNCHANGED vars) => UNCHANGED <<net, session, frame, next>>
  BY DEF TimePasses, vars, agentVars
<1>3. /\ Pending \subseteq Places /\ Upcoming \in Pending
      /\ Upcoming.payload.session = session /\ Upcoming.index = next
      /\ Upcoming.payload.frame = IF next = 0 THEN frame + 1 ELSE frame
      /\ Pending' \subseteq Pending \cup {Upcoming'} /\ Upcoming' \in Places
  BY PendingPlaces, PendingStep
<1>4. /\ session \in Nat \ {0} /\ frame \in Nat /\ next \in Nat /\ now \in Nat
      /\ latestFrame # None => latestFrame \in Nat
      /\ candidate # None => candidate.frame \in Nat /\ candidate.created \in Nat
  BY SMTT(60), NetworkAssumption DEF StateInv, TypeOK, MaxFrame, Last, PipelineInv, Ids
<1>5. FirstRejected' /\ FirstUntorn'
  BY <1>1 DEF FirstInv, FirstRejected, HoldsFirst, FirstUntorn, Torn
<1>6. PartHeld'
  <2>1. ASSUME NEW x \in Pending', NEW i \in 0..(x.index - 1),
               \A y \in Pending' : Earlier(At(x.payload, i), y)
        PROVE  /\ Past(At(x.payload, i))
               /\ \E z \in Pending : z.payload = x.payload /\ i \in 0..(z.index - 1)
    <3>1. At(x.payload, i) \notin Pending'
      BY <1>3, <2>1, EarlierOrders
    <3> QED
      BY <1>2, <3>1, PartStep
  <2> QED
    BY <1>1, <2>1 DEF FirstInv, PartHeld, HoldsFirst, Past
<1>7. FirstAhead'
  <2> SUFFICES ASSUME NEW x \in Pending', x.payload.session = 1
               PROVE  /\ latestFrame # None => latestFrame < x.payload.frame
                      /\ candidate # None =>
                            \/ candidate.frame < x.payload.frame
                            \/ candidate.frame = x.payload.frame /\ x.index > 0
    BY <1>1 DEF FirstAhead
  <2>1. CASE x \in Pending
    BY <2>1 DEF FirstInv, FirstAhead
  <2>2. CASE x = Upcoming' /\ (StartFrame \/ SendNext)
    <3>1. /\ Earlier(Upcoming, x) /\ x.payload.session = session
          /\ x.index = 0 \/ x = At(Upcoming.payload, Upcoming.index + 1)
      BY <2>2, SendPending
    <3>2. /\ latestFrame # None => latestFrame < Upcoming.payload.frame
          /\ candidate # None =>
                \/ candidate.frame < Upcoming.payload.frame
                \/ /\ candidate.frame = Upcoming.payload.frame
                   /\ Upcoming.index > 0
      BY <1>3, <3>1 DEF FirstInv, FirstAhead
    <3>3. x \in Places /\ Upcoming \in Places
      BY <1>3, <2>2
    <3>4. CASE x.index = 0
      <4>1. Upcoming.payload.frame < x.payload.frame
        BY <1>3, <3>1, <3>3, <3>4 DEF Earlier, Places
      <4> QED
        BY <1>4, <3>2, <3>3, <4>1 DEF Places
    <3>5. CASE x = At(Upcoming.payload, Upcoming.index + 1)
      <4>1. x.payload = Upcoming.payload /\ x.index = Upcoming.index + 1
        BY <3>5 DEF At
      <4> QED
        BY <1>3, <1>4, <3>2, <4>1
    <3> QED
      BY <3>1, <3>4, <3>5
  <2>3. CASE x = Upcoming' /\ RestartAgent
    BY <1>4, <2>3, RestartPending
  <2>4. CASE x = Upcoming' /\ UNCHANGED <<net, session, frame, next>>
    BY <1>3, <2>1, <2>4 DEF Upcoming
  <2> QED
    BY <1>2, <1>3, <2>1, <2>2, <2>3, <2>4
<1>8. FirstTimely'
  <2> SUFFICES ASSUME candidate # None
               PROVE  /\ \A m \in net' :
                            m.chunk.payload.session = 1 /\ m.chunk.frame = candidate.frame
                            => m.sent <= candidate.created
                      /\ session' = 1 /\ next' > 0 /\ candidate.frame = frame'
                            => now' <= candidate.created
    BY <1>1 DEF FirstTimely
  <2>1. CASE StartFrame \/ SendNext
    <3>1. /\ session' = session /\ now' = now
          /\ net' = net \cup {Packet(next)}
          /\ \/ next = 0 /\ frame' = frame + 1
             \/ next > 0 /\ frame' = frame
      BY <2>1 DEF StartFrame, SendNext, hostVars
    <3>2. /\ Packet(next).chunk.payload = Origin(session, frame')
          /\ Packet(next).chunk.frame = frame' /\ Packet(next).sent = now
      BY DEF Packet
    <3>3. session = 1 /\ candidate.frame = frame' => now <= candidate.created
      <4>1. session = 1 =>
               \/ candidate.frame < Upcoming.payload.frame
               \/ /\ candidate.frame = Upcoming.payload.frame
                  /\ Upcoming.index > 0
        BY <1>3 DEF FirstInv, FirstAhead
      <4>2. CASE next = 0
        BY <1>3, <1>4, <3>1, <4>1, <4>2
      <4>3. CASE next > 0
        BY <1>4, <3>1, <4>3 DEF FirstInv, FirstTimely
      <4> QED
        BY <1>4, <4>2, <4>3
    <3> HIDE DEF Packet
    <3> QED
      BY <3>1, <3>2, <3>3 DEF FirstInv, FirstTimely, Origin
  <2>2. CASE RestartAgent
    BY <1>4, <2>2 DEF RestartAgent, FirstInv, FirstTimely
  <2>3. CASE TimePasses
    <3>1. next = 0 /\ next' = next /\ net' = net
      BY <1>2, <2>3 DEF TimePasses
    <3> QED
      BY <3>1 DEF FirstInv, FirstTimely
  <2>4. CASE UNCHANGED vars
    BY <2>4 DEF vars, hostVars, agentVars, FirstInv, FirstTimely
  <2> QED
    BY <2>1, <2>2, <2>3, <2>4
<1> QED
  BY <1>5, <1>6, <1>7, <1>8 DEF FirstInv

\* A chunk delivered comes after those of its frame before it.
LEMMA DeliveredPart ==
    ASSUME StateInv, OrderInv, Reliable, NEW m \in net, Deliver(m),
           NEW i \in 0..(m.chunk.index - 1)
    PROVE  Past(At(m.chunk.payload, i))
<1> DEFINE d == At(m.chunk.payload, m.chunk.index)
           p == At(m.chunk.payload, i)
<1>1. /\ d \in Pending /\ Pending \subseteq Places
      /\ Pending \subseteq Pending' \cup {d} /\ \A y \in Pending' : Earlier(d, y)
  BY DeliverPending, PendingPlaces
<1>2. d.payload = m.chunk.payload /\ d.index = m.chunk.index
  BY DEF At
<1>3. p \in Pending \/ Past(p)
  <2> HIDE DEF d
  <2> QED
    BY <1>1, <1>2 DEF OrderInv
<1>4. ASSUME p \in Pending PROVE FALSE
  <2>1. d \in Places /\ p.payload = d.payload /\ p.index < d.index /\ p # d
    BY <1>1, <1>2 DEF At, Places
  <2>2. Earlier(p, d) /\ p \in Places
    BY <1>1, <1>4, <2>1 DEF Earlier
  <2> HIDE DEF d, p
  <2> QED
    BY <1>1, <1>4, <2>1, <2>2, EarlierOrders
<1> QED
  BY <1>3, <1>4

\* A chunk of the first session finds an assembly with exactly the chunks of
\* its frame before it, or none of that frame when it is the first.
LEMMA FirstOffer ==
    ASSUME StateInv, OrderInv, FirstInv, Reliable, NEW m \in net, Deliver(m),
           m.chunk.payload.session = 1
    PROVE  LET c == m.chunk
               a == Assembly(c)
           IN  /\ ~IsOld(c) /\ ~IsRestart(c)
               /\ a.frame = c.frame /\ a.count = c.count
               /\ DOMAIN a.chunks = 0..(c.index - 1)
               /\ \A i \in DOMAIN a.chunks : a.chunks[i] = c.payload
<1> DEFINE c == m.chunk
           a == Assembly(c)
           d == At(c.payload, c.index)
<1>1. /\ c.payload \in Origins /\ c.frame = c.payload.frame /\ c.frame \in Nat \ {0}
      /\ c.index \in 0..Last /\ c.count = Chunks /\ now - m.sent <= MaxDelay
      /\ m.sent \in 0..now /\ now \in Nat /\ Last \in Nat
      /\ MaxDelay \in Nat /\ MaxDelay < AssemblyTimeout
  BY SMTT(60), NetworkAssumption DEF StateInv, OriginInv, Origins, Ids, PipelineInv, Last,
                           TypeOK, MaxDelay, Reliable
<1>2. d \in Pending /\ d.payload = c.payload /\ d.index = c.index
  BY DEF Pending, At
<1>3. /\ latestFrame # None => latestFrame < c.frame /\ latestFrame \in Nat
      /\ candidate # None => /\ candidate.frame \in Nat
                             /\ \/ candidate.frame < c.frame
                                \/ candidate.frame = c.frame /\ c.index > 0
  <2> HIDE DEF d
  <2>1. latestFrame # None => latestFrame < d.payload.frame
    BY <1>2 DEF FirstInv, FirstAhead
  <2>2. candidate # None => \/ candidate.frame < d.payload.frame
                            \/ candidate.frame = d.payload.frame /\ d.index > 0
    BY <1>2 DEF FirstInv, FirstAhead
  <2> QED
    BY SMTT(60), <1>1, <1>2, <2>1, <2>2 DEF StateInv, TypeOK, Ids
<1>4. ~IsRestart(c)
  <2>1. ~RestartsClock(c)
    BY <1>1, <1>3 DEF RestartsClock
  <2>2. ~RestartsStale(c)
    BY <1>1, <1>3 DEF RestartsStale
  <2> QED
    BY <2>1, <2>2 DEF IsRestart
<1>5. ~IsOld(c)
  BY <1>1, <1>3 DEF IsOld
<1>6. \A i \in 0..(c.index - 1) :
        /\ candidate # None /\ candidate.frame = c.frame
        /\ i \in DOMAIN candidate.chunks /\ candidate.chunks[i] = c.payload
  <2> TAKE i \in 0..(c.index - 1)
  <2>1. Past(At(d.payload, i))
    BY <1>2, DeliveredPart
  <2>2. \A x \in Pending : \A k \in 0..(x.index - 1) :
          /\ Past(At(x.payload, k))
          /\ x.payload.session = 1
          => /\ candidate # None /\ candidate.frame = x.payload.frame
             /\ k \in DOMAIN candidate.chunks
             /\ candidate.chunks[k] = x.payload
    BY DEF FirstInv, PartHeld
  <2> HIDE DEF d
  <2> QED
    BY <1>1, <1>2, <2>1, <2>2
<1>7. ASSUME candidate # None, candidate.frame = c.frame
      PROVE  /\ DOMAIN candidate.chunks = 0..(c.index - 1)
             /\ a = candidate
  <2>1. ASSUME NEW i \in DOMAIN candidate.chunks PROVE i \in 0..(c.index - 1)
    <3>1. Earlier(At(candidate.chunks[i], i), d)
      BY <1>2, <1>7 DEF OrderInv, Past
    <3>2. /\ candidate.chunks[i] \in Origins /\ candidate.chunks[i].frame = c.frame
          /\ i \in 0..Last
      BY <1>7 DEF StateInv, OriginInv, TypeOK
    <3>3. c.payload.session = 1
      OBVIOUS
    <3> HIDE DEF c
    <3> QED
      BY <1>1, <3>1, <3>2, <3>3 DEF Earlier, At, Origins
  <2>2. ~Expired(candidate)
    <3>1. m.sent <= candidate.created /\ candidate.created \in Nat
      BY <1>1, <1>7 DEF FirstInv, FirstTimely, StateInv, TypeOK
    <3> QED
      BY <1>1, <3>1, TimeoutAssumption DEF Expired
  <2>3. a = candidate
    BY <1>1, <1>4, <1>7, <2>2 DEF Assembly, Current
  <2> QED
    BY <1>6, <2>1, <2>3
<1>8. ASSUME candidate = None \/ candidate.frame # c.frame
      PROVE  a = NewAssembly(c) /\ c.index = 0
  <2>1. c.index = 0
    <3> SUFFICES ASSUME c.index # 0 PROVE FALSE
      OBVIOUS
    <3> HIDE DEF c
    <3>1. 0 \in 0..(c.index - 1)
      BY <1>1
    <3> QED
      BY <1>6, <1>8, <3>1
  <2>2. a = NewAssembly(c)
    BY <1>3, <1>4, <1>8 DEF Assembly, Current
  <2> QED
    BY <2>1, <2>2
<1>9. CASE candidate # None /\ candidate.frame = c.frame
  <2>1. a = candidate /\ DOMAIN candidate.chunks = 0..(c.index - 1)
    BY <1>7, <1>9
  <2>2. candidate.count = Chunks
    BY <1>9 DEF StateInv, TypeOK
  <2> HIDE DEF a
  <2> QED
    BY <1>1, <1>4, <1>5, <1>6, <1>9, <2>1, <2>2 DEF a
<1>10. CASE candidate = None \/ candidate.frame # c.frame
  <2>1. /\ a.frame = c.frame /\ a.count = c.count /\ a.chunks = <<>> /\ c.index = 0
    BY <1>8, <1>10 DEF NewAssembly
  <2>2. DOMAIN a.chunks = {}
    BY <2>1
  <2> HIDE DEF a
  <2> QED
    BY <1>1, <1>4, <1>5, <2>1, <2>2 DEF a
<1> QED
  BY <1>9, <1>10

\* An assembly with a chunk of the first session has of a frame with its id what
\* was delivered before.
LEMMA LaterPart ==
    ASSUME StateInv, OrderInv, FirstInv, Reliable, NEW m \in net, Deliver(m),
           HoldsFirst, candidate.frame = m.chunk.frame
    PROVE  \A i \in 0..(m.chunk.index - 1) :
              /\ i \in DOMAIN candidate.chunks
              /\ candidate.chunks[i] = m.chunk.payload
<1> TAKE i \in 0..(m.chunk.index - 1)
<1> DEFINE d == At(m.chunk.payload, m.chunk.index)
<1>1. d \in Pending /\ d.payload = m.chunk.payload /\ d.index = m.chunk.index
  BY DEF Pending, At
<1>2. Past(At(d.payload, i))
  BY <1>1, DeliveredPart
<1>3. d.payload.frame = candidate.frame
  BY <1>1 DEF StateInv, OriginInv
<1> HIDE DEF d
<1> QED
  BY <1>1, <1>2, <1>3 DEF FirstInv, PartHeld

\* After a chunk of a later session, an assembly that still holds one of the
\* first is the one that was there.  It takes the chunk if it has its frame id
\* and is not the last; the frame is then not complete, or of no JPEG image.
LEMMA LaterOffer ==
    ASSUME StateInv, OrderInv, FirstInv, Reliable, NEW m \in net, Deliver(m),
           m.chunk.payload.session # 1, HoldsFirst'
    PROVE  LET c == m.chunk
               F == Stored(candidate, c)
           IN  /\ HoldsFirst
               /\ candidate'.frame = candidate.frame
               /\ candidate'.created = candidate.created
               /\ \/ candidate' = candidate
                  \/ candidate'.chunks = F /\ c.index # Last
               /\ candidate.frame = c.frame =>
                     /\ \A i \in 0..(c.index - 1) :
                          /\ i \in DOMAIN candidate.chunks
                          /\ candidate.chunks[i] = c.payload
                     /\ c.index # Last => candidate'.chunks = F
<1> DEFINE c == m.chunk
           a == Assembly(c)
           F == Stored(candidate, c)
<1>1. /\ IsChunk(c) /\ Ingest(c) /\ c.payload \in Origins
      /\ c.frame = c.payload.frame /\ c.frame \in Nat
      /\ c.index \in 0..Last /\ Last \in Nat /\ c.count = Chunks
  BY NetworkAssumption DEF Deliver, Receive, StateInv, OriginInv, Origins, Ids, Last
<1>2. HoldsFirst /\ candidate' # None /\ ~Publish(c)
  <2>1. candidate' # None
    BY DEF HoldsFirst
  <2>2. ~Publish(c)
    BY <2>1 DEF Publish
  <2>3. PICK i \in DOMAIN candidate'.chunks : candidate'.chunks[i].session = 1
    BY DEF HoldsFirst
  <2>4. /\ candidate # None /\ i \in DOMAIN candidate.chunks
        /\ candidate'.chunks[i] = candidate.chunks[i]
    BY <2>1, <2>3, HeldAfter
  <2> QED
    BY <2>1, <2>2, <2>3, <2>4 DEF HoldsFirst
<1>3. ASSUME candidate.frame = c.frame
      PROVE  \A i \in 0..(c.index - 1) :
                i \in DOMAIN candidate.chunks /\ candidate.chunks[i] = c.payload
  BY <1>2, <1>3, LaterPart
<1>4. CASE DropOld(c)
  <2>1. candidate' = candidate
    BY <1>4 DEF DropOld
  <2>2. candidate.frame # c.frame
    BY <1>1, <1>2, <1>4 DEF DropOld, IsOld, HoldsFirst, StateInv, HostInv,
                            AssemblyAhead, IsAssembly
  <2> QED
    BY <1>2, <2>1, <2>2
<1>5. CASE Collect(c)
  <2>1. ~IsOld(c) /\ candidate' = Add(a, c)
    BY <1>5 DEF Collect
  <2>2. /\ Accepts(a, c) =>
              /\ candidate'.chunks = Stored(a, c)
              /\ candidate'.frame = a.frame /\ candidate'.created = a.created
        /\ ~Accepts(a, c) => candidate' = a
        /\ Stored(a, c) \in PartialFrames /\ DOMAIN Stored(a, c) \subseteq 0..Last
    BY <1>1, <2>1, OfferedFrames DEF Add
  <2>3. a = candidate
    <3> SUFFICES ASSUME a = NewAssembly(c) PROVE FALSE
      BY AssemblyIs
    <3>1. a.chunks = <<>>
      BY DEF NewAssembly
    <3>2. /\ DOMAIN a.chunks = {} /\ DOMAIN Stored(a, c) = {c.index}
          /\ Stored(a, c)[c.index] = c.payload
      <4>1. DOMAIN a.chunks = {}
        BY <3>1
      <4>2. /\ DOMAIN Stored(a, c) = DOMAIN a.chunks \cup {c.index}
            /\ Stored(a, c)[c.index] = c.payload
        BY SMTT(20) DEF Stored
      <4> HIDE DEF a
      <4> QED
        BY <4>1, <4>2
    <3>3. PICK i \in DOMAIN candidate'.chunks : candidate'.chunks[i].session = 1
      BY DEF HoldsFirst
    <3> HIDE DEF a
    <3> QED
      BY <2>2, <3>2, <3>3
  <2>4. /\ DOMAIN F = DOMAIN candidate.chunks \cup {c.index} /\ F[c.index] = c.payload
        /\ \A i \in DOMAIN candidate.chunks : i # c.index => F[i] = candidate.chunks[i]
    BY SMTT(20) DEF Stored
  <2>5. CASE Accepts(candidate, c)
    <3>1. candidate.frame = c.frame
      BY <2>5 DEF Accepts
    <3>2. candidate'.chunks = F /\ DOMAIN F \subseteq 0..Last
      BY <2>2, <2>3, <2>5
    <3>3. PICK i \in DOMAIN F : F[i].session = 1
      BY <3>2 DEF HoldsFirst
    <3> HIDE DEF F
    <3>4. c.index # Last
      BY <1>1, <1>3, <2>4, <3>1, <3>2, <3>3
    <3> QED
      BY <1>2, <1>3, <2>2, <2>3, <2>5, <3>2, <3>4 DEF F
  <2>6. CASE ~Accepts(candidate, c)
    <3>1. candidate' = candidate
      BY <2>2, <2>3, <2>6
    <3>2. ASSUME candidate.frame = c.frame, c.index # Last PROVE FALSE
      <4>1. candidate.count = c.count
        BY <1>1, <1>2 DEF HoldsFirst, StateInv, TypeOK
      <4>2. F \in PartialFrames
        BY <2>2, <2>3
      <4>3. CASE Last \in DOMAIN candidate.chunks
        <5>1. /\ DOMAIN candidate.chunks = 0..Last
              /\ candidate.chunks[Last] \notin TooBig
          BY <1>2, <4>3 DEF FirstInv, FirstRejected
        <5>2. DOMAIN F = 0..Last /\ F[Last] \notin TooBig
          BY <1>1, <2>4, <3>2, <4>3, <5>1
        <5>3. F \in WholeFrames
          <6> HIDE DEF F
          <6> QED
            BY <4>2, <5>2 DEF PartialFrames, WholeFrames
        <5>4. Fits(F)
          BY <5>2, <5>3, FrameAssumption
        <5> QED
          BY <2>6, <3>2, <4>1, <5>4 DEF Accepts
      <4>4. CASE Last \notin DOMAIN candidate.chunks
        <5>1. Last \notin DOMAIN F
          BY <2>4, <3>2, <4>4
        <5>2. Fits(F)
          BY <4>2, <5>1, FrameAssumption
        <5> QED
          BY <2>6, <3>2, <4>1, <5>2 DEF Accepts
      <4> QED
        BY <4>3, <4>4
    <3> QED
      BY <1>2, <1>3, <3>1, <3>2
  <2> QED
    BY <2>5, <2>6
<1> QED
  BY <1>1, <1>2, <1>4, <1>5 DEF Ingest

\* After a delivery, only of the frame delivered can a part have arrived.
LEMMA PartAfter ==
    ASSUME StateInv, OrderInv, Reliable, NEW m \in net, Deliver(m),
           NEW x \in Pending', NEW i \in 0..(x.index - 1),
           \A y \in Pending' : Earlier(At(x.payload, i), y)
    PROVE  /\ x.payload = m.chunk.payload
           /\ i \in 0..m.chunk.index /\ m.chunk.index < x.index
           /\ x.index \in 0..Last
<1> DEFINE d == At(m.chunk.payload, m.chunk.index)
           p == At(x.payload, i)
<1>1. /\ d \in Pending /\ Pending \subseteq Places /\ Pending' \subseteq Pending
      /\ Pending \subseteq Pending' \cup {d} /\ Earlier(d, x)
      /\ \A y \in Pending : y.index \in 0..Last
  BY DeliverPending, PendingPlaces
<1>2. /\ d.payload = m.chunk.payload /\ d.index = m.chunk.index
      /\ p.payload = x.payload /\ p.index = i
  BY DEF At
<1>3. p \notin Pending' /\ x \in Places /\ d \in Places /\ p \in Places
  <2>1. x \in Places /\ d \in Places
    BY <1>1
  <2>2. p \in Places
    BY <1>1 DEF At, Places
  <2> HIDE DEF p
  <2> QED
    BY <2>1, <2>2, EarlierOrders DEF p
<1>4. p = d \/ Earlier(p, d)
  <2>1. p \in Pending \/ Past(p)
    BY <1>1 DEF OrderInv
  <2> HIDE DEF p, d
  <2> QED
    BY <1>1, <1>3, <2>1 DEF Past
<1> HIDE DEF p, d
<1>5. CASE p = d
  BY <1>1, <1>2, <1>3, <1>5 DEF Places, Earlier
<1>6. CASE Earlier(p, d)
  <2>1. /\ p.payload.session = d.payload.session
        /\ p.payload.frame = d.payload.frame /\ p.index < d.index
        /\ d.index < x.index
    BY <1>1, <1>2, <1>3, <1>6 DEF Earlier, Places
  <2>2. p.payload = d.payload
    BY <1>3, <2>1 DEF Places
  <2> QED
    BY <1>1, <1>2, <1>3, <2>1, <2>2 DEF Places
<1> QED
  BY <1>4, <1>5, <1>6

\* A chunk of the first session arrives.
LEMMA FirstArrives ==
    ASSUME StateInv, OrderInv, FirstInv, Reliable, NEW m \in net, Deliver(m),
           m.chunk.payload.session = 1
    PROVE  FirstRejected' /\ PartHeld' /\ FirstAhead' /\ FirstTimely' /\ FirstUntorn'
<1> DEFINE c == m.chunk
           a == Assembly(c)
           F == Stored(a, c)
<1>1. /\ IsChunk(c) /\ Ingest(c) /\ now' = now /\ net' \subseteq net
      /\ UNCHANGED <<session, frame, next>>
  BY DEF Deliver, Receive, Ingest, agentVars
<1>2. /\ c.index \in 0..Last /\ Last \in Nat /\ Chunks = Last + 1
      /\ c.payload \in Origins /\ c.frame = c.payload.frame /\ c.count = Chunks
      /\ c.frame \in Nat /\ now \in Nat
      /\ \A n \in net : n.sent <= now
  BY NetworkAssumption DEF StateInv, OriginInv, Last, Origins, Ids, PipelineInv
<1>3. /\ ~IsOld(c) /\ ~IsRestart(c) /\ a.frame = c.frame /\ a.count = c.count
      /\ DOMAIN a.chunks = 0..(c.index - 1)
      /\ \A i \in DOMAIN a.chunks : a.chunks[i] = c.payload
  BY FirstOffer
<1>4. DOMAIN F = 0..c.index /\ \A i \in 0..c.index : F[i] = c.payload
  <2>1. /\ DOMAIN F = DOMAIN a.chunks \cup {c.index} /\ F[c.index] = c.payload
        /\ \A i \in DOMAIN a.chunks : i # c.index => F[i] = a.chunks[i]
    BY SMTT(20) DEF Stored
  <2> HIDE DEF a, F
  <2> QED
    BY <1>2, <1>3, <2>1
<1>5. F \in PartialFrames /\ F # None /\ a # None
      /\ (Accepts(a, c) => /\ Add(a, c) # None /\ Add(a, c).chunks = F
                           /\ Add(a, c).frame = a.frame
                           /\ Add(a, c).created = a.created)
  BY <1>1, <1>3, OfferedFrames
<1>6. c.index # Last => Accepts(a, c) /\ ~CompletedBy(a, c)
  <2> SUFFICES ASSUME c.index # Last PROVE Accepts(a, c) /\ ~CompletedBy(a, c)
    OBVIOUS
  <2>1. Last \notin DOMAIN F
    BY <1>2, <1>4
  <2>2. Fits(F)
    BY <1>5, <2>1, FrameAssumption
  <2>3. ~CompletedBy(a, c)
    <3>1. Last \in 0..Last
      BY <1>2
    <3> QED
      BY <2>1, <3>1, PublishedWhole
  <2> QED
    BY <1>3, <2>2, <2>3 DEF Accepts
\* What stays in flight of that session comes later.
<1>7. \A x \in Pending' :
        /\ x \in Pending /\ x.index \in 0..Last /\ x \in Places
        /\ x.payload.session = 1 =>
              \/ c.frame < x.payload.frame
              \/ c.frame = x.payload.frame /\ c.index < x.index
  <2> TAKE x \in Pending'
  <2>1. /\ Earlier(At(c.payload, c.index), x)
        /\ x \in Pending /\ x \in Places /\ x.index \in 0..Last
    BY DeliverPending, PendingPlaces
  <2>2. c.payload.session = 1
    OBVIOUS
  <2> HIDE DEF c
  <2> QED
    BY <1>2, <2>1, <2>2 DEF Earlier, At
<1>8. CASE Collect(c)
  <2>1. /\ candidate' = Add(a, c) /\ image' = image /\ latestFrame' = latestFrame
        /\ CompletedBy(a, c) => ~Jpeg(F)
    BY <1>3, <1>8 DEF Collect
  <2>2. /\ candidate'.frame = c.frame /\ candidate'.created = a.created
        /\ candidate' # None
        /\ Accepts(a, c) => candidate'.chunks = F
        /\ ~Accepts(a, c) => candidate'.chunks = a.chunks
    <3> HIDE DEF a, F
    <3> QED
      BY <1>3, <1>5, <2>1 DEF Add
  <2>3. FirstRejected'
    <3> SUFFICES ASSUME Last \in DOMAIN candidate'.chunks
                 PROVE  /\ DOMAIN candidate'.chunks = 0..Last
                        /\ candidate'.chunks[Last] \in NotJpeg \ TooBig
      BY DEF FirstRejected
    <3>1. c.index = Last /\ Accepts(a, c)
      <4> HIDE DEF a, F
      <4> QED
        BY <1>2, <1>3, <1>4, <2>2
    <3>2. F \in WholeFrames
      <4> HIDE DEF F
      <4> QED
        BY <1>4, <1>5, <3>1 DEF PartialFrames, WholeFrames
    <3>3. CompletedBy(a, c)
      <4>1. Cardinality(0..Last) = Chunks
        BY <1>2, FS_Interval
      <4> HIDE DEF a, F
      <4> QED
        BY <1>2, <1>3, <1>4, <3>1, <4>1 DEF CompletedBy, F
    <3>4. F[Last] \notin TooBig
      BY <3>1, <3>2, FrameAssumption DEF Accepts
    <3>5. F[Last] \in NotJpeg
      <4>1. ~Jpeg(F)
        BY <2>1, <3>3
      <4>2. PICK i \in 0..Last : F[i] \in NotJpeg
        BY <3>2, <4>1, FrameAssumption
      <4> HIDE DEF F
      <4> QED
        BY <1>2, <1>4, <3>1, <4>2
    <3> QED
      BY <1>4, <2>2, <3>1, <3>4, <3>5
  <2>4. PartHeld'
    <3> SUFFICES ASSUME NEW x \in Pending', NEW i \in 0..(x.index - 1),
                        \A y \in Pending' : Earlier(At(x.payload, i), y)
                 PROVE  /\ candidate' # None /\ candidate'.frame = x.payload.frame
                        /\ i \in DOMAIN candidate'.chunks
                        /\ candidate'.chunks[i] = x.payload
      BY DEF PartHeld, Past
    <3>1. /\ x.payload = c.payload /\ i \in 0..c.index /\ c.index < x.index
          /\ x.index \in 0..Last
      BY PartAfter
    <3>2. c.index # Last
      BY <1>2, <3>1
    <3>3. candidate'.chunks = F
      BY <1>6, <2>2, <3>2
    <3> HIDE DEF F
    <3> QED
      BY <1>2, <1>4, <2>2, <3>1, <3>3
  <2>5. FirstAhead'
    <3> SUFFICES ASSUME NEW x \in Pending', x.payload.session = 1
                 PROVE  /\ latestFrame # None => latestFrame < x.payload.frame
                        /\ \/ c.frame < x.payload.frame
                           \/ c.frame = x.payload.frame /\ x.index > 0
      BY <2>1, <2>2 DEF FirstAhead
    <3> HIDE DEF c
    <3> QED
      BY <1>2, <1>7 DEF FirstInv, FirstAhead
  <2>6. FirstTimely'
    <3>1. CASE a = NewAssembly(c)
      <4>1. candidate'.created = now
        BY <2>2, <3>1 DEF NewAssembly
      <4> QED
        BY <1>1, <1>2, <4>1 DEF FirstTimely
    <3>2. CASE a = candidate /\ candidate # None
      <4>1. candidate.frame = candidate'.frame /\ candidate'.created = candidate.created
        BY <1>3, <2>2, <3>2
      <4> HIDE DEF a
      <4> QED
        BY <1>1, <3>2, <4>1 DEF FirstInv, FirstTimely
    <3> QED
      BY <3>1, <3>2, AssemblyIs
  <2>7. FirstUntorn'
    BY <2>1 DEF FirstInv, FirstUntorn, Torn
  <2> QED
    BY <2>3, <2>4, <2>5, <2>6, <2>7
<1>9. CASE Publish(c)
  <2>1. /\ candidate' = None /\ image' = F /\ latestFrame' = c.frame
        /\ CompletedBy(a, c)
    BY <1>3, <1>9 DEF Publish
  <2>2. c.index = Last
    BY <1>6, <2>1
  <2>3. FirstRejected' /\ FirstTimely'
    BY <2>1 DEF FirstRejected, HoldsFirst, FirstTimely
  <2>4. PartHeld'
    <3> SUFFICES ASSUME NEW x \in Pending', NEW i \in 0..(x.index - 1),
                        \A y \in Pending' : Earlier(At(x.payload, i), y)
                 PROVE  FALSE
      BY DEF PartHeld, Past
    <3> QED
      BY <1>2, <2>2, PartAfter
  <2>5. FirstAhead'
    BY <1>2, <1>7, <2>1, <2>2 DEF FirstAhead
  <2>6. FirstUntorn'
    <3> HIDE DEF F
    <3> QED
      BY <1>4, <2>1 DEF FirstUntorn, Torn
  <2> QED
    BY <2>3, <2>4, <2>5, <2>6
<1> QED
  BY <1>1, <1>3, <1>8, <1>9 DEF Ingest, DropOld

\* A chunk of a later session arrives.
LEMMA LaterArrives ==
    ASSUME StateInv, OrderInv, FirstInv, Reliable, NEW m \in net, Deliver(m),
           m.chunk.payload.session # 1
    PROVE  FirstRejected' /\ PartHeld' /\ FirstAhead' /\ FirstTimely' /\ FirstUntorn'
<1> DEFINE c == m.chunk
           a == Assembly(c)
           F == Stored(candidate, c)
<1>1. /\ IsChunk(c) /\ Ingest(c) /\ now' = now /\ net' \subseteq net
      /\ UNCHANGED <<session, frame, next>>
  BY DEF Deliver, Receive, Ingest, agentVars
<1>2. /\ c.index \in 0..Last /\ Last \in Nat
      /\ c.payload \in Origins /\ c.frame = c.payload.frame
      /\ c.payload.session \in Nat \ {0, 1} /\ session \in Nat /\ session > 1
  BY NetworkAssumption DEF StateInv, TypeOK, OriginInv, Last, Origins
<1>3. /\ DOMAIN F = DOMAIN candidate.chunks \cup {c.index} /\ F[c.index] = c.payload
      /\ \A i \in DOMAIN candidate.chunks : i # c.index => F[i] = candidate.chunks[i]
  BY SMTT(20) DEF Stored
<1>4. \A x \in Pending' : x.payload.session # 1
  <2> TAKE x \in Pending'
  <2>1. Earlier(At(c.payload, c.index), x) /\ x \in Places
    BY DeliverPending, PendingPlaces
  <2> HIDE DEF c
  <2> QED
    BY <1>2, <2>1 DEF Earlier, At, Places
<1>5. HoldsFirst' =>
         /\ HoldsFirst
         /\ candidate'.frame = candidate.frame
         /\ \/ candidate' = candidate
            \/ candidate'.chunks = F /\ c.index # Last
         /\ candidate.frame = c.frame =>
               /\ \A i \in 0..(c.index - 1) :
                    /\ i \in DOMAIN candidate.chunks
                    /\ candidate.chunks[i] = c.payload
               /\ c.index # Last => candidate'.chunks = F
  BY LaterOffer
<1>6. FirstRejected'
  <2> SUFFICES ASSUME HoldsFirst', Last \in DOMAIN candidate'.chunks
               PROVE  /\ DOMAIN candidate'.chunks = 0..Last
                      /\ candidate'.chunks[Last] \in NotJpeg \ TooBig
    BY DEF FirstRejected
  <2>1. Last \in DOMAIN candidate.chunks =>
          /\ DOMAIN candidate.chunks = 0..Last
          /\ candidate.chunks[Last] \in NotJpeg \ TooBig
    BY <1>5 DEF FirstInv, FirstRejected
  <2>2. CASE candidate' = candidate
    BY <2>1, <2>2
  <2>3. CASE candidate'.chunks = F /\ c.index # Last
    <3> HIDE DEF F
    <3> QED
      BY <1>2, <1>3, <2>1, <2>3
  <2> QED
    BY <1>5, <2>2, <2>3
<1>7. PartHeld'
  <2> SUFFICES ASSUME NEW x \in Pending', NEW i \in 0..(x.index - 1),
                      \A y \in Pending' : Earlier(At(x.payload, i), y),
                      HoldsFirst', x.payload.frame = candidate'.frame
               PROVE  /\ candidate' # None /\ i \in DOMAIN candidate'.chunks
                      /\ candidate'.chunks[i] = x.payload
    BY <1>4 DEF PartHeld, Past
  <2>1. /\ x.payload = c.payload /\ i \in 0..c.index /\ c.index < x.index
        /\ x.index \in 0..Last
    BY PartAfter
  <2>2. candidate.frame = c.frame /\ c.index # Last
    BY <1>2, <1>5, <2>1
  <2>3. candidate' # None
    BY DEF HoldsFirst
  <2> HIDE DEF F, c
  <2> QED
    BY <1>2, <1>3, <1>5, <2>1, <2>2, <2>3
<1>8. FirstAhead'
  BY <1>4 DEF FirstAhead
<1>9. FirstTimely'
  <2>1. \A n \in net' : n.chunk.payload.session # 1
    <3> TAKE n \in net'
    <3>1. At(n.chunk.payload, n.chunk.index) \in Pending'
      BY DEF Pending
    <3> QED
      BY <1>4, <3>1 DEF At
  <2> QED
    BY <1>1, <1>2, <2>1 DEF FirstTimely
<1>10. FirstUntorn'
  <2>1. CASE DropOld(c) \/ Collect(c)
    <3>1. image' = image
      BY <2>1 DEF DropOld, Collect, shown
    <3> QED
      BY <3>1 DEF FirstInv, FirstUntorn, Torn
  <2>2. CASE Publish(c)
    <3> DEFINE G == Stored(a, c)
    <3>1. /\ image' = G /\ CompletedBy(a, c) /\ Accepts(a, c) /\ Jpeg(G) /\ ~IsOld(c)
      BY <2>2 DEF Publish, CompletedBy
    <3>2. DOMAIN G = 0..Last /\ G \in PartialFrames
      BY <1>1, <3>1, PublishedWhole, OfferedFrames
    <3>3. ASSUME NEW k \in 0..Last, G[k].session = 1
          PROVE  FALSE
      <4>1. a = candidate /\ candidate # None
        <5> SUFFICES ASSUME a = NewAssembly(c) PROVE FALSE
          BY AssemblyIs
        <5>1. a.chunks = <<>>
          BY DEF NewAssembly
        <5>2. DOMAIN a.chunks = {}
          BY <5>1
        <5>3. DOMAIN G = DOMAIN a.chunks \cup {c.index} /\ G[c.index] = c.payload
          BY SMTT(20) DEF Stored
        <5> HIDE DEF a, G
        <5> QED
          BY <3>2, <3>3, <5>2, <5>3
      <4>2. G = F
        BY <4>1
      <4>3. k \in DOMAIN candidate.chunks /\ candidate.chunks[k].session = 1
        <5> HIDE DEF G, F
        <5> QED
          BY <1>3, <3>2, <3>3, <4>2
      <4>4. HoldsFirst /\ candidate.frame = c.frame
        BY <3>1, <4>1, <4>3 DEF HoldsFirst, Accepts
      <4>5. \A i \in 0..(c.index - 1) :
              i \in DOMAIN candidate.chunks /\ candidate.chunks[i] = c.payload
        BY <4>4, LaterPart
      <4>6. CASE c.index = Last
        <5> HIDE DEF G, F
        <5> QED
          BY <1>2, <1>3, <3>3, <4>2, <4>3, <4>5, <4>6
      <4>7. CASE c.index # Last
        <5>1. Last \in DOMAIN candidate.chunks /\ G[Last] = candidate.chunks[Last]
          <6> HIDE DEF G, F
          <6> QED
            BY <1>2, <1>3, <3>2, <4>2, <4>7
        <5>2. G[Last] \in NotJpeg
          BY <4>4, <5>1 DEF FirstInv, FirstRejected
        <5>3. G \in WholeFrames
          <6> HIDE DEF G
          <6> QED
            BY <3>2 DEF PartialFrames, WholeFrames
        <5> QED
          BY <3>1, <5>2, <5>3, FrameAssumption
      <4> QED
        BY <4>6, <4>7
    <3> HIDE DEF G
    <3> QED
      BY <3>1, <3>2, <3>3 DEF FirstUntorn
  <2> QED
    BY <1>1, <2>1, <2>2 DEF Ingest
<1> QED
  BY <1>6, <1>7, <1>8, <1>9, <1>10

\* Every step keeps what holds of the first session there.
LEMMA FirstStep ==
    ASSUME StateInv, OrderInv, FirstInv, [Next]_vars
    PROVE  FirstInv'
<1>1. Reliable' = Reliable
  BY DEF Next, vars, Reliable
<1> SUFFICES ASSUME Reliable PROVE FirstInv'
  BY <1>1 DEF FirstInv
<1>2. CASE \/ StartFrame \/ SendNext \/ RestartAgent
           \/ TimePasses \/ UNCHANGED vars
  BY <1>2, FirstKept
<1>3. ASSUME NEW m \in net, Deliver(m) PROVE FirstInv'
  BY <1>3, FirstArrives, LaterArrives DEF FirstInv
<1>4. ASSUME NEW m \in net, Lose(m) PROVE FALSE
  BY <1>4 DEF Lose
<1> QED
  BY <1>2, <1>3, <1>4 DEF Next

\* On a network that keeps order no image shown mixes a frame of the agent's
\* first session with another, wherever in a frame that session ends and
\* whatever the agent does later; with any network the state kept is bounded.
THEOREM FirstSessionNeverTorn == Spec => []NeverTorn
<1>1. Init /\ StateInv => FirstInv
  <2> SUFFICES ASSUME Init, StateInv PROVE FirstInv
    OBVIOUS
  <2>1. /\ candidate = None /\ image = None /\ latestFrame = None
        /\ net = {} /\ next = 0
    BY DEF Init, HostIdle
  <2>2. Pending = {Upcoming} /\ Upcoming.index = 0
    BY <2>1 DEF Pending, Upcoming, At
  <2> QED
    BY <2>1, <2>2 DEF FirstInv, FirstRejected, HoldsFirst, PartHeld, FirstAhead,
                      FirstTimely, FirstUntorn
<1>2. StateInv /\ OrderInv /\ FirstInv /\ [Next]_vars => FirstInv'
  BY FirstStep
<1>3. StateInv /\ FirstInv => NeverTorn
  <2> SUFFICES ASSUME StateInv, FirstInv, Reliable, Torn
               PROVE  \A i \in DOMAIN image : image[i].session > 1
    BY DEF NeverTorn, StateInv
  <2>1. \A i \in DOMAIN image : image[i].session # 1
    BY DEF FirstInv, FirstUntorn, Torn
  <2>2. \A i \in DOMAIN image : image[i].session \in Nat \ {0}
    <3>1. image \in Images
      BY DEF StateInv, TypeOK, Torn
    <3>2. \A o \in Origins : o.session \in Nat \ {0}
      BY NetworkAssumption DEF StateInv, TypeOK, Origins, MaxSession
    <3> HIDE DEF Origins
    <3> QED
      BY <3>1, <3>2 DEF Images
  <2> QED
    BY <2>1, <2>2
<1> QED
  BY <1>1, <1>2, <1>3, OrderInvariance, PTL DEF Spec
----------------------------------------------------------------------------
\* That the display follows a restarted agent

\* The frame the agent began last.
Ongoing == Origin(session, frame)

\* What is older than the session was sent before it began, and a frame is
\* settled when what the host shows of older sessions is stale.
FollowTime ==
    /\ began \in 0..now
    /\ \A m \in net : m.chunk.payload.session < session => m.sent <= began
    /\ session = 1 => settled
    /\ settled /\ session > 1 => now - began >= ErrorAge + MaxDelay

\* Frame id f is before all that is pending of this session.
Behind(f) ==
    \A x \in Pending : x.payload.session = session =>
        f < x.payload.frame \/ (f = x.payload.frame /\ x.index > 0)

\* What the host shows and assembles is behind this session's chunks, or it dates
\* from when chunks of older sessions could still arrive.
FollowAhead ==
    /\ latestFrame # None =>
          /\ received \in 0..now
          /\ \/ session > 1 /\ received <= began + MaxDelay
             \/ Behind(latestFrame)
    /\ candidate # None =>
          \/ session > 1 /\ candidate.created <= began + MaxDelay
          \/ Behind(candidate.frame)

\* Every chunk of a frame the agent has finished is pending or past.
FollowSent ==
    frame > 0 /\ next = 0 => \A i \in 0..Last :
        At(Ongoing, i) \in Pending \/ Past(At(Ongoing, i))

\* A settled frame of which the first chunk has arrived, but not the last, is
\* under assembly: its chunks so far and no others, in time for the rest.
FollowPart ==
    /\ settled /\ frame > 0 /\ Past(At(Ongoing, 0))
    /\ \E x \in Pending : x.payload = Ongoing
    => /\ candidate # None /\ candidate.frame = frame
       /\ latestFrame # None => latestFrame < frame
       /\ \A i \in 0..Last : Past(At(Ongoing, i)) => i \in DOMAIN candidate.chunks
       /\ \A i \in DOMAIN candidate.chunks : candidate.chunks[i] = Ongoing
       /\ \A m \in net : m.chunk.payload = Ongoing => m.sent <= candidate.created
       /\ next > 0 => now <= candidate.created

\* One of which every chunk has arrived is shown, if it can be.
FollowShown ==
    /\ settled /\ frame > 0 /\ Ongoing \notin NotJpeg \cup TooBig
    /\ \A x \in Pending : x.payload # Ongoing
    => image = [i \in 0..Last |-> Ongoing]

FollowInv ==
    Reliable => FollowTime /\ FollowAhead /\ FollowSent /\ FollowPart /\ FollowShown

\* Nothing in flight is of a later frame than the one the agent is at.
LEMMA OngoingPlaces ==
    ASSUME StateInv, OrderInv, Reliable
    PROVE  /\ frame \in Nat /\ next \in Nat /\ session \in Nat /\ Last \in Nat
           /\ next = 0 => Upcoming.payload # Ongoing
           /\ next > 0 => Upcoming.payload = Ongoing
           /\ Upcoming.payload \in [session : Nat, frame : Nat]
           /\ Ongoing \in [session : Nat, frame : Nat]
           /\ Ongoing.session = session /\ Ongoing.frame = frame
           /\ \A m \in net :
                 LET o == m.chunk.payload IN
                 /\ o \in [session : Nat, frame : Nat] /\ o.session <= session
                 /\ o.session = session => o.frame <= frame
           /\ \A i \in 0..Last : At(Ongoing, i) \in Places
<1>1. /\ frame \in Nat /\ next \in Nat /\ session \in Nat /\ Last \in Nat
  BY NetworkAssumption DEF StateInv, TypeOK, MaxFrame, MaxSession, Last
<1>2. /\ next = 0 => Upcoming.payload = Origin(session, frame + 1)
      /\ next > 0 => Upcoming.payload = Origin(session, frame)
      /\ Upcoming.index = next
  BY <1>1 DEF Upcoming, At
<1>3. \A m \in net :
        /\ m.chunk.payload \in [session : Nat, frame : Nat]
        /\ m.chunk.payload.session <= session
  BY DEF StateInv, OriginInv, Origins, Ids
<1>4. ASSUME NEW m \in net, m.chunk.payload.session = session
      PROVE  m.chunk.payload.frame <= frame
  <2>1. Earlier(At(m.chunk.payload, m.chunk.index), Upcoming)
    BY DEF OrderInv
  <2>2. m.chunk.index \in Nat /\ m.chunk.payload.frame \in Nat
    BY <1>1, <1>3 DEF StateInv, OriginInv
  <2>3. /\ Upcoming.payload.session = session
        /\ \/ next = 0 /\ Upcoming.payload.frame = frame + 1
           \/ next > 0 /\ Upcoming.payload.frame = frame
    BY <1>1, <1>2 DEF Origin
  <2> QED
    BY <1>1, <1>2, <1>4, <2>1, <2>2, <2>3 DEF Earlier, At
<1>5. \A i \in 0..Last : At(Ongoing, i) \in Places
  BY <1>1 DEF At, Places, Ongoing, Origin
<1> QED
  BY <1>1, <1>2, <1>3, <1>4, <1>5 DEF Ongoing, Origin

\* The delay and the times of a state.
LEMMA TimesOf ==
    ASSUME StateInv
    PROVE  /\ now \in Nat /\ session \in Nat \ {0} /\ frame \in Nat /\ next \in 0..Last
           /\ Last \in Nat /\ Chunks = Last + 1
           /\ MaxDelay \in Nat /\ (Reliable => MaxDelay < AssemblyTimeout)
           /\ \A m \in net : m.sent \in 0..now /\ now - m.sent <= MaxDelay
           /\ latestFrame # None => latestFrame \in Nat
           /\ candidate # None => candidate.frame \in Nat /\ candidate.created \in 0..now
<1>1. network \in Networks /\ Chunks \in Nat \ {0} /\ now \in Nat
  BY NetworkAssumption DEF StateInv, TypeOK, PipelineInv
<1>2. MaxDelay \in Nat /\ (Reliable => MaxDelay < AssemblyTimeout) /\ MaxFrame \in Nat
      /\ MaxSession \in Nat
  BY <1>1, NetworkAssumption DEF MaxDelay, Reliable, MaxFrame, MaxSession
<1>3. \A m \in net : m.sent \in 0..now /\ now - m.sent <= MaxDelay
  BY DEF StateInv, OriginInv
<1>4. session \in Nat \ {0} /\ frame \in Nat /\ next \in 0..Last
  BY <1>2 DEF StateInv, TypeOK
<1>5. /\ latestFrame # None => latestFrame \in Nat
      /\ candidate # None => candidate.frame \in Nat /\ candidate.created \in 0..now
  BY <1>2 DEF StateInv, TypeOK, Ids
<1> QED
  BY <1>1, <1>2, <1>3, <1>4, <1>5 DEF Last

\* Sessions begin and frames settle in time.
LEMMA FollowTimeKept ==
    ASSUME StateInv, FollowTime, Reliable, [Next]_vars
    PROVE  FollowTime'
<1>1. /\ began \in 0..now /\ now \in Nat /\ session \in Nat \ {0}
      /\ \A m \in net : m.sent \in 0..now
      /\ ErrorAge \in Nat /\ MaxDelay \in Nat
  BY TimesOf, TimeoutAssumption DEF FollowTime
<1>2. MaxDelay' = MaxDelay
  BY DEF Next, vars, MaxDelay
<1>3. CASE StartFrame
  <2>1. /\ UNCHANGED <<now, session, began>>
        /\ \A m \in net' : m \in net \/ m.chunk.payload.session = session
    BY <1>3 DEF StartFrame, hostVars, Packet, Origin
  <2> DEFINE old == session = 1 \/ now - began >= ErrorAge + MaxDelay
  <2>2. settled' = old
    BY <1>3 DEF StartFrame
  <2>3. old => settled'
    <3> HIDE DEF old
    <3> QED
      BY <2>2, Zenon
  <2>4. settled' => old
    <3> HIDE DEF old
    <3> QED
      BY <2>2, Zenon
  <2>5. began' \in 0..now'
    BY <1>1, <2>1
  <2>6. \A m \in net' : m.chunk.payload.session < session' => m.sent <= began'
    <3> SUFFICES ASSUME NEW m \in net', m.chunk.payload.session < session
                 PROVE  m.sent <= began
      BY <2>1
    <3>1. m.chunk.payload.session # session
      BY <1>1
    <3> QED
      BY <2>1, <3>1 DEF FollowTime
  <2>7. session' = 1 => settled'
    BY <2>1, <2>3
  <2>8. settled' /\ session' > 1 => now' - began' >= ErrorAge + MaxDelay'
    BY <1>1, <1>2, <2>1, <2>4
  <2> HIDE DEF old
  <2> QED
    BY <2>5, <2>6, <2>7, <2>8 DEF FollowTime
<1>4. CASE SendNext
  <2>1. /\ UNCHANGED <<now, session, began, settled>>
        /\ \A m \in net' : m \in net \/ m.chunk.payload.session = session
    BY <1>4 DEF SendNext, hostVars, Packet, Origin
  <2> QED
    BY <1>1, <1>2, <2>1 DEF FollowTime
<1>5. CASE RestartAgent
  BY <1>1, <1>2, <1>5 DEF RestartAgent, FollowTime, hostVars
<1>6. CASE \/ TimePasses \/ UNCHANGED vars
           \/ \E m \in net : Deliver(m) \/ Lose(m)
  <2>1. /\ UNCHANGED <<session, began, settled>> /\ net' \subseteq net
        /\ now' = now \/ now' = now + 1
    BY <1>6 DEF TimePasses, vars, agentVars, hostVars, Deliver, Receive, Ingest, Lose
  <2> QED
    BY <1>1, <1>2, <2>1 DEF FollowTime
<1> QED
  BY <1>3, <1>4, <1>5, <1>6 DEF Next

\* The index of the next chunk comes back to 0 after the last.
LEMMA NextWraps ==
    ASSUME NEW n \in 0..Last
    PROVE  (n + 1) % Chunks = IF n = Last THEN 0 ELSE n + 1
  BY NetworkAssumption DEF Last

\* Sending, restarting and waiting.
LEMMA FollowKept ==
    ASSUME StateInv, OrderInv, FollowInv, Reliable, [Next]_vars,
           \/ StartFrame \/ SendNext \/ RestartAgent
           \/ TimePasses \/ UNCHANGED vars
    PROVE  FollowAhead' /\ FollowSent' /\ FollowPart' /\ FollowShown'
<1>1. FollowTime /\ FollowAhead /\ FollowSent /\ FollowPart /\ FollowShown
  BY DEF FollowInv
<1>2. /\ UNCHANGED <<candidate, latestFrame, received, image, network>>
      /\ MaxDelay' = MaxDelay
  BY DEF Next, StartFrame, SendNext, RestartAgent, TimePasses, vars, hostVars, shown,
         MaxDelay
<1>3. /\ frame \in Nat /\ next \in 0..Last /\ session \in Nat \ {0}
      /\ now \in Nat /\ Last \in Nat /\ Chunks = Last + 1
      /\ began \in 0..now /\ MaxDelay \in Nat
      /\ latestFrame # None => latestFrame \in Nat /\ received \in 0..now
      /\ candidate # None => candidate.frame \in Nat /\ candidate.created \in 0..now
  BY <1>1, TimesOf DEF FollowTime, FollowAhead
<1>4. /\ Pending \subseteq Places /\ Upcoming \in Pending /\ Upcoming \in Places
      /\ Upcoming.payload.session = session /\ Upcoming.index = next
      /\ Upcoming.payload.frame = IF next = 0 THEN frame + 1 ELSE frame
  BY PendingPlaces
<1>5. \A x \in Places : x \notin Pending' \/ ~(\A y \in Pending' : Earlier(x, y))
  BY EarlierOrders
<1>6. \A x \in Places : Past(x) => \A y \in Pending' : Earlier(x, y)
  BY PendingStep
<1>7. CASE StartFrame \/ SendNext
  <2>1. /\ Pending' = Pending \cup {Upcoming'} /\ Upcoming' \in Places
        /\ \A n \in net' : n \in net \/ At(n.chunk.payload, n.chunk.index) = Upcoming
        /\ Upcoming'.payload.session = session /\ Earlier(Upcoming, Upcoming')
        /\ Upcoming'.index = 0 \/ Upcoming' = At(Upcoming.payload, Upcoming.index + 1)
    BY <1>7, SendPending
  <2>2. /\ UNCHANGED <<session, began, now>>
        /\ \A n \in net' : n \in net \/ n.sent = now
    BY <1>7 DEF StartFrame, SendNext, hostVars, Packet
  <2>3. Upcoming.payload = Ongoing' /\ Upcoming = At(Ongoing', next)
    BY <1>3, <1>7, <2>2 DEF Upcoming, Ongoing, At, StartFrame, SendNext
  <2>4. FollowAhead'
    <3>1. ASSUME NEW f \in Nat, Behind(f), NEW x \in Pending',
                 x.payload.session = session
          PROVE  f < x.payload.frame \/ (f = x.payload.frame /\ x.index > 0)
      <4>1. CASE x \in Pending
        BY <3>1, <4>1 DEF Behind
      <4>2. CASE x = Upcoming'
        <5>1. \/ f < Upcoming.payload.frame
              \/ f = Upcoming.payload.frame /\ Upcoming.index > 0
          BY <1>4, <3>1 DEF Behind
        <5>2. CASE x.index = 0
          <6>1. Upcoming.payload.frame < x.payload.frame
            <7> HIDE DEF Upcoming
            <7> QED
              BY <1>3, <1>4, <2>1, <4>2, <5>2 DEF Earlier, Places
          <6> HIDE DEF Upcoming
          <6> QED
            BY <1>4, <2>1, <3>1, <4>2, <5>1, <6>1 DEF Places
        <5>3. CASE x = At(Upcoming.payload, Upcoming.index + 1)
          BY <1>3, <1>4, <5>1, <5>3 DEF At, Places
        <5> QED
          BY <2>1, <4>2, <5>2, <5>3
      <4> QED
        BY <2>1, <4>1, <4>2
    <3>2. \A f \in Nat : Behind(f) => \A x \in Pending' : x.payload.session = session =>
            f < x.payload.frame \/ (f = x.payload.frame /\ x.index > 0)
      BY <3>1
    <3> QED
      BY <1>1, <1>2, <1>3, <2>2, <3>2 DEF FollowAhead, Behind
  <2>5. FollowSent'
    <3> SUFFICES ASSUME next' = 0, NEW i \in 0..Last
                 PROVE  \/ At(Ongoing', i) \in Pending'
                        \/ \A y \in Pending' : Earlier(At(Ongoing', i), y)
      BY DEF FollowSent, Past
    <3>1. next = Last
      BY <1>3, <1>7, NextWraps DEF StartFrame, SendNext
    <3>2. CASE i = next
      BY <2>1, <2>3, <1>4, <3>2
    <3>3. CASE i # next
      <4>1. i \in 0..(Upcoming.index - 1)
        BY <1>3, <1>4, <3>1, <3>3
      <4>2. At(Ongoing', i) \in Pending \/ Past(At(Ongoing', i))
        BY <1>4, <2>3, <4>1 DEF OrderInv
      <4>3. At(Ongoing', i) \in Places
        BY <1>3, <1>4, <2>3, <4>1 DEF At, Places
      <4> QED
        BY <1>6, <2>1, <4>2, <4>3
    <3> QED
      BY <3>2, <3>3
  <2>6. FollowShown'
    <3>1. Upcoming \in Pending' /\ Upcoming.payload = Ongoing'
      BY <1>4, <2>1, <2>3
    <3> QED
      BY <3>1 DEF FollowShown
  <2>7. FollowPart'
    <3>1. CASE StartFrame
      <4>1. next = 0
        BY <3>1 DEF StartFrame
      <4>2. At(Ongoing', 0) = Upcoming
        BY <2>3, <4>1
      <4>3. ~(\A y \in Pending' : Earlier(At(Ongoing', 0), y))
        BY <1>4, <1>5, <2>1, <4>2
      <4> QED
        BY <4>3 DEF FollowPart, Past
    <3>2. CASE SendNext
      <4>1. /\ next > 0 /\ UNCHANGED <<frame, settled, session>>
        BY <3>2 DEF SendNext
      <4>2. Ongoing' = Ongoing
        BY <4>1 DEF Ongoing
      <4>3. ASSUME NEW p, \A y \in Pending' : Earlier(p, y)
            PROVE  Past(p)
        BY <2>1, <4>3 DEF Past
      <4> SUFFICES ASSUME settled, frame > 0,
                          \A y \in Pending' : Earlier(At(Ongoing, 0), y)
                   PROVE  /\ candidate # None /\ candidate.frame = frame
                          /\ latestFrame # None => latestFrame < frame
                          /\ \A i \in 0..Last :
                                (\A y \in Pending' : Earlier(At(Ongoing, i), y))
                                => i \in DOMAIN candidate.chunks
                          /\ \A i \in DOMAIN candidate.chunks :
                                candidate.chunks[i] = Ongoing
                          /\ \A m \in net' : m.chunk.payload = Ongoing
                                => m.sent <= candidate.created
                          /\ now <= candidate.created
        BY <1>2, <2>2, <4>1, <4>2 DEF FollowPart, Past
      <4>4. Past(At(Ongoing, 0)) /\ \E x \in Pending : x.payload = Ongoing
        BY <1>4, <2>3, <4>2, <4>3
      <4>5. /\ candidate # None /\ candidate.frame = frame
            /\ latestFrame # None => latestFrame < frame
            /\ \A i \in 0..Last : Past(At(Ongoing, i)) => i \in DOMAIN candidate.chunks
            /\ \A i \in DOMAIN candidate.chunks : candidate.chunks[i] = Ongoing
            /\ \A m \in net : m.chunk.payload = Ongoing => m.sent <= candidate.created
            /\ now <= candidate.created
        BY <1>1, <4>1, <4>4 DEF FollowPart
      <4>6. \A i \in 0..Last : (\A y \in Pending' : Earlier(At(Ongoing, i), y))
                               => i \in DOMAIN candidate.chunks
        BY <4>3, <4>5
      <4>7. \A m \in net' : m.chunk.payload = Ongoing => m.sent <= candidate.created
        BY <2>2, <4>5
      <4> QED
        BY <4>5, <4>6, <4>7
    <3> QED
      BY <1>7, <3>1, <3>2
  <2> QED
    BY <2>4, <2>5, <2>6, <2>7
<1>8. CASE RestartAgent
  <2>1. session' > 1 /\ began' = now /\ frame' = 0 /\ now' = now
    BY <1>3, <1>8 DEF RestartAgent, hostVars
  <2>2. FollowAhead'
    BY <1>2, <1>3, <2>1 DEF FollowAhead
  <2>3. FollowSent' /\ FollowPart' /\ FollowShown'
    BY <2>1 DEF FollowSent, FollowPart, FollowShown
  <2> QED
    BY <2>2, <2>3
<1>9. CASE TimePasses \/ UNCHANGED vars
  <2>1. /\ UNCHANGED <<session, frame, next, began, settled, net>>
        /\ \/ now' = now /\ UNCHANGED vars
           \/ now' = now + 1 /\ next = 0
    BY <1>9 DEF TimePasses, vars, agentVars, hostVars
  <2>2. Upcoming' = Upcoming /\ Ongoing' = Ongoing
    BY <2>1 DEF Upcoming, Ongoing
  <2>3. Pending' = Pending
    BY <2>1, <2>2 DEF Pending
  <2>4. FollowAhead'
    BY <1>1, <1>2, <1>3, <2>1, <2>3 DEF FollowAhead, Behind
  <2>5. FollowSent' /\ FollowShown'
    BY <1>1, <1>2, <2>1, <2>2, <2>3 DEF FollowSent, FollowShown, Past
  <2>6. FollowPart'
    BY <1>1, <1>2, <2>1, <2>2, <2>3 DEF FollowPart, Past
  <2> QED
    BY <2>4, <2>5, <2>6
<1> QED
  BY <1>7, <1>8, <1>9

\* A chunk of a settled frame finds an assembly with exactly the chunks before
\* it: what the host had at the first is stale, expired or older.
LEMMA FollowOffer ==
    ASSUME StateInv, OrderInv, FollowInv, Reliable, NEW m \in net, Deliver(m),
           settled, m.chunk.payload = Ongoing
    PROVE  LET c == m.chunk
               a == Assembly(c)
           IN  /\ ~IsOld(c) /\ (~IsRestart(c) /\ latestFrame # None => latestFrame < frame)
               /\ a.frame = c.frame /\ a.count = c.count
               /\ DOMAIN a.chunks = 0..(c.index - 1)
               /\ \A i \in DOMAIN a.chunks : a.chunks[i] = c.payload
               /\ \A n \in net : n.chunk.payload = Ongoing => n.sent <= a.created
               /\ next > 0 => now <= a.created
<1> DEFINE c == m.chunk
           a == Assembly(c)
           d == At(c.payload, c.index)
<1>1. /\ c.frame = frame /\ frame \in Nat \ {0}
      /\ c.index \in 0..Last /\ c.count = Chunks /\ now - m.sent <= MaxDelay
      /\ m.sent \in 0..now /\ now \in Nat /\ Last \in Nat
      /\ \A n \in net : n.sent <= now
      /\ MaxDelay \in Nat /\ MaxDelay < AssemblyTimeout
  <2>1. c.frame = c.payload.frame /\ c.payload \in Origins
    BY DEF StateInv, OriginInv
  <2>2. c.frame = frame /\ frame \in Nat \ {0}
    BY <2>1 DEF Ongoing, Origin, Origins, Ids
  <2>3. c.index \in 0..Last /\ c.count = Chunks
    BY DEF StateInv, OriginInv
  <2> QED
    BY <2>2, <2>3, TimesOf
<1>2. /\ d \in Pending /\ d.payload = Ongoing /\ d.index = c.index
      /\ d.payload.session = session /\ d.payload.frame = frame
  BY DEF Pending, At, Ongoing, Origin
<1>3. FollowTime /\ FollowAhead /\ FollowPart
  BY DEF FollowInv
<1>4. /\ latestFrame # None => latestFrame \in Nat \ {0} /\ latestStamp # None
      /\ latestFrame = None => latestStamp = None
      /\ candidate # None => /\ candidate.frame \in Nat /\ candidate.created \in 0..now
                             /\ candidate.count = Chunks
      /\ session \in Nat \ {0} /\ began \in 0..now
  BY <1>3, NetworkAssumption DEF StateInv, TypeOK, Ids, HostInv, AssemblyAhead,
                                 FollowTime, MaxSession
<1>5. CASE c.index = 0
  <2>1. ASSUME session > 1, NEW t \in 0..now, t <= began + MaxDelay
        PROVE  now - t >= ErrorAge /\ now - t >= AssemblyTimeout
    BY <1>1, <1>3, <1>4, <2>1, TimeoutAssumption DEF FollowTime
  <2>2. latestFrame # None => IsRestart(c) \/ latestFrame < frame
    <3> SUFFICES ASSUME latestFrame # None, ~(latestFrame < frame)
                 PROVE  IsRestart(c)
      OBVIOUS
    <3>1. ~Behind(latestFrame)
      <4> HIDE DEF d
      <4> QED
        BY <1>2, <1>5 DEF Behind
    <3>2. /\ received \in 0..now /\ session > 1 /\ received <= began + MaxDelay
      BY <1>3, <3>1 DEF FollowAhead
    <3>3. received # None /\ now - received >= ErrorAge
      BY <2>1, <3>2, NoneAssumption
    <3>4. latestFrame \notin {None, 0} /\ c.frame <= latestFrame /\ latestStamp # None
      BY <1>1, <1>4
    <3> QED
      BY <3>3, <3>4 DEF IsRestart, RestartsStale
  <2>3. ~IsOld(c)
    BY <1>1, <1>4, <2>2 DEF IsOld
  <2>4. candidate # None => Expired(candidate) \/ c.frame > candidate.frame
    <3> SUFFICES ASSUME candidate # None, ~(c.frame > candidate.frame)
                 PROVE  Expired(candidate)
      OBVIOUS
    <3>1. ~Behind(candidate.frame)
      <4> HIDE DEF d
      <4> QED
        BY <1>1, <1>2, <1>4, <1>5 DEF Behind
    <3>2. session > 1 /\ candidate.created <= began + MaxDelay
      BY <1>3, <3>1 DEF FollowAhead
    <3> QED
      BY <1>4, <2>1, <3>2 DEF Expired
  <2>5. a = NewAssembly(c)
    BY <2>4 DEF Assembly, Current
  <2>6. /\ a.frame = c.frame /\ a.count = c.count /\ a.chunks = <<>> /\ a.created = now
    BY <2>5 DEF NewAssembly
  <2>7. DOMAIN a.chunks = {} /\ 0..(c.index - 1) = {}
    BY <1>5, <2>6
  <2> HIDE DEF a
  <2> QED
    BY <1>1, <2>2, <2>3, <2>6, <2>7 DEF a
<1>6. CASE c.index # 0
  <2>1. \A i \in 0..(c.index - 1) : Past(At(Ongoing, i))
    BY DeliveredPart
  <2>2. Past(At(Ongoing, 0)) /\ \E x \in Pending : x.payload = Ongoing
    <3>1. 0 \in 0..(c.index - 1)
      BY <1>1, <1>6
    <3> QED
      BY <1>2, <2>1, <3>1
  <2>3. /\ candidate # None /\ candidate.frame = frame
        /\ latestFrame # None => latestFrame < frame
        /\ \A i \in 0..Last : Past(At(Ongoing, i)) => i \in DOMAIN candidate.chunks
        /\ \A i \in DOMAIN candidate.chunks : candidate.chunks[i] = Ongoing
        /\ \A n \in net : n.chunk.payload = Ongoing => n.sent <= candidate.created
        /\ next > 0 => now <= candidate.created
    BY <1>1, <1>3, <2>2 DEF FollowPart
  <2>4. DOMAIN candidate.chunks = 0..(c.index - 1)
    <3>1. ASSUME NEW i \in DOMAIN candidate.chunks PROVE i \in 0..(c.index - 1)
      <4>1. Earlier(At(Ongoing, i), d)
        BY <1>2, <2>3 DEF OrderInv, Past
      <4>2. i \in 0..Last
        BY <2>3 DEF StateInv, TypeOK
      <4>3. i < d.index
        BY <1>1, <1>2, <1>4, <4>1 DEF Earlier, At, Ongoing, Origin
      <4> QED
        BY <1>1, <1>2, <4>2, <4>3
    <3>2. \A i \in 0..(c.index - 1) : i \in 0..Last
      BY <1>1
    <3> QED
      BY <2>1, <2>3, <3>1, <3>2
  <2>5. ~IsRestart(c)
    <3>1. ~RestartsClock(c)
      BY <1>1, <1>4, <2>3 DEF RestartsClock
    <3>2. latestFrame # None => ~RestartsStale(c)
      BY <1>1, <1>4, <2>3 DEF RestartsStale
    <3> QED
      BY <1>4, <3>1, <3>2 DEF IsRestart
  <2>6. ~IsOld(c)
    BY <1>1, <1>4, <2>3 DEF IsOld
  <2>7. ~Expired(candidate)
    <3>1. m.sent <= candidate.created
      BY <2>3
    <3> QED
      BY <1>1, <1>4, <2>3, <3>1, TimeoutAssumption DEF Expired
  <2>8. a = candidate
    BY <1>1, <2>3, <2>5, <2>7 DEF Assembly, Current
  <2> HIDE DEF a
  <2> QED
    BY <1>1, <1>4, <2>3, <2>4, <2>5, <2>6, <2>8 DEF a
<1> QED
  BY <1>5, <1>6

\* What a delivery leaves behind it is ahead of the display and the assembly.
LEMMA FollowAheadAfter ==
    ASSUME StateInv, OrderInv, FollowInv, Reliable, NEW m \in net, Deliver(m),
           UNCHANGED network
    PROVE  FollowAhead'
<1> DEFINE c == m.chunk
           a == Assembly(c)
<1>1. /\ IsChunk(c) /\ Ingest(c) /\ now' = now
      /\ UNCHANGED <<session, began>> /\ MaxDelay' = MaxDelay
  BY DEF Deliver, Receive, Ingest, agentVars, MaxDelay
<1>2. /\ c.payload \in [session : Nat, frame : Nat] /\ c.payload.session <= session
      /\ c.frame = c.payload.frame /\ c.frame \in Nat
      /\ c.index \in Nat /\ session \in Nat
      /\ now - m.sent <= MaxDelay /\ m.sent \in 0..now /\ now \in Nat
      /\ MaxDelay \in Nat /\ began \in 0..now
  <2>1. began \in 0..now
    BY DEF FollowInv, FollowTime
  <2>2. c.index \in Nat /\ c.frame = c.payload.frame /\ c.frame \in Nat
    BY DEF StateInv, OriginInv, Origins, Ids
  <2> QED
    BY <2>1, <2>2, OngoingPlaces, TimesOf
<1>3. FollowTime /\ FollowAhead
  BY DEF FollowInv
<1>4. Pending' \subseteq Pending /\ \A y \in Pending' : Earlier(At(c.payload, c.index), y)
  BY DeliverPending
<1>5. /\ a.frame \in Nat /\ a.created \in 0..now
      /\ candidate # None => candidate.frame \in Nat /\ candidate.created \in 0..now
  BY OfferedAssembly DEF StateInv, TypeOK, Ids
\* The chunk's frame is behind, or the time is that of an older session.
<1>6. \/ session > 1 /\ now <= began + MaxDelay
      \/ \A x \in Pending' : x.payload.session = session =>
            c.frame < x.payload.frame \/ (c.frame = x.payload.frame /\ x.index > 0)
  <2>1. CASE c.payload.session < session
    <3>1. m.sent <= began
      BY <1>3, <2>1 DEF FollowTime
    <3>2. c.payload.session # 0
      BY DEF StateInv, OriginInv, Origins
    <3> QED
      BY <1>2, <2>1, <3>1, <3>2
  <2>2. CASE c.payload.session = session
    <3> SUFFICES ASSUME NEW x \in Pending', x.payload.session = session
                 PROVE  c.frame < x.payload.frame \/ (c.frame = x.payload.frame /\ x.index > 0)
      OBVIOUS
    <3>1. x \in Places /\ Earlier(At(c.payload, c.index), x)
      BY <1>4, PendingPlaces
    <3> HIDE DEF c
    <3> QED
      BY <1>2, <2>2, <3>1 DEF Earlier, At, Places
  <2> QED
    BY <1>2, <2>1, <2>2
\* So is the frame of the assembly that takes it, or it was before.
<1>7. \/ session > 1 /\ a.created <= began + MaxDelay
      \/ \A x \in Pending' : x.payload.session = session =>
            a.frame < x.payload.frame \/ (a.frame = x.payload.frame /\ x.index > 0)
  <2>1. CASE a = NewAssembly(c)
    <3>1. a.created = now /\ a.frame = c.frame
      BY <2>1 DEF NewAssembly
    <3> HIDE DEF a, c
    <3> QED
      BY <1>6, <3>1
  <2>2. CASE a = candidate /\ candidate # None
    <3>1. \/ session > 1 /\ candidate.created <= began + MaxDelay
          \/ Behind(candidate.frame)
      BY <1>3, <2>2 DEF FollowAhead
    <3> HIDE DEF a
    <3> QED
      BY <1>4, <2>2, <3>1 DEF Behind
  <2> QED
    BY <2>1, <2>2, AssemblyIs
<1>8. CASE DropOld(c)
  BY <1>1, <1>3, <1>4, <1>8 DEF DropOld, shown, FollowAhead, Behind
<1>9. CASE Collect(c)
  <2>1. /\ candidate' = Add(a, c) /\ received' = received
        /\ latestFrame' = latestFrame \/ latestFrame' = None
    BY <1>9 DEF Collect
  <2>2. candidate'.frame = a.frame /\ candidate'.created = a.created
    <3>1. ~IsOld(c)
      BY <1>9 DEF Collect
    <3>2. Accepts(a, c) => /\ Add(a, c).frame = a.frame /\ Add(a, c).created = a.created
      BY <1>1, <3>1, OfferedFrames
    <3> HIDE DEF a
    <3> QED
      BY <2>1, <3>2 DEF Add
  <2>3. latestFrame' # None =>
          /\ received' \in 0..now
          /\ \/ session > 1 /\ received' <= began + MaxDelay
             \/ \A x \in Pending' : x.payload.session = session =>
                   \/ latestFrame' < x.payload.frame
                   \/ latestFrame' = x.payload.frame /\ x.index > 0
    BY <1>3, <1>4, <2>1 DEF FollowAhead, Behind
  <2> HIDE DEF a
  <2> QED
    BY <1>1, <1>7, <2>2, <2>3 DEF FollowAhead, Behind
<1>10. CASE Publish(c)
  <2>1. /\ candidate' = None /\ latestFrame' = a.frame /\ received' = now
        /\ a.frame = c.frame
    BY <1>10 DEF Publish, CompletedBy, Accepts
  <2> HIDE DEF a, c
  <2> QED
    BY <1>1, <1>2, <1>6, <2>1 DEF FollowAhead, Behind
<1> QED
  BY <1>1, <1>8, <1>9, <1>10 DEF Ingest

\* After a chunk of the agent's frame that is not the last, another is pending.
LEMMA FollowRest ==
    ASSUME StateInv, OrderInv, FollowInv, Reliable, NEW m \in net, Deliver(m),
           m.chunk.payload = Ongoing, m.chunk.index # Last
    PROVE  \E x \in Pending' : x.payload = Ongoing
<1> DEFINE d == At(Ongoing, m.chunk.index)
           e == At(Ongoing, m.chunk.index + 1)
<1>1. /\ d \in Pending /\ Upcoming' = Upcoming /\ Upcoming \in Pending
      /\ Pending \subseteq Pending' \cup {d} /\ Upcoming' \in Pending'
  BY DeliverPending, PendingPlaces DEF Pending
<1>2. /\ m.chunk.index \in 0..Last /\ Last \in Nat /\ next \in Nat
      /\ frame > 0
  <2>1. m.chunk.payload.frame \in Nat \ {0}
    BY DEF StateInv, OriginInv, Origins, Ids
  <2> QED
    BY <2>1, OngoingPlaces DEF StateInv, OriginInv, Ongoing, Origin
<1>3. CASE next > 0
  BY <1>1, <1>3, OngoingPlaces
<1>4. CASE next = 0
  <2>1. m.chunk.index + 1 \in 0..Last
    BY <1>2
  <2>2. e \in Pending \/ Past(e)
    BY <1>2, <1>4, <2>1 DEF FollowInv, FollowSent
  <2>3. Earlier(d, e) /\ d \in Places /\ e \in Places /\ e.payload = Ongoing
    <3>1. d \in Places /\ e \in Places
      BY <1>2, <2>1, OngoingPlaces
    <3> QED
      BY <1>2, <3>1 DEF Earlier, At
  <2>4. ~Past(e) /\ e # d
    <3> HIDE DEF d, e
    <3> QED
      BY <1>1, <2>3, EarlierOrders DEF Past
  <2> HIDE DEF d, e
  <2> QED
    BY <1>1, <2>2, <2>3, <2>4
<1> QED
  BY <1>2, <1>3, <1>4

\* A chunk of the settled frame arrives.
LEMMA FollowArrives ==
    ASSUME StateInv, OrderInv, FollowInv, Reliable, NEW m \in net, Deliver(m),
           settled, m.chunk.payload = Ongoing
    PROVE  FollowPart' /\ FollowShown'
<1> DEFINE c == m.chunk
           a == Assembly(c)
           F == Stored(a, c)
<1>1. /\ IsChunk(c) /\ Ingest(c) /\ now' = now /\ net' \subseteq net
      /\ UNCHANGED <<session, frame, next, settled>>
  BY DEF Deliver, Receive, Ingest, agentVars
<1>2. /\ c.index \in 0..Last /\ Last \in Nat /\ Chunks = Last + 1
      /\ c.frame = frame /\ c.count = Chunks /\ frame \in Nat
  BY NetworkAssumption, OngoingPlaces DEF StateInv, OriginInv, Last
<1>3. /\ ~IsOld(c) /\ (~IsRestart(c) /\ latestFrame # None => latestFrame < frame)
      /\ a.frame = frame /\ a.count = c.count
      /\ DOMAIN a.chunks = 0..(c.index - 1)
      /\ \A i \in DOMAIN a.chunks : a.chunks[i] = Ongoing
      /\ \A n \in net : n.chunk.payload = Ongoing => n.sent <= a.created
      /\ next > 0 => now <= a.created
  BY <1>2, FollowOffer
<1>4. DOMAIN F = 0..c.index /\ \A i \in 0..c.index : F[i] = Ongoing
  <2>1. /\ DOMAIN F = DOMAIN a.chunks \cup {c.index} /\ F[c.index] = Ongoing
        /\ \A i \in DOMAIN a.chunks : i # c.index => F[i] = a.chunks[i]
    BY SMTT(30) DEF Stored
  <2> HIDE DEF a, F
  <2> QED
    BY <1>2, <1>3, <2>1
<1>5. F \in PartialFrames /\ F # None /\ a # None
      /\ (Accepts(a, c) => /\ Add(a, c) # None /\ Add(a, c).chunks = F
                           /\ Add(a, c).frame = a.frame
                           /\ Add(a, c).created = a.created)
  BY <1>1, <1>3, OfferedFrames
<1>6. c.index # Last => Accepts(a, c) /\ ~CompletedBy(a, c)
  <2> SUFFICES ASSUME c.index # Last PROVE Accepts(a, c) /\ ~CompletedBy(a, c)
    OBVIOUS
  <2>1. Last \notin DOMAIN F
    BY <1>2, <1>4
  <2>2. Fits(F)
    BY <1>5, <2>1, FrameAssumption
  <2>3. ~CompletedBy(a, c)
    <3>1. Last \in 0..Last
      BY <1>2
    <3> QED
      BY <2>1, <3>1, PublishedWhole
  <2> QED
    BY <1>2, <1>3, <2>2, <2>3 DEF Accepts
<1>7. Ongoing' = Ongoing
  BY <1>1 DEF Ongoing
<1>8. CASE c.index # Last
  <2>1. Collect(c)
    BY <1>1, <1>3, <1>6, <1>8 DEF Ingest, DropOld, Publish
  <2>2. /\ candidate' = Add(a, c)
        /\ latestFrame' = IF IsRestart(c) THEN None ELSE latestFrame
    BY <2>1 DEF Collect
  <2>3. /\ candidate' # None /\ candidate'.chunks = F /\ candidate'.frame = frame
        /\ candidate'.created = a.created
    <3> HIDE DEF a, F
    <3> QED
      BY <1>3, <1>5, <1>6, <1>8, <2>2
  <2>4. PICK x \in Pending' : x.payload = Ongoing
    BY <1>8, FollowRest
  <2>5. ASSUME NEW i \in 0..Last, \A y \in Pending' : Earlier(At(Ongoing, i), y)
        PROVE  i \in 0..c.index
    <3>1. i < x.index
      <4>1. Earlier(At(Ongoing, i), x) /\ x \in Places
        BY <2>4, <2>5, DeliverPending, PendingPlaces
      <4>2. Ongoing.session \in Nat /\ Ongoing.frame \in Nat
        BY OngoingPlaces
      <4> QED
        BY <2>4, <4>1, <4>2 DEF Earlier, At, Places
    <3>2. i \in 0..(x.index - 1)
      <4>1. x.index \in 0..Last
        BY <2>4, DeliverPending, PendingPlaces
      <4> QED
        BY <3>1, <4>1
    <3> QED
      BY <2>4, <2>5, <3>2, PartAfter
  <2>6. FollowPart'
    <3>1. \A i \in 0..Last : Past(At(Ongoing, i))' => i \in DOMAIN candidate'.chunks
      <4> SUFFICES ASSUME NEW i \in 0..Last, \A y \in Pending' : Earlier(At(Ongoing, i), y)
                   PROVE  i \in DOMAIN candidate'.chunks
        BY <1>7 DEF Past
      <4> HIDE DEF F, c
      <4> QED
        BY <1>4, <2>3, <2>5
    <3>2. \A i \in DOMAIN candidate'.chunks : candidate'.chunks[i] = Ongoing
      <4> HIDE DEF F, c
      <4> QED
        BY <1>4, <2>3
    <3>3. latestFrame' # None => latestFrame' < frame
      BY <1>3, <2>2
    <3>4. \A n \in net' : n.chunk.payload = Ongoing => n.sent <= candidate'.created
      BY <1>1, <1>3, <2>3
    <3>5. next > 0 => now <= candidate'.created
      BY <1>3, <2>3
    <3> HIDE DEF F, a, c
    <3> QED
      BY <1>1, <1>7, <2>3, <3>1, <3>2, <3>3, <3>4, <3>5 DEF FollowPart
  <2> QED
    BY <1>7, <2>4, <2>6 DEF FollowShown
<1>9. CASE c.index = Last
  <2>1. \A x \in Pending' : x.payload # Ongoing
    <3> SUFFICES ASSUME NEW x \in Pending', x.payload = Ongoing PROVE FALSE
      OBVIOUS
    <3>1. Earlier(At(Ongoing, Last), x) /\ x.index \in 0..Last
      BY <1>9, DeliverPending, PendingPlaces
    <3>2. Ongoing.session \in Nat /\ Ongoing.frame \in Nat
      BY OngoingPlaces
    <3> QED
      BY <1>2, <3>1, <3>2 DEF Earlier, At
  <2>2. FollowPart'
    BY <1>7, <2>1 DEF FollowPart
  <2>3. ASSUME Ongoing \notin NotJpeg \cup TooBig
        PROVE  image' = [i \in 0..Last |-> Ongoing]
    <3>1. F \in WholeFrames
      <4> HIDE DEF F
      <4> QED
        BY <1>4, <1>5, <1>9 DEF PartialFrames, WholeFrames
    <3>2. Fits(F) /\ Jpeg(F)
      <4>1. \A i \in 0..Last : F[i] = Ongoing
        BY <1>4, <1>9
      <4> HIDE DEF F
      <4> QED
        BY <1>2, <2>3, <3>1, <4>1, FrameAssumption
    <3>3. CompletedBy(a, c)
      <4>1. Cardinality(0..Last) = Chunks
        BY <1>2, FS_Interval
      <4>2. DOMAIN F = 0..Last
        BY <1>4, <1>9
      <4> HIDE DEF a
      <4> QED
        BY <1>2, <1>3, <3>2, <4>1, <4>2 DEF CompletedBy, Accepts
    <3>4. Publish(c)
      BY <1>1, <1>3, <3>2, <3>3 DEF Ingest, DropOld, Collect
    <3>5. image' = F
      BY <3>4 DEF Publish
    <3> HIDE DEF F
    <3> QED
      BY <1>4, <1>9, <3>1, <3>5 DEF WholeFrames
  <2>4. FollowShown'
    BY <1>7, <2>3 DEF FollowShown, Last
  <2> QED
    BY <2>2, <2>4
<1> QED
  BY <1>8, <1>9

\* A chunk of another frame arrives: none of a settled one has.
LEMMA OtherArrives ==
    ASSUME StateInv, OrderInv, FollowInv, Reliable, NEW m \in net, Deliver(m),
           ~settled \/ m.chunk.payload # Ongoing
    PROVE  FollowPart' /\ FollowShown'
<1>1. /\ UNCHANGED <<session, frame, next, settled>> /\ Ongoing' = Ongoing
  BY DEF Deliver, agentVars, Ongoing
<1> SUFFICES ASSUME settled, frame > 0, m.chunk.payload # Ongoing
             PROVE  FollowPart' /\ FollowShown'
  BY <1>1 DEF FollowPart, FollowShown
<1> DEFINE d == At(m.chunk.payload, m.chunk.index)
<1>2. /\ d \in Pending /\ d.payload # Ongoing /\ d \in Places
      /\ Pending \subseteq Pending' \cup {d} /\ Pending' \subseteq Pending
      /\ Upcoming' = Upcoming /\ Upcoming' \in Pending'
      /\ d.payload = m.chunk.payload
      /\ \A x \in Pending' : x \in Places /\ x.index \in 0..Last
  BY DeliverPending, PendingPlaces DEF At, Pending
<1>3. /\ next \in Nat /\ Last \in Nat /\ frame \in Nat /\ session \in Nat
      /\ Ongoing \in [session : Nat, frame : Nat]
      /\ Ongoing.session = session /\ Ongoing.frame = frame
      /\ m.chunk.payload \in [session : Nat, frame : Nat]
      /\ m.chunk.payload.session <= session
      /\ m.chunk.payload.session = session => m.chunk.payload.frame <= frame
      /\ next > 0 => Upcoming.payload = Ongoing
  BY OngoingPlaces
<1>4. FollowPart'
  <2> SUFFICES ASSUME \A y \in Pending' : Earlier(At(Ongoing, 0), y),
                      NEW x \in Pending', x.payload = Ongoing
               PROVE  FALSE
    BY <1>1 DEF FollowPart, Past
  <2>1. x.index > 0
    <3>1. Earlier(At(Ongoing, 0), x) /\ x.index \in 0..Last
      BY <1>2
    <3> QED
      BY <1>3, <3>1 DEF Earlier, At
  <2>2. 0 \in 0..(x.index - 1)
    BY <1>2, <2>1
  <2>3. x.payload = m.chunk.payload
    BY <2>2, PartAfter
  <2> QED
    BY <2>3
<1>5. FollowShown'
  <2> SUFFICES ASSUME Ongoing \notin NotJpeg \cup TooBig,
                      \A x \in Pending' : x.payload # Ongoing
               PROVE  image' = [i \in 0..Last |-> Ongoing]
    BY <1>1 DEF FollowShown, Last
  <2>1. \A x \in Pending : x.payload # Ongoing
    <3> HIDE DEF d
    <3> QED
      BY <1>2
  <2>2. next = 0
    BY <1>2, <1>3
  <2>3. At(Ongoing, Last) \in Pending \/ Past(At(Ongoing, Last))
    <3>1. Last \in 0..Last
      BY <1>3
    <3> QED
      BY <2>2, <3>1 DEF FollowInv, FollowSent
  <2>4. At(Ongoing, Last) \notin Pending
    BY <2>1 DEF At
  <2>5. Earlier(At(Ongoing, Last), d)
    BY <1>2, <2>3, <2>4 DEF Past
  <2>6. d.payload.session = session /\ d.payload.frame = frame
    <3> HIDE DEF d
    <3> QED
      BY <1>2, <1>3, <2>5 DEF Earlier, At
  <2>7. d.payload = Ongoing
    BY <1>2, <1>3, <2>6
  <2> QED
    BY <1>2, <2>7
<1> QED
  BY <1>4, <1>5

\* A finished frame's chunks stay pending or become past.
LEMMA SentAfter ==
    ASSUME StateInv, OrderInv, FollowInv, Reliable, NEW m \in net, Deliver(m),
           [Next]_vars
    PROVE  FollowSent'
<1>1. /\ UNCHANGED <<session, frame, next>> /\ Ongoing' = Ongoing
  BY DEF Deliver, agentVars, Ongoing
<1> DEFINE d == At(m.chunk.payload, m.chunk.index)
<1>2. /\ Pending \subseteq Pending' \cup {d} /\ \A y \in Pending' : Earlier(d, y)
  BY DeliverPending
<1>3. \A x \in Places : Past(x) => \A y \in Pending' : Earlier(x, y)
  BY PendingStep
<1> SUFFICES ASSUME frame > 0, next = 0, NEW i \in 0..Last
             PROVE  \/ At(Ongoing, i) \in Pending'
                    \/ \A y \in Pending' : Earlier(At(Ongoing, i), y)
  BY <1>1 DEF FollowSent, Past, Last
<1>4. At(Ongoing, i) \in Pending \/ Past(At(Ongoing, i))
  BY DEF FollowInv, FollowSent
<1>5. At(Ongoing, i) \in Places
  BY OngoingPlaces
<1> HIDE DEF d
<1> QED
  BY <1>2, <1>3, <1>4, <1>5

\* Every step keeps it.
LEMMA FollowStep ==
    ASSUME StateInv, OrderInv, FollowInv, [Next]_vars
    PROVE  FollowInv'
<1>1. Reliable' = Reliable
  BY DEF Next, vars, Reliable
<1> SUFFICES ASSUME Reliable PROVE FollowInv'
  BY <1>1 DEF FollowInv
<1>2. FollowTime'
  BY FollowTimeKept DEF FollowInv
<1>3. CASE \/ StartFrame \/ SendNext \/ RestartAgent
           \/ TimePasses \/ UNCHANGED vars
  BY <1>2, <1>3, FollowKept DEF FollowInv
<1>4. ASSUME NEW m \in net, Deliver(m), UNCHANGED network PROVE FollowInv'
  <2>1. FollowAhead' /\ FollowSent'
    BY <1>4, FollowAheadAfter, SentAfter
  <2>2. FollowPart' /\ FollowShown'
    BY <1>4, FollowArrives, OtherArrives
  <2> QED
    BY <1>2, <2>1, <2>2 DEF FollowInv
<1>5. ASSUME NEW m \in net, Lose(m) PROVE FALSE
  BY <1>5 DEF Lose
<1> QED
  BY <1>3, <1>4, <1>5 DEF Next, vars

\* Over a network that keeps order, a restarted agent is shown again: once it has
\* run for ErrorAge, whatever its predecessors left half-sent or on display,
\* every frame it completes is the one shown.
THEOREM DisplayAlwaysFollows == Spec => []DisplayFollowsAgent
<1>1. Init /\ StateInv => FollowInv
  <2> SUFFICES ASSUME Init, StateInv PROVE FollowInv
    OBVIOUS
  <2>1. /\ candidate = None /\ latestFrame = None /\ net = {} /\ frame = 0
        /\ session = 1 /\ began = 0 /\ now = 0 /\ settled = TRUE
    BY DEF Init, HostIdle
  <2> QED
    BY <2>1 DEF FollowInv, FollowTime, FollowAhead, FollowSent, FollowPart, FollowShown
<1>2. StateInv /\ OrderInv /\ FollowInv /\ [Next]_vars => FollowInv'
  BY FollowStep
<1>3. StateInv /\ OrderInv /\ FollowInv => DisplayFollowsAgent
  <2> SUFFICES ASSUME StateInv, OrderInv, FollowInv, Reliable, net = {}, next = 0
               PROVE  \A x \in Pending : x.payload # Ongoing
    BY DEF FollowInv, FollowShown, DisplayFollowsAgent, Ongoing
  <2> QED
    BY OngoingPlaces DEF Pending
<1> QED
  BY <1>1, <1>2, <1>3, OrderInvariance, PTL DEF Spec
=============================================================================

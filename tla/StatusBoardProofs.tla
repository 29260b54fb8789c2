------------------------- MODULE StatusBoardProofs -------------------------
(* The status board for every number of UAVs, packets, listeners' delays    *)
(* and event streams: its limit, its rates and its levels.                  *)
EXTENDS StatusBoard, FiniteSetTheorems, SequenceTheorems, WellFoundedInduction, TLAPS

----------------------------------------------------------------------------
\* RateMeter

\* A set of natural numbers that is not empty has a least element.
LEMMA LeastElement ==
    ASSUME NEW S, S \subseteq Nat, S # {}
    PROVE  \E x \in S : \A y \in S : x <= y
<1> DEFINE Less == {ss \in Nat \X Nat : ss[1] < ss[2]}
<1>1. IsWellFoundedOn(Less, Nat)
  BY NatLessThanWellFounded, Zenon DEF OpToRel
<1>2. PICK x \in S : \A y \in S : <<y, x>> \notin Less
  BY <1>1, WFMin, Zenon
<1>3. ASSUME NEW y \in S PROVE ~(y < x)
  <2>1. <<y, x>> \in Nat \X Nat /\ <<y, x>>[1] = y /\ <<y, x>>[2] = x
    OBVIOUS
  <2> QED
    BY <1>2, <2>1, Zenon
<1> QED
  BY <1>3

\* A trim cuts off the samples before the first that is young enough.
LEMMA TrimCuts ==
    ASSUME NEW s \in Seq(Times), NEW t \in Int
    PROVE  \E d \in 0..Len(s) :
              /\ Trimmed(s, t) = SubSeq(s, d + 1, Len(s))
              /\ \A i \in 1..d : s[i] < t - Window
              /\ d < Len(s) => s[d + 1] >= t - Window
<1> DEFINE kept == {i \in 1..Len(s) + 1 : i > Len(s) \/ s[i] >= t - Window}
           k == CHOOSE i \in kept : \A j \in kept : i <= j
<1>1. Len(s) \in Nat /\ \A i \in 1..Len(s) : s[i] \in Int
  BY SMTT(60), BoardAssumption DEF Times
<1>2. kept \subseteq Nat /\ Len(s) + 1 \in kept
  BY <1>1
<1>3. k \in kept /\ \A j \in kept : k <= j
  <2>1. \E x \in kept : \A y \in kept : x <= y
    BY <1>2, LeastElement
  <2> HIDE DEF kept
  <2> QED
    BY <2>1
<1>4. Trimmed(s, t) = SubSeq(s, k, Len(s))
  BY DEF Trimmed
<1> HIDE DEF k
<1>5. k \in 1..Len(s) + 1 /\ (k > Len(s) \/ s[k] >= t - Window)
  BY <1>3
<1>6. Window \in Nat
  BY BoardAssumption
<1>7. \A i \in 1..(k - 1) : s[i] < t - Window
  <2> TAKE i \in 1..(k - 1)
  <2>1. i \in 1..Len(s) + 1 /\ i \notin kept
    <3> HIDE DEF kept
    <3>1. ~(k <= i) /\ i \in 1..Len(s) + 1
      BY <1>1, <1>5
    <3> QED
      BY <1>3, <3>1
  <2>2. ~(i > Len(s)) /\ ~(s[i] >= t - Window)
    BY <2>1, Zenon
  <2>3. i \in 1..Len(s)
    BY <1>1, <2>1, <2>2
  <2> QED
    BY <1>1, <1>6, <2>2, <2>3
<1>8. k - 1 \in 0..Len(s) /\ (k - 1) + 1 = k
  BY <1>1, <1>5
<1>9. k - 1 < Len(s) => s[k] >= t - Window
  BY <1>1, <1>5
<1> QED
  BY <1>4, <1>7, <1>8, <1>9

\* What is left of a sequence without its first elements.
LEMMA CutProperties ==
    ASSUME NEW s \in Seq(Times), NEW d \in 0..Len(s)
    PROVE  LET r == SubSeq(s, d + 1, Len(s)) IN
           /\ r \in Seq(Times) /\ DOMAIN r = 1..(Len(s) - d)
           /\ \A i \in 1..(Len(s) - d) : r[i] = s[i + d]
<1>1. Len(s) \in Nat /\ \A i \in 1..Len(s) : s[i] \in Times
  OBVIOUS
<1>2. \A i \in (d + 1)..Len(s) : s[i] \in Times
  BY <1>1
<1> DEFINE r == SubSeq(s, d + 1, Len(s))
<1>3. /\ r \in Seq(Times)
      /\ Len(r) = IF d + 1 <= Len(s) THEN Len(s) - (d + 1) + 1 ELSE 0
      /\ \A i \in 1..(Len(s) - (d + 1) + 1) : r[i] = s[(d + 1) + i - 1]
  BY <1>1, <1>2, SubSeqProperties
<1> HIDE DEF r
<1>4. DOMAIN r = 1..Len(r) /\ Len(r) = Len(s) - d
  BY <1>1, <1>3
<1>5. \A i \in 1..(Len(s) - d) : r[i] = s[i + d]
  BY <1>1, <1>3
<1> QED
  BY <1>3, <1>4, <1>5 DEF r

Young(s, T) == {i \in DOMAIN s : s[i] >= T}

\* A trim at time t drops nothing younger than Window before t, keeps the order
\* of the rest, and of samples in order nothing that is older.
LEMMA TrimKeeps ==
    ASSUME NEW s \in Seq(Times), NEW t \in Int, NEW T \in Int, T >= t - Window
    PROVE  /\ Trimmed(s, t) \in Seq(Times)
           /\ Cardinality(Young(Trimmed(s, t), T)) = Cardinality(Young(s, T))
<1>1. PICK d \in 0..Len(s) :
         /\ Trimmed(s, t) = SubSeq(s, d + 1, Len(s))
         /\ \A i \in 1..d : s[i] < t - Window
  BY TrimCuts
<1> DEFINE r == SubSeq(s, d + 1, Len(s))
           A == Young(s, T)
           B == Young(r, T)
           f == [i \in B |-> i + d]
<1>2. /\ Len(s) \in Nat /\ DOMAIN s = 1..Len(s)
      /\ \A i \in 1..Len(s) : s[i] \in Times /\ s[i] \in Int
      /\ Window \in Nat
  BY SMTT(60), BoardAssumption DEF Times
<1>3. /\ r \in Seq(Times) /\ DOMAIN r = 1..(Len(s) - d)
      /\ \A i \in 1..(Len(s) - d) : r[i] = s[i + d]
  BY <1>2, CutProperties
<1> HIDE DEF r
<1>4. IsFiniteSet(A) /\ IsFiniteSet(B)
  <2>1. A \subseteq 1..Len(s) /\ B \subseteq 1..Len(s)
    BY <1>2, <1>3 DEF Young
  <2>2. IsFiniteSet(1..Len(s))
    BY <1>2, FS_Interval
  <2> HIDE DEF A, B
  <2> QED
    BY <2>1, <2>2, FS_Subset
<1>5. f \in Bijection(B, A)
  <2>1. \A i \in B : i \in Int /\ i + d \in A
    BY <1>2, <1>3 DEF Young
  <2>2. f \in [B -> A] /\ \A i, j \in B : f[i] = f[j] => i = j
    BY <2>1
  <2>3. ASSUME NEW j \in A PROVE \E i \in B : f[i] = j
    <3>1. j \in 1..Len(s) /\ s[j] >= T /\ j \notin 1..d
      BY <1>1, <1>2 DEF Young
    <3>2. j - d \in B /\ (j - d) + d = j
      BY <1>2, <1>3, <3>1 DEF Young
    <3> QED
      BY <3>2
  <2> HIDE DEF f, A, B
  <2> QED
    BY <2>2, <2>3 DEF Bijection, Injection, Surjection, IsInjective
<1>6. Cardinality(A) = Cardinality(B)
  BY <1>4, <1>5, FS_Bijection DEF ExistsBijection
<1> QED
  BY <1>1, <1>3, <1>6 DEF r

InOrder(s) == \A i, j \in DOMAIN s : i <= j => s[i] <= s[j]

\* Trimming keeps the order, and only what is in the window.
LEMMA TrimOrdered ==
    ASSUME NEW s \in Seq(Times), NEW t \in Int, InOrder(s)
    PROVE  /\ InOrder(Trimmed(s, t))
           /\ \A i \in DOMAIN Trimmed(s, t) :
                 /\ Trimmed(s, t)[i] >= t - Window
                 /\ \E j \in DOMAIN s : Trimmed(s, t)[i] = s[j]
<1>1. PICK d \in 0..Len(s) :
         /\ Trimmed(s, t) = SubSeq(s, d + 1, Len(s))
         /\ d < Len(s) => s[d + 1] >= t - Window
  BY TrimCuts
<1> DEFINE r == SubSeq(s, d + 1, Len(s))
<1>2. /\ Len(s) \in Nat /\ DOMAIN s = 1..Len(s)
      /\ \A i \in 1..Len(s) : s[i] \in Times /\ s[i] \in Int
      /\ Window \in Nat
  BY SMTT(60), BoardAssumption DEF Times
<1>3. /\ DOMAIN r = 1..(Len(s) - d)
      /\ \A i \in 1..(Len(s) - d) : r[i] = s[i + d]
  BY <1>2, CutProperties
<1> HIDE DEF r
<1>4. InOrder(r)
  <2> SUFFICES ASSUME NEW i \in DOMAIN r, NEW j \in DOMAIN r, i <= j
               PROVE  r[i] <= r[j]
    BY DEF InOrder
  <2>1. i + d \in DOMAIN s /\ j + d \in DOMAIN s /\ i + d <= j + d
    BY <1>2, <1>3
  <2> QED
    BY <1>3, <2>1 DEF InOrder
<1>5. ASSUME NEW i \in DOMAIN r
      PROVE  r[i] >= t - Window /\ \E j \in DOMAIN s : r[i] = s[j]
  <2>1. i + d \in DOMAIN s /\ d + 1 \in DOMAIN s /\ d + 1 <= i + d
    BY <1>2, <1>3
  <2>2. s[d + 1] <= s[i + d] /\ r[i] = s[i + d] /\ d < Len(s)
    BY <1>2, <1>3, <2>1 DEF InOrder
  <2> QED
    BY <1>1, <1>2, <2>1, <2>2
<1> QED
  BY <1>1, <1>4, <1>5 DEF r

\* What a meter holds after a sample is added.
LEMMA AddedKeeps ==
    ASSUME NEW s \in Seq(Times), NEW t \in Times, NEW T \in Int, T >= t - Window
    PROVE  Cardinality(Young(Added(s, t), T)) =
             Cardinality(Young(s, T)) + (IF t >= T THEN 1 ELSE 0)
<1> DEFINE r == Append(s, t)
           A == Young(s, T)
           B == Young(r, T)
<1>1. /\ r \in Seq(Times) /\ t \in Int /\ Len(s) \in Nat
      /\ DOMAIN s = 1..Len(s) /\ DOMAIN r = 1..(Len(s) + 1)
      /\ r[Len(s) + 1] = t /\ \A i \in 1..Len(s) : r[i] = s[i]
  BY BoardAssumption DEF Times
<1>2. Cardinality(Young(Added(s, t), T)) = Cardinality(B)
  BY <1>1, TrimKeeps DEF Added
<1> HIDE DEF r
<1>3. IsFiniteSet(A) /\ Len(s) + 1 \notin A
  <2>1. A \subseteq 1..Len(s) /\ IsFiniteSet(1..Len(s))
    BY <1>1, FS_Interval DEF Young
  <2>2. IsFiniteSet(A)
    BY <2>1, FS_Subset
  <2> HIDE DEF A
  <2> QED
    BY <1>1, <2>1, <2>2
<1>4. CASE t >= T
  <2>1. B = A \cup {Len(s) + 1}
    BY <1>1, <1>4 DEF Young
  <2> HIDE DEF A, B
  <2>2. Cardinality(B) = Cardinality(A) + 1
    BY <1>3, <2>1, FS_AddElement
  <2> QED
    BY <1>2, <1>4, <2>2 DEF A, B
<1>5. CASE ~(t >= T)
  <2>1. B = A
    BY <1>1, <1>5 DEF Young
  <2>2. Cardinality(A) \in Nat
    BY <1>3, FS_CardinalityType
  <2> HIDE DEF A, B
  <2> QED
    BY <1>2, <1>5, <2>1, <2>2 DEF A, B
<1> QED
  BY <1>4, <1>5

\* So does counting a packet that is not older than the others.
LEMMA AddedOrdered ==
    ASSUME NEW s \in Seq(Times), NEW t \in Times,
           InOrder(s), \A i \in DOMAIN s : s[i] <= t
    PROVE  /\ Added(s, t) \in Seq(Times) /\ InOrder(Added(s, t))
           /\ \A i \in DOMAIN Added(s, t) : Added(s, t)[i] <= t
<1> DEFINE r == Append(s, t)
<1>1. /\ r \in Seq(Times) /\ t \in Int /\ Len(s) \in Nat
      /\ DOMAIN s = 1..Len(s) /\ DOMAIN r = 1..(Len(s) + 1)
      /\ r[Len(s) + 1] = t /\ \A i \in 1..Len(s) : r[i] = s[i]
  BY BoardAssumption DEF Times
<1>2. Window \in Nat
  BY BoardAssumption
<1>3. Added(s, t) = Trimmed(r, t)
  BY DEF Added
<1> HIDE DEF r
<1>4. InOrder(r) /\ \A i \in DOMAIN r : r[i] <= t
  <2>1. \A i \in DOMAIN r : i = Len(s) + 1 \/ i \in DOMAIN s
    BY <1>1
  <2>2. \A i \in DOMAIN r : r[i] <= t
    BY <1>1, <2>1
  <2>3. ASSUME NEW i \in DOMAIN r, NEW j \in DOMAIN r, i <= j PROVE r[i] <= r[j]
    <3>1. CASE j = Len(s) + 1
      BY <1>1, <2>2, <3>1
    <3>2. CASE j \in DOMAIN s
      <4>1. i \in DOMAIN s
        BY <1>1, <2>3, <3>2
      <4> QED
        BY <1>1, <2>3, <3>2, <4>1 DEF InOrder
    <3> QED
      BY <2>1, <3>1, <3>2
  <2> QED
    BY <2>2, <2>3 DEF InOrder
<1>5. Trimmed(r, t) \in Seq(Times)
  <2>1. t >= t - Window
    BY <1>1, <1>2
  <2> QED
    BY <1>1, <2>1, TrimKeeps
<1>6. /\ InOrder(Trimmed(r, t))
      /\ \A i \in DOMAIN Trimmed(r, t) : \E j \in DOMAIN r : Trimmed(r, t)[i] = r[j]
  BY <1>1, <1>4, TrimOrdered
<1> QED
  BY <1>3, <1>4, <1>5, <1>6

----------------------------------------------------------------------------
\* The board

\* No packet counted is later than one a listener is about to have counted,
\* and neither they nor a clock that has been read are later than the present.
UpTo(k, t) ==
    /\ \A i \in DOMAIN heard[k] : heard[k][i].at <= t
    /\ \A u \in Uavs : \A i \in DOMAIN rx[u][k] : rx[u][k][i] <= t

OrderInv ==
    /\ \A k \in Kinds :
          /\ UpTo(k, clock) /\ listener[k].at <= clock
          /\ listener[k] # Idle => UpTo(k, listener[k].at)
          /\ \A u \in Uavs : InOrder(rx[u][k])
    /\ \A s \in Streams : nowMs[s] <= clock /\ now[s] <= clock

\* The packets of a UAV heard since T.
Since(h, u, T) == {i \in DOMAIN h : h[i].uav = u /\ h[i].at >= T}

\* However often it has been trimmed, a meter has all samples of its window.
CountInv ==
    \A u \in Uavs, k \in Kinds : \A T \in (0 - Window)..MaxClock :
        T >= clock - Window =>
            Cardinality(Since(heard[k], u, T)) = Cardinality(Young(rx[u][k], T))

\* The status of a UAV is dated by the latest of its packets.
StatusInv ==
    \A u \in Uavs :
        LET packets == {i \in DOMAIN heard["status"] : heard["status"][i].uav = u}
        IN  /\ statusAt[u] = None <=> packets = {}
            /\ statusAt[u] # None =>
                  /\ \E i \in packets : heard["status"][i].at = statusAt[u]
                  /\ \A i \in packets : heard["status"][i].at <= statusAt[u]

Levels == {"missing", "error", "warn", "ok"}

\* No client has been shown a status newer than the one known.
ShownInv ==
    /\ shown \in [Streams -> [Uavs -> [status : Times \cup {None}, level : Levels]]]
    /\ \A s \in Streams, u \in Uavs : shown[s][u].status # None =>
          statusAt[u] # None /\ shown[s][u].status <= statusAt[u]

BoardInv == TypeOK /\ OrderInv /\ CountInv /\ StatusInv /\ ShownInv

Packet == [uav : Uavs, at : Times]

\* What the clock and the markers are.
LEMMA TimesAre ==
    /\ Times \subseteq Nat /\ MaxClock \in Nat /\ Window \in Nat /\ 0 \in Times
    /\ None \notin Times /\ None \notin Uavs
    /\ \A x \in Times : x \in Int /\ x >= 0
BY BoardAssumption DEF Times

\* What the parts of the invariant say of the types.
LEMMA TypesOf ==
    ASSUME BoardInv
    PROVE  /\ clock \in Times
           /\ rx \in [Uavs -> [Kinds -> Seq(Times)]] /\ heard \in [Kinds -> Seq(Packet)]
           /\ statusAt \in [Uavs -> Times \cup {None}]
           /\ listener \in [Kinds -> Packet \cup {Idle}]
           /\ \A k \in Kinds : /\ listener[k].at \in Times
                               /\ listener[k] # Idle => listener[k] \in Packet
           /\ nowMs \in [Streams -> Times] /\ now \in [Streams -> Times]
<1>1. /\ clock \in Times
      /\ rx \in [Uavs -> [Kinds -> Seq(Times)]] /\ heard \in [Kinds -> Seq(Packet)]
      /\ statusAt \in [Uavs -> Times \cup {None}]
      /\ listener \in [Kinds -> Packet \cup {Idle}]
      /\ nowMs \in [Streams -> Times] /\ now \in [Streams -> Times]
  BY DEF BoardInv, TypeOK, Packet
<1>2. \A k \in Kinds : /\ listener[k].at \in Times
                       /\ listener[k] # Idle => listener[k] \in Packet
  <2>1. Idle.at \in Times /\ \A p \in Packet : p.at \in Times
    BY TimesAre DEF Idle, Packet
  <2>2. \A k \in Kinds : listener[k] \in Packet \cup {Idle}
    BY <1>1
  <2> QED
    BY <2>1, <2>2
<1> QED
  BY <1>1, <1>2

\* The history with one packet more.
LEMMA HeardAppend ==
    ASSUME NEW h \in Seq(Packet), NEW p \in Packet
    PROVE  /\ Append(h, p) \in Seq(Packet) /\ Len(h) \in Nat
           /\ DOMAIN h = 1..Len(h) /\ DOMAIN Append(h, p) = 1..(Len(h) + 1)
           /\ \A i \in DOMAIN h : Append(h, p)[i] = h[i] /\ h[i] \in Packet
           /\ Append(h, p)[Len(h) + 1] = p
OBVIOUS

\* A packet is of a UAV and a time.
LEMMA PacketAt == \A p \in Packet : p.uav \in Uavs /\ p.at \in Times /\ p.at \in Int
<1> TAKE p \in Packet
<1>1. p.uav \in Uavs /\ p.at \in Times
  BY DEF Packet
<1> QED
  BY <1>1, TimesAre

\* One more packet was heard: it counts from its time on.
LEMMA SinceAppend ==
    ASSUME NEW h \in Seq(Packet), NEW p \in Packet, NEW u \in Uavs, NEW T \in Int
    PROVE  /\ Cardinality(Since(h, u, T)) \in Nat
           /\ Cardinality(Since(Append(h, p), u, T)) =
                Cardinality(Since(h, u, T)) + (IF p.uav = u /\ p.at >= T THEN 1 ELSE 0)
<1> DEFINE r == Append(h, p)
           A == Since(h, u, T)
           B == Since(r, u, T)
<1>1. /\ Len(h) \in Nat /\ DOMAIN h = 1..Len(h) /\ DOMAIN r = 1..(Len(h) + 1)
      /\ \A i \in DOMAIN h : r[i] = h[i] /\ h[i] \in Packet
      /\ r[Len(h) + 1] = p
  BY HeardAppend
<1> HIDE DEF r
<1>2. IsFiniteSet(A) /\ Len(h) + 1 \notin A
  <2>1. A \subseteq 1..Len(h) /\ IsFiniteSet(1..Len(h))
    BY <1>1, FS_Interval DEF Since
  <2>2. IsFiniteSet(A)
    BY <2>1, FS_Subset
  <2> HIDE DEF A
  <2> QED
    BY <1>1, <2>1, <2>2
<1>3. Cardinality(A) \in Nat
  <2> HIDE DEF A
  <2> QED
    BY <1>2, FS_CardinalityType
<1>4. CASE p.uav = u /\ p.at >= T
  <2>1. B = A \cup {Len(h) + 1}
    BY <1>1, <1>4 DEF Since
  <2> HIDE DEF A, B
  <2>2. Cardinality(B) = Cardinality(A) + 1
    BY <1>2, <2>1, FS_AddElement
  <2> QED
    BY <1>3, <1>4, <2>2 DEF A, B, r
<1>5. CASE ~(p.uav = u /\ p.at >= T)
  <2>1. B = A
    BY <1>1, <1>5 DEF Since
  <2> HIDE DEF A, B
  <2> QED
    BY <1>3, <1>5, <2>1 DEF A, B, r
<1> QED
  BY <1>4, <1>5

----------------------------------------------------------------------------
\* A packet is counted under the lock.

\* What the lock's holder does to the board with packet p of kind k.
Counted(k, p) ==
    /\ p \in Packet /\ p = listener[k]
    /\ known' = known \cup {p.uav} /\ clock' = clock
    /\ listener' \in [Kinds -> Packet \cup {Idle}]
    /\ listener'[k] = Idle /\ \A j \in Kinds : j # k => listener'[j] = listener[j]
    /\ heard' \in [Kinds -> Seq(Packet)]
    /\ heard'[k] = Append(heard[k], p)
    /\ \A j \in Kinds : j # k => heard'[j] = heard[j]
    /\ rx' \in [Uavs -> [Kinds -> Seq(Times)]]
    /\ rx'[p.uav][k] = Added(rx[p.uav][k], p.at)
    /\ \A v \in Uavs, j \in Kinds : v # p.uav \/ j # k => rx'[v][j] = rx[v][j]
    /\ statusAt' \in [Uavs -> Times \cup {None}]
    /\ k = "status" => statusAt'[p.uav] = p.at
    /\ \A v \in Uavs : k # "status" \/ v # p.uav => statusAt'[v] = statusAt[v]
    /\ unwritable' \subseteq unwritable \cup {p.uav}
    /\ UNCHANGED stream

\* Neither it nor the meter it goes to has anything later.
LEMMA LatestOfItsKind ==
    ASSUME BoardInv, NEW k \in Kinds, listener[k] # Idle
    PROVE  /\ listener[k] \in Packet /\ listener[k].uav \in Uavs
           /\ listener[k].at \in Times /\ listener[k].at <= clock
           /\ \A i \in DOMAIN heard[k] : heard[k][i].at <= listener[k].at
           /\ \A u \in Uavs : /\ rx[u][k] \in Seq(Times) /\ InOrder(rx[u][k])
                              /\ \A i \in DOMAIN rx[u][k] : rx[u][k][i] <= listener[k].at
BY SMTT(60), TypesOf, PacketAt DEF BoardInv, OrderInv, UpTo

\* Of a packet that is not refused, everything is counted.
LEMMA IngestCounts ==
    ASSUME BoardInv, NEW k \in Kinds, Ingest(k), ~Refused(listener[k].uav)
    PROVE  Counted(k, listener[k])
<1> DEFINE p == listener[k]
           u == p.uav
           t == p.at
<1>1. /\ listener[k] # Idle
      /\ known' = known \cup {u} /\ clock' = clock
      /\ listener' = [listener EXCEPT ![k] = Idle]
      /\ heard' = [heard EXCEPT ![k] = Append(@, listener[k])]
      /\ rx' = [rx EXCEPT ![u][k] = Added(@, t)]
      /\ statusAt' = Dated(u, k, t) /\ unwritable' \in StatusMayBe(u, k)
      /\ UNCHANGED stream
  BY DEF Ingest
<1>2. u \in Uavs /\ t \in Times /\ p \in Packet
  BY <1>1, LatestOfItsKind
<1>3. Added(rx[u][k], t) \in Seq(Times)
  BY <1>1, <1>2, LatestOfItsKind, AddedOrdered
<1>4. /\ rx \in [Uavs -> [Kinds -> Seq(Times)]] /\ heard \in [Kinds -> Seq(Packet)]
      /\ statusAt \in [Uavs -> Times \cup {None}]
      /\ listener \in [Kinds -> Packet \cup {Idle}]
  BY TypesOf
<1>5. Append(heard[k], p) \in Seq(Packet)
  BY <1>2, <1>4, HeardAppend
<1> HIDE DEF u, t
<1>6. /\ rx' \in [Uavs -> [Kinds -> Seq(Times)]]
      /\ rx'[u][k] = Added(rx[u][k], t)
      /\ \A v \in Uavs, j \in Kinds : v # u \/ j # k => rx'[v][j] = rx[v][j]
  BY <1>1, <1>2, <1>3, <1>4
<1>7. /\ heard'[k] = Append(heard[k], p)
      /\ heard' \in [Kinds -> Seq(Packet)]
      /\ \A j \in Kinds : j # k => heard'[j] = heard[j]
  BY <1>1, <1>4, <1>5
<1>8. /\ statusAt' \in [Uavs -> Times \cup {None}]
      /\ k = "status" => statusAt'[u] = t
      /\ \A v \in Uavs : k # "status" \/ v # u => statusAt'[v] = statusAt[v]
  BY <1>1, <1>2, <1>4 DEF Dated
<1>9. /\ listener' \in [Kinds -> Packet \cup {Idle}] /\ listener'[k] = Idle
      /\ \A j \in Kinds : j # k => listener'[j] = listener[j]
  BY <1>1, <1>4
<1>10. unwritable' \subseteq unwritable \cup {u}
  BY <1>1 DEF StatusMayBe
<1> QED
  BY <1>1, <1>2, <1>6, <1>7, <1>8, <1>9, <1>10 DEF u, t, Counted

\* Counting a packet keeps the types,
LEMMA CountedTypes ==
    ASSUME BoardInv, NEW k \in Kinds, NEW p, listener[k] # Idle, Counted(k, p),
           ~Refused(p.uav)
    PROVE  TypeOK'
<1>1. /\ IsFiniteSet(known) /\ known \subseteq Uavs /\ Expected \subseteq known
      /\ Cardinality(known) <= MaxTracked
  BY BoardAssumption, FS_Subset DEF BoardInv, TypeOK
<1>2. Cardinality(known) \in Nat /\ MaxTracked \in Nat
  BY <1>1, FS_CardinalityType, BoardAssumption
<1>3. known' = known \cup {p.uav} /\ p.uav \in Uavs
  BY PacketAt DEF Counted
<1>4. Cardinality(known') <= MaxTracked
  <2>1. CASE p.uav \in known
    <3>1. known' = known
      BY <1>3, <2>1
    <3> QED
      BY <1>1, <3>1
  <2>2. CASE p.uav \notin known
    <3>1. Cardinality(known') = Cardinality(known) + 1
      BY <1>1, <1>3, <2>2, FS_AddElement
    <3>2. ~(Cardinality(known) >= MaxTracked)
      BY <2>2 DEF Refused
    <3> QED
      BY <1>2, <3>1, <3>2
  <2> QED
    BY <2>1, <2>2
<1>5. Expected \subseteq known' /\ known' \subseteq Uavs /\ unwritable' \subseteq known'
  <2>1. unwritable \subseteq known /\ unwritable' \subseteq unwritable \cup {p.uav}
    BY DEF BoardInv, TypeOK, Counted
  <2> QED
    BY <1>1, <1>3, <2>1
<1>6. /\ clock' \in Times
      /\ rx' \in [Uavs -> [Kinds -> Seq(Times)]] /\ heard' \in [Kinds -> Seq(Packet)]
      /\ statusAt' \in [Uavs -> Times \cup {None}]
      /\ listener' \in [Kinds -> Packet \cup {Idle}]
  BY TypesOf DEF Counted
<1>7. /\ pc' \in [Streams -> {"ms", "now", "lock", "closed", "aborted"}]
      /\ nowMs' \in [Streams -> Times] /\ now' \in [Streams -> Times]
      /\ client' \in [Streams -> {"reading", "left", "reset"}]
  BY DEF Counted, stream, BoardInv, TypeOK
<1> QED
  BY <1>4, <1>5, <1>6, <1>7 DEF TypeOK, Packet

\* the order of the timestamps,
LEMMA CountedOrder ==
    ASSUME BoardInv, NEW k \in Kinds, NEW p, listener[k] # Idle, Counted(k, p)
    PROVE  OrderInv'
<1>1. /\ p \in Packet /\ p = listener[k] /\ p.uav \in Uavs /\ p.at \in Int /\ p.at \in Times
      /\ clock \in Int /\ clock' = clock /\ p.at <= clock
  BY LatestOfItsKind, TypesOf, TimesAre, PacketAt DEF Counted
<1>2. \A j \in Kinds : j # k => /\ heard'[j] = heard[j] /\ listener'[j] = listener[j]
                                /\ \A v \in Uavs : rx'[v][j] = rx[v][j]
  BY DEF Counted
<1>3. ASSUME NEW j \in Kinds, j # k
      PROVE  /\ UpTo(j, clock)' /\ listener'[j].at <= clock'
             /\ listener'[j] # Idle => UpTo(j, listener[j].at)'
             /\ \A u \in Uavs : InOrder(rx'[u][j])
  BY <1>1, <1>2, <1>3 DEF BoardInv, OrderInv, UpTo
<1>4. /\ InOrder(rx'[p.uav][k])
      /\ \A i \in DOMAIN rx'[p.uav][k] : rx'[p.uav][k][i] <= clock
  <2>1. /\ rx'[p.uav][k] = Added(rx[p.uav][k], p.at)
        /\ rx'[p.uav][k] \in Seq(Times)
    BY <1>1 DEF Counted
  <2>2. /\ InOrder(rx'[p.uav][k])
        /\ \A i \in DOMAIN rx'[p.uav][k] : rx'[p.uav][k][i] <= p.at
    BY <1>1, <2>1, LatestOfItsKind, AddedOrdered
  <2>3. \A i \in DOMAIN rx'[p.uav][k] : rx'[p.uav][k][i] \in Int
    <3>1. \A i \in DOMAIN rx'[p.uav][k] : rx'[p.uav][k][i] \in Times
      BY <2>1
    <3> QED
      BY <3>1, TimesAre
  <2> QED
    BY <1>1, <2>2, <2>3
<1>5. \A i \in DOMAIN heard'[k] : heard'[k][i].at <= clock
  <2>1. /\ heard'[k] = Append(heard[k], p) /\ heard[k] \in Seq(Packet)
        /\ \A i \in DOMAIN heard[k] : heard[k][i].at <= clock
    BY TypesOf DEF Counted, BoardInv, OrderInv, UpTo
  <2>2. /\ Len(heard[k]) \in Nat
        /\ DOMAIN heard[k] = 1..Len(heard[k]) /\ DOMAIN heard'[k] = 1..(Len(heard[k]) + 1)
        /\ \A i \in DOMAIN heard[k] : heard'[k][i] = heard[k][i]
        /\ heard'[k][Len(heard[k]) + 1] = p
    BY <1>1, <2>1, HeardAppend
  <2> QED
    BY <1>1, <2>1, <2>2
<1>6. UpTo(k, clock)' /\ \A u \in Uavs : InOrder(rx'[u][k])
  <2>1. \A u \in Uavs : u # p.uav =>
           /\ rx'[u][k] = rx[u][k] /\ InOrder(rx[u][k])
           /\ \A i \in DOMAIN rx[u][k] : rx[u][k][i] <= clock
    BY DEF Counted, BoardInv, OrderInv, UpTo
  <2>2. \A u \in Uavs : \A i \in DOMAIN rx'[u][k] : rx'[u][k][i] <= clock
    BY <1>4, <2>1
  <2>3. \A u \in Uavs : InOrder(rx'[u][k])
    BY <1>4, <2>1
  <2> QED
    BY <1>1, <1>5, <2>2, <2>3 DEF UpTo
<1>7. listener'[k] = Idle /\ listener'[k].at <= clock'
  BY <1>1, TypesOf, TimesAre DEF Counted, Idle
<1>8. \A s \in Streams : nowMs'[s] <= clock' /\ now'[s] <= clock'
  BY DEF Counted, stream, BoardInv, OrderInv
<1> QED
  BY <1>3, <1>6, <1>7, <1>8 DEF OrderInv

\* and the number of those in every window.
LEMMA CountedCounts ==
    ASSUME BoardInv, NEW k \in Kinds, NEW p, listener[k] # Idle, Counted(k, p)
    PROVE  CountInv'
<1> SUFFICES ASSUME NEW u \in Uavs, NEW j \in Kinds, NEW T \in (0 - Window)..MaxClock,
                    T >= clock' - Window
             PROVE  Cardinality(Since(heard'[j], u, T)) = Cardinality(Young(rx'[u][j], T))
  BY DEF CountInv
<1>1. /\ p \in Packet /\ p = listener[k] /\ p.uav \in Uavs /\ p.at \in Times /\ p.at \in Int
      /\ clock \in Int /\ clock' = clock /\ p.at <= clock /\ Window \in Nat /\ T \in Int
  BY LatestOfItsKind, TypesOf, TimesAre, PacketAt DEF Counted
<1>2. Cardinality(Since(heard[j], u, T)) = Cardinality(Young(rx[u][j], T))
  BY <1>1 DEF BoardInv, CountInv
<1>3. CASE j # k
  BY <1>2, <1>3 DEF Counted
<1>4. CASE j = k
  <2>1. /\ heard'[k] = Append(heard[k], p) /\ heard[k] \in Seq(Packet)
        /\ rx[u][k] \in Seq(Times)
    BY TypesOf DEF Counted
  <2>2. /\ Cardinality(Since(heard[k], u, T)) \in Nat
        /\ Cardinality(Since(heard'[k], u, T)) =
             Cardinality(Since(heard[k], u, T)) + (IF p.uav = u /\ p.at >= T THEN 1 ELSE 0)
    <3>1. ASSUME NEW h \in Seq(Packet), NEW g, g = Append(h, p)
          PROVE  /\ Cardinality(Since(h, u, T)) \in Nat
                 /\ Cardinality(Since(g, u, T)) =
                      Cardinality(Since(h, u, T)) + (IF p.uav = u /\ p.at >= T THEN 1 ELSE 0)
      <4>1. p \in Packet /\ T \in Int
        BY <1>1
      <4>2. /\ Cardinality(Since(h, u, T)) \in Nat
            /\ Cardinality(Since(Append(h, p), u, T)) =
                 Cardinality(Since(h, u, T)) + (IF p.uav = u /\ p.at >= T THEN 1 ELSE 0)
        BY <4>1, SinceAppend, Zenon
      <4> QED
        BY <3>1, <4>2, Zenon
    <3> QED
      BY <2>1, <3>1, Zenon
  <2>3. CASE u = p.uav
    <3>1. rx'[u][k] = Added(rx[u][k], p.at) /\ T >= p.at - Window
      BY <1>1, <2>3 DEF Counted
    <3>2. Cardinality(Young(rx'[u][k], T)) =
             Cardinality(Young(rx[u][k], T)) + (IF p.at >= T THEN 1 ELSE 0)
      BY <1>1, <2>1, <3>1, AddedKeeps
    <3> QED
      BY <1>2, <1>4, <2>2, <2>3, <3>2
  <2>4. CASE u # p.uav
    <3>1. rx'[u][k] = rx[u][k]
      BY <2>4 DEF Counted
    <3> QED
      BY <1>2, <1>4, <2>2, <2>4, <3>1
  <2> QED
    BY <2>3, <2>4
<1> QED
  BY <1>3, <1>4

\* Being the latest, it dates the status.
LEMMA CountedDates ==
    ASSUME BoardInv, NEW k \in Kinds, NEW p, listener[k] # Idle, Counted(k, p)
    PROVE  /\ StatusInv'
           /\ \A u \in Uavs : statusAt[u] # None =>
                 statusAt'[u] # None /\ statusAt[u] <= statusAt'[u]
<1>1. /\ p \in Packet /\ p = listener[k] /\ p.uav \in Uavs /\ p.at \in Times /\ p.at \in Int
      /\ None \notin Times /\ "status" \in Kinds
      /\ \A v \in Uavs : statusAt[v] # None => statusAt[v] \in Int
  BY LatestOfItsKind, TypesOf, TimesAre, PacketAt DEF Counted, Kinds
<1> DEFINE h == heard["status"]
           Of(v, g) == {i \in DOMAIN g : g[i].uav = v}
           Latest(v, g, at) ==
               /\ at = None <=> Of(v, g) = {}
               /\ at # None => /\ \E i \in Of(v, g) : g[i].at = at
                               /\ \A i \in Of(v, g) : g[i].at <= at
<1>2. \A v \in Uavs : Latest(v, h, statusAt[v])
  BY DEF BoardInv, StatusInv
<1>3. SUFFICES ASSUME NEW v \in Uavs
               PROVE  /\ Latest(v, h', statusAt'[v])
                      /\ statusAt[v] # None =>
                            statusAt'[v] # None /\ statusAt[v] <= statusAt'[v]
  BY DEF StatusInv
<1>4. CASE k # "status"
  <2>1. h' = h /\ statusAt'[v] = statusAt[v]
    BY <1>1, <1>4 DEF Counted
  <2> QED
    BY <1>1, <1>2, <2>1
<1>5. CASE k = "status"
  <2>1. /\ h' = Append(h, p) /\ h \in Seq(Packet)
        /\ \A i \in DOMAIN h : h[i].at <= p.at
    BY <1>1, <1>5, TypesOf, LatestOfItsKind DEF Counted
  <2>2. /\ Len(h) \in Nat /\ DOMAIN h = 1..Len(h) /\ DOMAIN h' = 1..(Len(h) + 1)
        /\ \A i \in DOMAIN h : h'[i] = h[i]
        /\ h'[Len(h) + 1] = p
    BY <1>1, <2>1, HeardAppend
  <2>3. CASE v = p.uav
    <3>1. statusAt'[v] = p.at /\ p.at # None
      BY <1>1, <1>5, <2>3 DEF Counted
    <3>2. Len(h) + 1 \in Of(v, h') /\ h'[Len(h) + 1].at = p.at
      BY <2>2, <2>3
    <3>3. \A i \in DOMAIN h' : h'[i].at <= p.at
      BY <1>1, <2>1, <2>2
    <3>4. statusAt[v] # None => statusAt[v] <= p.at
      BY <1>2, <2>1
    <3> HIDE DEF h
    <3> QED
      BY <3>1, <3>2, <3>3, <3>4
  <2>4. CASE v # p.uav
    <3>1. statusAt'[v] = statusAt[v]
      BY <2>4 DEF Counted
    <3>2. Of(v, h') = Of(v, h)
      BY <2>2, <2>4
    <3>3. \A i \in Of(v, h) : h'[i] = h[i]
      BY <2>2
    <3>4. Latest(v, h', statusAt'[v])
      <4>1. Latest(v, h, statusAt[v])
        BY <1>2
      <4> HIDE DEF h
      <4> QED
        BY <3>1, <3>2, <3>3, <4>1
    <3> QED
      BY <1>1, <3>1, <3>4
  <2> QED
    BY <2>3, <2>4
<1> QED
  BY <1>4, <1>5

\* A packet is taken by the board, or refused.
LEMMA IngestKeeps ==
    ASSUME BoardInv, NEW k \in Kinds, Ingest(k)
    PROVE  BoardInv'
<1>1. CASE Refused(listener[k].uav)
  <2>1. /\ UNCHANGED <<clock, known, statusAt, unwritable, rx, heard, stream>>
        /\ listener' = [listener EXCEPT ![k] = Idle]
    BY <1>1 DEF Ingest, board
  <2>2. /\ listener' \in [Kinds -> Packet \cup {Idle}]
        /\ \A j \in Kinds : listener'[j] = Idle \/ listener'[j] = listener[j]
    BY <2>1, TypesOf
  <2>3. Idle.at = 0 /\ 0 <= clock
    <3>1. clock \in Times
      BY TypesOf
    <3> QED
      BY <3>1, TimesAre DEF Idle
  <2>4. TypeOK'
    BY <2>1, <2>2 DEF BoardInv, TypeOK, stream, Packet
  <2>5. OrderInv'
    BY <2>1, <2>2, <2>3 DEF BoardInv, OrderInv, UpTo, stream
  <2> QED
    BY <2>1, <2>4, <2>5 DEF BoardInv, CountInv, StatusInv, ShownInv, stream
<1>2. CASE ~Refused(listener[k].uav)
  <2>1. Counted(k, listener[k]) /\ listener[k] # Idle
    BY <1>2, IngestCounts DEF Ingest
  <2>2. TypeOK' /\ OrderInv' /\ CountInv' /\ StatusInv'
    BY <1>2, <2>1, CountedTypes, CountedOrder, CountedCounts, CountedDates
  <2>3. ShownInv'
    <3>1. /\ shown' = shown /\ \A v \in Uavs : statusAt[v] \in Times \cup {None}
          /\ \A v \in Uavs : statusAt'[v] \in Times \cup {None}
          /\ shown \in [Streams -> [Uavs -> [status : Times \cup {None}, level : Levels]]]
      BY <2>1, TypesOf DEF Counted, stream, BoardInv, ShownInv
    <3>2. \A v \in Uavs : statusAt[v] # None =>
             statusAt'[v] # None /\ statusAt[v] <= statusAt'[v]
      BY <2>1, CountedDates
    <3>3. ASSUME NEW s \in Streams, NEW v \in Uavs, shown[s][v].status # None
          PROVE  statusAt'[v] # None /\ shown[s][v].status <= statusAt'[v]
      <4>1. /\ statusAt[v] # None /\ shown[s][v].status <= statusAt[v]
            /\ shown[s][v].status \in Times \cup {None}
        BY <3>1, <3>3 DEF BoardInv, ShownInv
      <4>2. /\ shown[s][v].status \in Int /\ statusAt[v] \in Int
            /\ statusAt'[v] # None /\ statusAt'[v] \in Int
        <5>1. /\ statusAt'[v] # None /\ statusAt[v] \in Times \cup {None}
              /\ statusAt'[v] \in Times \cup {None}
          BY <3>1, <3>2, <4>1
        <5>2. shown[s][v].status \in Times /\ statusAt[v] \in Times /\ statusAt'[v] \in Times
          BY <3>3, <4>1, <5>1
        <5> QED
          BY <5>1, <5>2, TimesAre
      <4> QED
        BY <3>2, <4>1, <4>2
    <3> QED
      BY <3>1, <3>3 DEF ShownInv
  <2> QED
    BY <2>2, <2>3 DEF BoardInv
<1> QED
  BY <1>1, <1>2

----------------------------------------------------------------------------
\* The other steps

\* Nothing was heard yet.
LEMMA InitKeeps == Init => BoardInv
<1> SUFFICES ASSUME Init PROVE BoardInv
  OBVIOUS
<1>1. TypeOK
  <2>1. Expected \subseteq known /\ known \subseteq Uavs /\ Cardinality(known) <= MaxTracked
    BY BoardAssumption DEF Init
  <2>2. /\ clock \in Times /\ statusAt \in [Uavs -> Times \cup {None}]
        /\ rx \in [Uavs -> [Kinds -> Seq(Times)]]
        /\ heard \in [Kinds -> Seq([uav : Uavs, at : Times])]
    BY TimesAre DEF Init
  <2>3. /\ listener \in [Kinds -> [uav : Uavs, at : Times] \cup {Idle}]
        /\ pc \in [Streams -> {"ms", "now", "lock", "closed", "aborted"}]
        /\ nowMs \in [Streams -> Times] /\ now \in [Streams -> Times]
        /\ client \in [Streams -> {"reading", "left", "reset"}]
    BY TimesAre DEF Init
  <2>4. unwritable \subseteq known
    BY DEF Init
  <2> QED
    BY <2>1, <2>2, <2>3, <2>4 DEF TypeOK
<1>2. OrderInv
  BY DEF Init, OrderInv, UpTo, InOrder, Idle
<1>3. CountInv
  <2>1. ASSUME NEW u \in Uavs, NEW k \in Kinds, NEW T
        PROVE  Since(heard[k], u, T) = {} /\ Young(rx[u][k], T) = {}
    BY DEF Init, Since, Young
  <2> QED
    BY <2>1 DEF CountInv
<1>4. StatusInv
  <2>1. heard["status"] = <<>> /\ \A u \in Uavs : statusAt[u] = None
    BY DEF Init, Kinds
  <2> QED
    BY <2>1 DEF StatusInv
<1>5. ShownInv
  <2>1. shown = [s \in Streams |-> [u \in Uavs |-> [status |-> None, level |-> "missing"]]]
    BY DEF Init
  <2> QED
    BY <2>1 DEF ShownInv, Levels
<1> QED
  BY <1>1, <1>2, <1>3, <1>4, <1>5 DEF BoardInv

\* A packet is decoded: its time is the present, nothing counted is later.
LEMMA ReceiveKeeps ==
    ASSUME BoardInv, NEW k \in Kinds, Receive(k)
    PROVE  BoardInv'
<1>1. PICK u \in Uavs : listener' = [listener EXCEPT ![k] = [uav |-> u, at |-> clock]]
  BY DEF Receive
<1>2. UNCHANGED <<clock, known, statusAt, unwritable, rx, heard, stream>>
  BY DEF Receive, board
<1>3. [uav |-> u, at |-> clock] \in Packet
  BY TypesOf DEF Packet
<1>4. /\ listener' \in [Kinds -> Packet \cup {Idle}]
      /\ \A j \in Kinds : listener'[j] = listener[j] \/ listener'[j] = [uav |-> u, at |-> clock]
  BY <1>1, <1>3, TypesOf
<1>5. TypeOK'
  BY <1>2, <1>4 DEF BoardInv, TypeOK, stream, Packet
<1>6. OrderInv'
  <2>1. clock <= clock
    <3>1. clock \in Times
      BY TypesOf
    <3> QED
      BY <3>1, TimesAre
  <2>2. ASSUME NEW j \in Kinds
        PROVE  listener'[j].at <= clock /\ (listener'[j] # Idle => UpTo(j, listener'[j].at))
    <3>1. CASE listener'[j] = listener[j]
      BY <3>1 DEF BoardInv, OrderInv
    <3>2. CASE listener'[j] = [uav |-> u, at |-> clock]
      BY <2>1, <3>2 DEF BoardInv, OrderInv
    <3> QED
      BY <1>4, <3>1, <3>2
  <2> QED
    BY <1>2, <2>2 DEF BoardInv, OrderInv, UpTo, stream
<1> QED
  BY <1>2, <1>5, <1>6 DEF BoardInv, CountInv, StatusInv, ShownInv, stream

\* Time passes.
LEMMA TimeKeeps ==
    ASSUME BoardInv, TimePasses
    PROVE  BoardInv'
<1>1. clock < MaxClock /\ clock' = clock + 1
      /\ UNCHANGED <<known, statusAt, unwritable, rx, heard, listener, stream>>
  BY DEF TimePasses, board
<1>2. /\ clock \in Nat /\ MaxClock \in Nat /\ Window \in Nat /\ clock' \in Times
      /\ \A x \in Times : x <= clock => x <= clock'
  <2>1. clock \in Times
    BY TypesOf
  <2>2. clock \in Nat /\ MaxClock \in Nat /\ Window \in Nat
    BY <2>1, TimesAre
  <2> QED
    BY <1>1, <2>2, TimesAre DEF Times
<1>3. TypeOK'
  BY <1>1, <1>2 DEF BoardInv, TypeOK, stream
<1>4. OrderInv'
  <2>1. ASSUME NEW k \in Kinds PROVE UpTo(k, clock)' /\ listener'[k].at <= clock'
    <3>1. /\ \A i \in DOMAIN heard[k] : heard[k][i].at <= clock /\ heard[k][i] \in Packet
          /\ listener[k].at \in Times /\ listener[k].at <= clock
      BY TypesOf DEF BoardInv, OrderInv, UpTo
    <3>2. \A u \in Uavs : rx[u][k] \in Seq(Times)
                          /\ \A i \in DOMAIN rx[u][k] : rx[u][k][i] <= clock
      BY TypesOf DEF BoardInv, OrderInv, UpTo
    <3>3. \A i \in DOMAIN heard'[k] : heard'[k][i].at <= clock'
      BY <1>1, <1>2, <3>1, PacketAt
    <3>4. ASSUME NEW u \in Uavs PROVE \A i \in DOMAIN rx'[u][k] : rx'[u][k][i] <= clock'
      <4>1. \A i \in DOMAIN rx[u][k] : rx[u][k][i] \in Times
        BY <3>2
      <4> QED
        BY <1>1, <1>2, <3>2, <4>1
    <3> QED
      BY <1>1, <1>2, <3>1, <3>3, <3>4 DEF UpTo
  <2>2. ASSUME NEW k \in Kinds, listener'[k] # Idle PROVE UpTo(k, listener[k].at)'
    BY <1>1, <2>2 DEF BoardInv, OrderInv, UpTo
  <2>3. \A s \in Streams : nowMs'[s] <= clock' /\ now'[s] <= clock'
    <3>1. \A s \in Streams : nowMs[s] \in Times /\ now[s] \in Times
      BY TypesOf
    <3> QED
      BY <1>1, <1>2, <3>1 DEF BoardInv, OrderInv, stream
  <2> QED
    BY <1>1, <2>1, <2>2, <2>3 DEF BoardInv, OrderInv
<1>5. CountInv'
  <2>1. \A T \in (0 - Window)..MaxClock : T >= clock' - Window => T >= clock - Window
    BY <1>1, <1>2
  <2> QED
    BY <1>1, <2>1 DEF BoardInv, CountInv
<1> QED
  BY <1>1, <1>3, <1>4, <1>5 DEF BoardInv, StatusInv, ShownInv, stream

\* Reading the clock, and a client leaving, touch nothing the streams share.
LEMMA ReadKeeps ==
    ASSUME BoardInv, NEW s \in Streams, ReadMs(s) \/ ReadNow(s) \/ Leave(s)
    PROVE  BoardInv'
<1>1. /\ UNCHANGED <<clock, known, statusAt, unwritable, rx, heard, listener, shown>>
      /\ pc' \in [Streams -> {"ms", "now", "lock", "closed", "aborted"}]
      /\ client' \in [Streams -> {"reading", "left", "reset"}]
  BY DEF BoardInv, TypeOK, ReadMs, ReadNow, Leave, board
<1>2. clock \in Times /\ nowMs \in [Streams -> Times] /\ now \in [Streams -> Times]
  BY TypesOf
<1>3. clock <= clock
  BY <1>2, TimesAre
<1>4. /\ nowMs' \in [Streams -> Times] /\ now' \in [Streams -> Times]
      /\ \A x \in Streams : nowMs'[x] \in {nowMs[x], clock} /\ now'[x] \in {now[x], clock}
  BY <1>2 DEF ReadMs, ReadNow, Leave
<1>5. TypeOK'
  BY <1>1, <1>4 DEF BoardInv, TypeOK
<1>6. \A x \in Streams : nowMs'[x] <= clock /\ now'[x] <= clock
  BY <1>3, <1>4 DEF BoardInv, OrderInv
<1>7. OrderInv'
  BY <1>1, <1>6 DEF BoardInv, OrderInv, UpTo
<1> QED
  BY <1>1, <1>5, <1>7 DEF BoardInv, CountInv, StatusInv, ShownInv

\* The clock a snapshot has read is not later than the present, so its trim
\* leaves every meter its window, whichever UAVs it gets to.
LEMMA SnapshotKeeps ==
    ASSUME BoardInv, NEW s \in Streams, Snapshot(s) \/ SnapshotFails(s)
    PROVE  BoardInv'
<1> DEFINE event == [u \in Uavs |-> Described(u, nowMs[s])]
<1>0. \/ Send(s, event)
      \/ pc' = [pc EXCEPT ![s] = "aborted"] /\ UNCHANGED <<client, shown>>
  BY DEF Snapshot, SnapshotFails
<1>1. /\ nowMs' = [nowMs EXCEPT ![s] = 0] /\ now' = [now EXCEPT ![s] = 0]
      /\ UNCHANGED <<clock, known, statusAt, unwritable, heard, listener>>
      /\ \E us : rx' = [u \in Uavs |-> [k \in Kinds |->
                  IF u \in us THEN Trimmed(rx[u][k], now[s]) ELSE rx[u][k]]]
  BY DEF Snapshot, SnapshotFails, MetersRead
<1>2. /\ clock \in Times /\ clock \in Int /\ now[s] \in Int /\ now[s] <= clock
      /\ Window \in Nat /\ \A u \in Uavs, k \in Kinds : rx[u][k] \in Seq(Times)
  <2>1. clock \in Times /\ now[s] \in Times /\ rx \in [Uavs -> [Kinds -> Seq(Times)]]
    BY TypesOf
  <2>2. now[s] <= clock
    BY DEF BoardInv, OrderInv
  <2> QED
    BY <2>1, <2>2, TimesAre
<1>3. ASSUME NEW u \in Uavs, NEW k \in Kinds
      PROVE  /\ rx'[u][k] \in Seq(Times) /\ InOrder(rx'[u][k])
             /\ \A i \in DOMAIN rx'[u][k] : \E j \in DOMAIN rx[u][k] : rx'[u][k][i] = rx[u][k][j]
             /\ \A T \in Int : T >= clock - Window =>
                   Cardinality(Young(rx'[u][k], T)) = Cardinality(Young(rx[u][k], T))
  <2>1. /\ rx[u][k] \in Seq(Times) /\ InOrder(rx[u][k])
        /\ rx'[u][k] = Trimmed(rx[u][k], now[s]) \/ rx'[u][k] = rx[u][k]
    BY <1>1, <1>2 DEF BoardInv, OrderInv
  <2>2. CASE rx'[u][k] = rx[u][k]
    BY <2>1, <2>2
  <2>3. CASE rx'[u][k] = Trimmed(rx[u][k], now[s])
    <3>1. now[s] >= now[s] - Window
      BY <1>2
    <3>2. \A T \in Int : T >= clock - Window => T >= now[s] - Window
      BY <1>2
    <3>3. rx'[u][k] \in Seq(Times)
      <4>1. now[s] - Window \in Int /\ now[s] - Window >= now[s] - Window
        BY <1>2
      <4> QED
        BY <1>2, <2>1, <2>3, <4>1, TrimKeeps
    <3>4. ASSUME NEW T \in Int, T >= clock - Window
          PROVE  Cardinality(Young(rx'[u][k], T)) = Cardinality(Young(rx[u][k], T))
      BY <1>2, <2>1, <2>3, <3>2, <3>4, TrimKeeps
    <3>5. /\ InOrder(rx'[u][k])
          /\ \A i \in DOMAIN rx'[u][k] : \E j \in DOMAIN rx[u][k] : rx'[u][k][i] = rx[u][k][j]
      BY <1>2, <2>1, <2>3, TrimOrdered
    <3> QED
      BY <3>3, <3>4, <3>5
  <2> QED
    BY <2>1, <2>2, <2>3
<1> HIDE DEF event
<1>4. /\ pc' \in [Streams -> {"ms", "now", "lock", "closed", "aborted"}]
      /\ client' \in [Streams -> {"reading", "left", "reset"}]
  <2>1. /\ pc \in [Streams -> {"ms", "now", "lock", "closed", "aborted"}]
        /\ client \in [Streams -> {"reading", "left", "reset"}]
    BY DEF BoardInv, TypeOK
  <2> QED
    BY <1>0, <2>1 DEF Send, AfterWrite
<1>5. TypeOK'
  <2>1. rx' \in [Uavs -> [Kinds -> Seq(Times)]]
    <3>1. rx' = [u \in Uavs |-> [k \in Kinds |-> rx'[u][k]]]
      BY <1>1
    <3>2. [u \in Uavs |-> [k \in Kinds |-> rx'[u][k]]] \in [Uavs -> [Kinds -> Seq(Times)]]
      BY <1>3
    <3> QED
      BY <3>1, <3>2
  <2>2. nowMs' \in [Streams -> Times] /\ now' \in [Streams -> Times]
    BY <1>1, TypesOf, TimesAre
  <2> QED
    BY <1>1, <1>4, <2>1, <2>2 DEF BoardInv, TypeOK
<1>6. OrderInv'
  <2>1. ASSUME NEW k \in Kinds, NEW T, UpTo(k, T)
        PROVE  /\ \A i \in DOMAIN heard'[k] : heard'[k][i].at <= T
               /\ \A u \in Uavs : \A i \in DOMAIN rx'[u][k] : rx'[u][k][i] <= T
    <3>1. heard'[k] = heard[k]
      BY <1>1
    <3>2. ASSUME NEW u \in Uavs, NEW i \in DOMAIN rx'[u][k] PROVE rx'[u][k][i] <= T
      <4>1. PICK j \in DOMAIN rx[u][k] : rx'[u][k][i] = rx[u][k][j]
        BY <1>3
      <4> QED
        BY <2>1, <4>1 DEF UpTo
    <3> QED
      BY <2>1, <3>1, <3>2 DEF UpTo
  <2>2. \A x \in Streams : nowMs'[x] <= clock /\ now'[x] <= clock
    <3>1. 0 <= clock
      BY <1>2, TimesAre
    <3>2. nowMs \in [Streams -> Times] /\ now \in [Streams -> Times]
      BY TypesOf
    <3> QED
      BY <1>1, <3>1, <3>2 DEF BoardInv, OrderInv
  <2>3. ASSUME NEW k \in Kinds
        PROVE  /\ UpTo(k, clock)' /\ listener'[k].at <= clock'
               /\ listener'[k] # Idle => UpTo(k, listener[k].at)'
    BY <1>1, <2>1 DEF BoardInv, OrderInv, UpTo
  <2> QED
    BY <1>1, <1>3, <2>2, <2>3 DEF OrderInv
<1>7. CountInv'
  <2>1. \A T \in (0 - Window)..MaxClock : T \in Int
    BY TimesAre
  <2> QED
    BY <1>1, <1>3, <2>1 DEF BoardInv, CountInv
<1>8. StatusInv'
  BY <1>1 DEF BoardInv, StatusInv
<1>9. ShownInv'
  <2>1. /\ statusAt \in [Uavs -> Times \cup {None}]
        /\ shown \in [Streams -> [Uavs -> [status : Times \cup {None}, level : Levels]]]
    BY TypesOf DEF BoardInv, ShownInv
  <2>2. event \in [Uavs -> [status : Times \cup {None}, level : Levels]]
        /\ \A u \in Uavs : event[u].status = statusAt[u]
    BY <2>1 DEF event, Described, Level, Levels
  <2>3. shown' = shown \/ shown' = [shown EXCEPT ![s] = event]
    BY <1>0, <2>1 DEF Send
  <2>4. shown' \in [Streams -> [Uavs -> [status : Times \cup {None}, level : Levels]]]
    BY <2>1, <2>2, <2>3
  <2>5. \A u \in Uavs : statusAt[u] # None => statusAt[u] <= statusAt[u]
    <3>1. \A u \in Uavs : statusAt[u] # None => statusAt[u] \in Times
      BY <2>1
    <3>2. \A x \in Times : x <= x
      BY TimesAre
    <3> QED
      BY <3>1, <3>2
  <2>6. \A x \in Streams, u \in Uavs : shown'[x][u].status # None =>
           statusAt[u] # None /\ shown'[x][u].status <= statusAt[u]
    <3>1. \A x \in Streams : shown'[x] = shown[x] \/ shown'[x] = event
      BY <2>1, <2>3
    <3> QED
      BY <2>2, <2>5, <3>1 DEF BoardInv, ShownInv
  <2> QED
    BY <1>1, <2>4, <2>6 DEF ShownInv
<1> QED
  BY <1>5, <1>6, <1>7, <1>8, <1>9 DEF BoardInv

\* Every step keeps the invariant.
LEMMA NextKeeps == BoardInv /\ [Next]_vars => BoardInv'
<1> SUFFICES ASSUME BoardInv, [Next]_vars PROVE BoardInv'
  OBVIOUS
<1>1. CASE UNCHANGED vars
  <2>1. UNCHANGED <<clock, known, statusAt, unwritable, rx, heard, listener, pc,
                    nowMs, now, client, shown>>
    BY <1>1 DEF vars, board, stream
  <2>2. TypeOK' /\ OrderInv'
    BY <2>1 DEF BoardInv, TypeOK, OrderInv, UpTo
  <2>3. CountInv' /\ StatusInv' /\ ShownInv'
    BY <2>1 DEF BoardInv, CountInv, StatusInv, ShownInv
  <2> QED
    BY <2>2, <2>3 DEF BoardInv
<1>2. CASE TimePasses
  BY <1>2, TimeKeeps
<1>3. CASE \E k \in Kinds : Receive(k) \/ Ingest(k)
  BY <1>3, ReceiveKeeps, IngestKeeps
<1>4. CASE \E s \in Streams : Events(s) \/ Leave(s)
  BY <1>4, ReadKeeps, SnapshotKeeps DEF Events
<1> QED
  BY <1>1, <1>2, <1>3, <1>4 DEF Next

\* The fairness is not needed.
LEMMA SpecSteps == Spec => Init /\ [][Next]_vars
BY PTL DEF Spec

\* snapshot, ingest_status and ingest_image: the inductive invariant of the board
\* holds in every reachable state.
THEOREM BoardInvariant == Spec => []BoardInv
BY InitKeeps, NextKeeps, SpecSteps, PTL

----------------------------------------------------------------------------
\* What the board promises

\* Whoever adds to a meter and whoever reads it, with whatever clock, it counts
\* the packets of its window, all of them and no older ones.
THEOREM RatesAlwaysExact == Spec => []RatesExact
<1>1. BoardInv => RatesExact
  <2> SUFFICES ASSUME BoardInv PROVE RatesExact
    OBVIOUS
  <2>1. /\ clock \in Times /\ clock \in Int /\ Window \in Nat /\ MaxClock \in Nat
        /\ rx \in [Uavs -> [Kinds -> Seq(Times)]]
        /\ now \in [Streams -> Times]
    <3>1. clock \in Times
      BY TypesOf
    <3> QED
      BY <3>1, TypesOf, TimesAre
  <2>2. NoSampleLost
    <3>1. clock - Window \in (0 - Window)..MaxClock /\ clock - Window >= clock - Window
      BY <2>1 DEF Times
    <3>2. ASSUME NEW u \in Uavs, NEW k \in Kinds
          PROVE  Cardinality(Since(heard[k], u, clock - Window))
                   = Cardinality(Young(rx[u][k], clock - Window))
      BY <3>1 DEF BoardInv, CountInv
    <3> QED
      BY <3>2 DEF NoSampleLost, Since, Young
  <2>3. NoOldSampleCounted
    <3> SUFFICES ASSUME NEW s \in Streams, NEW u \in Uavs, NEW k \in Kinds
                 PROVE  \A i \in DOMAIN Trimmed(rx[u][k], now[s]) :
                           Trimmed(rx[u][k], now[s])[i] >= now[s] - Window
      BY DEF NoOldSampleCounted
    <3>1. now[s] \in Times /\ rx[u][k] \in Seq(Times)
      BY <2>1
    <3>2. InOrder(rx[u][k])
      BY DEF BoardInv, OrderInv
    <3> QED
      BY <3>1, <3>2, TimesAre, TrimOrdered
  <2> QED
    BY <2>2, <2>3 DEF RatesExact
<1> QED
  BY <1>1, BoardInvariant, PTL

\* The level of every snapshot tells the silence of a UAV, although packets come
\* in, from either listener, after the snapshot has read its clock.
THEOREM LevelAlwaysTruthful == Spec => []LevelTruthful
<1>1. BoardInv => LevelTruthful
  <2> SUFFICES ASSUME BoardInv, NEW s \in Streams, NEW u \in Uavs
               PROVE  LET times == {p.at : p \in {q \in ToSet(heard["status"]) : q.uav = u}}
                          since(age) == \E t \in times : t > nowMs[s] - age
                          level == Level(statusAt[u], nowMs[s])
                      IN  /\ level = "missing" <=> times = {}
                          /\ level = "ok" <=> since(WarnAge)
                          /\ level = "error" <=> ~since(ErrorAge) /\ times # {}
    BY DEF LevelTruthful
  <2> DEFINE h == heard["status"]
             times == {p.at : p \in {q \in ToSet(h) : q.uav = u}}
             packets == {i \in DOMAIN h : h[i].uav = u}
             at == statusAt[u]
             m == nowMs[s]
  <2>1. /\ "status" \in Kinds /\ h \in Seq(Packet) /\ at \in Times \cup {None}
        /\ m \in Times /\ None \notin Times
    BY TypesOf, TimesAre DEF Kinds
  <2>2. /\ m \in Int /\ WarnAge \in Nat /\ ErrorAge \in Nat /\ WarnAge <= ErrorAge
    BY <2>1, TimesAre, BoardAssumption
  <2>3. ToSet(h) = {h[i] : i \in DOMAIN h}
    BY DEF ToSet
  <2>4. times = {h[i].at : i \in packets}
    <3> HIDE DEF h
    <3> QED
      BY <2>3
  <2>5. times \subseteq Times
    <3>1. \A i \in packets : h[i].at \in Times
      BY <2>1, HeardAppend, PacketAt
    <3> HIDE DEF packets, times, h
    <3> QED
      BY <2>4, <3>1
  <2>6. /\ at = None <=> times = {}
        /\ at # None => at \in times /\ \A t \in times : t <= at
    <3>1. /\ at = None <=> packets = {}
          /\ at # None => /\ \E i \in packets : h[i].at = at
                          /\ \A i \in packets : h[i].at <= at
      BY DEF BoardInv, StatusInv
    <3> HIDE DEF packets, times, h, at
    <3> QED
      BY <2>4, <3>1
  <2> HIDE DEF times, packets, h, at, m
  <2>7. CASE at = None
    <3>1. Level(at, m) = "missing" /\ times = {}
      BY <2>6, <2>7 DEF Level
    <3> QED
      BY <3>1 DEF times, h, at, m
  <2>8. CASE at # None
    <3>1. at \in Times /\ at \in Int /\ times # {} /\ at \in times
      BY <2>1, <2>6, <2>8, TimesAre
    <3>2. ASSUME NEW age \in Nat
          PROVE  (\E t \in times : t > m - age) <=> m - at < age
      <4>1. \A t \in times : t \in Int /\ t <= at
        BY <2>5, <2>6, <2>8, TimesAre
      <4>2. ASSUME NEW t \in times, t > m - age PROVE m - at < age
        BY <2>2, <3>1, <4>1, <4>2
      <4>3. m - at < age => at > m - age
        BY <2>2, <3>1
      <4> QED
        BY <3>1, <4>2, <4>3
    <3>3. /\ Level(at, m) # "missing"
          /\ Level(at, m) = "ok" <=> m - at < WarnAge
          /\ Level(at, m) = "error" <=> ~(m - at < ErrorAge)
      BY <2>2, <2>8, <3>1 DEF Level
    <3> QED
      BY <2>2, <3>1, <3>2, <3>3 DEF times, h, at, m
  <2> QED
    BY <2>7, <2>8
<1> QED
  BY <1>1, BoardInvariant, PTL

\* A table that is full serves the ids it knows and keeps to its limit.
THEOREM FullTableAlwaysServes == Spec => FullTableServes
<1>1. BoardInv => TypeOK
  BY DEF BoardInv
<1>2. BoardInv /\ [Next]_vars => [\A k \in Kinds :
         listener[k] # Idle /\ listener'[k] = Idle /\ listener[k].uav \in known
         => heard'[k] = Append(heard[k], listener[k])]_vars
  <2> SUFFICES ASSUME BoardInv, Next, NEW k \in Kinds,
                      listener[k] # Idle, listener'[k] = Idle, listener[k].uav \in known
               PROVE  heard'[k] = Append(heard[k], listener[k])
    OBVIOUS
  <2>1. listener \in [Kinds -> Packet \cup {Idle}]
    BY TypesOf
  <2>2. CASE UNCHANGED listener
    BY <2>2
  <2>3. ASSUME NEW j \in Kinds, Receive(j) PROVE FALSE
    BY <2>1, <2>3 DEF Receive
  <2>4. ASSUME NEW j \in Kinds, Ingest(j)
        PROVE  heard'[k] = Append(heard[k], listener[k])
    <3>1. j = k
      BY <2>1, <2>4 DEF Ingest
    <3>2. ~Refused(listener[k].uav)
      BY DEF Refused
    <3> QED
      BY <2>4, <3>1, <3>2, IngestCounts DEF Counted
  <2>5. CASE TimePasses \/ \E s \in Streams : Events(s) \/ Leave(s)
    BY <2>2, <2>5
    DEF TimePasses, Events, ReadMs, ReadNow, Snapshot, SnapshotFails, Leave
  <2> QED
    BY <2>3, <2>4, <2>5 DEF Next
<1> QED
  BY <1>1, <1>2, BoardInvariant, SpecSteps, PTL DEF FullTableServes, KnownNeverRefused

\* A client is never shown an older status of a UAV than before: what it has
\* been shown is not newer than what is known when the next event is written.
THEOREM EventsNeverOlder == Spec => EventsNeverGoBack
<1>1. BoardInv /\ [Next]_vars => [\A s \in Streams, u \in Uavs :
         shown[s][u].status # None =>
             /\ shown'[s][u].status # None
             /\ shown'[s][u].status >= shown[s][u].status]_vars
  <2> SUFFICES ASSUME BoardInv, Next, NEW s \in Streams, NEW u \in Uavs,
                      shown[s][u].status # None
               PROVE  /\ shown'[s][u].status # None
                      /\ shown'[s][u].status >= shown[s][u].status
    OBVIOUS
  <2>1. /\ shown \in [Streams -> [Uavs -> [status : Times \cup {None}, level : Levels]]]
        /\ statusAt \in [Uavs -> Times \cup {None}]
        /\ statusAt[u] # None /\ shown[s][u].status <= statusAt[u]
    BY TypesOf DEF BoardInv, ShownInv
  <2>2. shown[s][u].status \in Int /\ statusAt[u] \in Int
    <3>1. shown[s][u].status \in Times \cup {None}
      BY <2>1
    <3> QED
      BY <2>1, <3>1, TimesAre
  <2>3. CASE UNCHANGED shown
    BY <2>2, <2>3
  <2>4. ASSUME NEW x \in Streams, Snapshot(x)
        PROVE  /\ shown'[s][u].status # None
               /\ shown'[s][u].status >= shown[s][u].status
    <3>1. \/ shown' = shown
          \/ shown' = [shown EXCEPT ![x] = [v \in Uavs |-> Described(v, nowMs[x])]]
      BY <2>1, <2>4 DEF Snapshot, Send
    <3>2. shown'[s] = shown[s] \/ shown'[s] = [v \in Uavs |-> Described(v, nowMs[x])]
      BY <2>1, <3>1
    <3>3. shown'[s][u] = shown[s][u] \/ shown'[s][u].status = statusAt[u]
      BY <3>2 DEF Described
    <3> QED
      BY <2>1, <2>2, <3>3
  <2>5. CASE TimePasses \/ \E k \in Kinds : Receive(k) \/ Ingest(k)
    BY <2>3, <2>5 DEF TimePasses, Receive, Ingest, stream
  <2> QED
    BY <2>3, <2>4, <2>5 DEF Next, Events, ReadMs, ReadNow, SnapshotFails, Leave
<1> QED
  BY <1>1, BoardInvariant, SpecSteps, PTL DEF EventsNeverGoBack
=============================================================================

------------------------ MODULE DataScriptsProofs -----------------------
(* Of the data scripts, for every recording and all values of the bounds:   *)
(* what the pose export, the topic inspection and the batches of videos     *)
(* leave on disk, which frames a video has, the pose that the occupancy     *)
(* grid gives a frame, and which frames and cells the grid shows.           *)
EXTENDS DataScripts, PoseLookup, FiniteSetTheorems, WellFoundedInduction, TLAPS

----------------------------------------------------------------------------
\* The pose of a lidar frame, for every ascending sequence of pose stamps and
\* every stamp of a frame

\* A set of natural numbers that is not empty has a least element.
LEMMA LeastElement ==
    ASSUME NEW S, S \subseteq Nat, S # {}
    PROVE  \E x \in S : \A y \in S : x <= y
<1> DEFINE Less == {ss \in Nat \X Nat : ss[1] < ss[2]}
<1>1. IsWellFoundedOn(Less, Nat)
  BY NatLessThanWellFounded, Zenon DEF OpToRel
<1>2. PICK x \in S : \A y \in S : <<y, x>> \notin Less
  BY <1>1, WFMin, Zenon
<1>3. ASSUME NEW y \in S PROVE ~(y < x)
  <2>1. <<y, x>> \in Nat \X Nat /\ <<y, x>>[1] = y /\ <<y, x>>[2] = x
    OBVIOUS
  <2>. QED
    BY <1>2, <2>1, Zenon
<1>. QED
  BY <1>3

\* There is an insertion point, and it is where searchsorted says.
LEMMA InsertionPoint ==
    ASSUME NEW stamps, Ascending(stamps), NEW v \in Int
    PROVE  LET i == SearchSorted(stamps, v) IN
           /\ i \in 1..Len(stamps) + 1
           /\ \A j \in 1..i - 1 : stamps[j] < v
           /\ \A j \in i..Len(stamps) : stamps[j] >= v
<1> DEFINE n == Len(stamps)
           S == {i \in 1..n + 1 : i <= n => stamps[i] >= v}
           P(i) == /\ \A j \in 1..i - 1 : stamps[j] < v
                   /\ i <= n => stamps[i] >= v
<1>1. n \in Nat \ {0} /\ DOMAIN stamps = 1..n /\ \A j \in 1..n : stamps[j] \in Int
  BY DEF Ascending
<1>2. PICK k \in S : \A y \in S : k <= y
  <2>1. n + 1 \in S /\ S \subseteq Nat
    BY <1>1
  <2>. QED
    BY <2>1, LeastElement
<1>3. k \in 1..n + 1 /\ P(k)
  BY <1>1, <1>2
<1>4. SearchSorted(stamps, v) \in 1..n + 1 /\ P(SearchSorted(stamps, v))
  BY <1>3 DEF SearchSorted
<1>5. \A j \in SearchSorted(stamps, v)..n : stamps[j] >= v
  BY <1>1, <1>4 DEF Ascending
<1>. QED
  BY <1>4, <1>5

\* nearest_pose_index: no pose is nearer to the frame than the one it returns,
\* at both ends of the sequence, between two poses, and among equal stamps.
THEOREM NearestIsNearest ==
    ASSUME NEW stamps, Ascending(stamps), NEW v \in Int
    PROVE  LET k == NearestPoseIndex(stamps, v) IN
           /\ k \in 1..Len(stamps)
           /\ \A j \in 1..Len(stamps) :
                 Distance(v, stamps[k]) <= Distance(v, stamps[j])
<1> DEFINE n == Len(stamps)
           i == SearchSorted(stamps, v)
           k == NearestPoseIndex(stamps, v)
<1>1. /\ n \in Nat \ {0} /\ \A j \in 1..n : stamps[j] \in Int
      /\ \A a, b \in 1..n : a <= b => stamps[a] <= stamps[b]
  BY DEF Ascending
<1>2. /\ i \in 1..n + 1 /\ \A j \in 1..i - 1 : stamps[j] < v
      /\ \A j \in i..n : stamps[j] >= v
  BY InsertionPoint
<1>3. k = IF i = 1 THEN 1 ELSE IF i > n THEN n
          ELSE IF v - stamps[i - 1] <= stamps[i] - v THEN i - 1 ELSE i
  BY DEF NearestPoseIndex
<1>. HIDE DEF i, k, n
<1>4. k \in 1..n
  BY <1>1, <1>2, <1>3
<1>5. ASSUME NEW j \in 1..n PROVE Distance(v, stamps[k]) <= Distance(v, stamps[j])
  <2>1. CASE i = 1
    BY <1>1, <1>2, <1>3, <2>1 DEF Distance
  <2>2. CASE i > n
    BY <1>1, <1>2, <1>3, <2>2 DEF Distance
  <2>3. CASE 1 < i /\ i <= n
    <3>1. /\ stamps[i - 1] < v /\ v <= stamps[i]
          /\ stamps[j] <= stamps[i - 1] \/ stamps[i] <= stamps[j]
      BY <1>1, <1>2, <2>3
    <3>2. stamps[i - 1] \in Int /\ stamps[i] \in Int /\ stamps[j] \in Int
      BY <1>1, <1>2, <2>3
    <3>. QED
      BY <1>2, <1>3, <2>3, <3>1, <3>2 DEF Distance
  <2>. QED
    BY <1>1, <1>2, <2>1, <2>2, <2>3
<1>. QED
  BY <1>4, <1>5 DEF n, k

\* interpolate_pose: within the recording it interpolates between two
\* neighbouring poses around the frame, with a positive time between them to
\* divide by; elsewhere it takes the pose at that end.
THEOREM InterpolatesAround ==
    ASSUME NEW stamps, Ascending(stamps), NEW v \in Int
    PROVE  LET l == Left(stamps, v)
               r == Right(stamps, v)
           IN  /\ l \in 1..Len(stamps) /\ r \in 1..Len(stamps)
               /\ Inside(stamps, v) =>
                     /\ r = l + 1
                     /\ stamps[l] < v /\ v <= stamps[r]
               /\ ~Inside(stamps, v) => l = r /\ l \in {1, Len(stamps)}
<1>1. /\ Len(stamps) \in Nat \ {0} /\ \A j \in 1..Len(stamps) : stamps[j] \in Int
  BY DEF Ascending
<1>2. CASE Inside(stamps, v)
  <2> DEFINE i == SearchSorted(stamps, v)
  <2>1. /\ i \in 1..Len(stamps) + 1
        /\ \A j \in 1..i - 1 : stamps[j] < v
        /\ \A j \in i..Len(stamps) : stamps[j] >= v
    BY InsertionPoint
  <2>. HIDE DEF i
  <2>2. i \in 2..Len(stamps) /\ stamps[i - 1] < v /\ v <= stamps[i]
    BY <1>1, <1>2, <2>1 DEF Inside
  <2>3. Left(stamps, v) = i - 1 /\ Right(stamps, v) = i
    BY <1>2 DEF Left, Right, i
  <2>. QED
    BY <1>1, <1>2, <2>2, <2>3
<1>3. CASE ~Inside(stamps, v)
  BY <1>1, <1>3 DEF Left, Right
<1>. QED
  BY <1>2, <1>3

\* The distance interpolate_pose returns, which decides whether the frame is
\* used, is the distance to the nearest pose, also beyond the ends.
THEOREM DeltaIsLeast ==
    ASSUME NEW stamps, Ascending(stamps), NEW v \in Int
    PROVE  /\ \A j \in 1..Len(stamps) : PoseDelta(stamps, v) <= Distance(v, stamps[j])
           /\ \E j \in 1..Len(stamps) : PoseDelta(stamps, v) = Distance(v, stamps[j])
<1>1. /\ Len(stamps) \in Nat \ {0} /\ \A j \in 1..Len(stamps) : stamps[j] \in Int
      /\ \A a, b \in 1..Len(stamps) : a <= b => stamps[a] <= stamps[b]
  BY DEF Ascending
<1>2. CASE Inside(stamps, v)
  BY <1>2, NearestIsNearest DEF PoseDelta
<1>3. CASE ~Inside(stamps, v)
  <2>1. CASE v <= stamps[1]
    BY <1>1, <1>3, <2>1 DEF PoseDelta, Left, Distance
  <2>2. CASE v >= stamps[Len(stamps)] /\ ~(v <= stamps[1])
    BY <1>1, <1>3, <2>2 DEF PoseDelta, Left, Distance
  <2>. QED
    BY <1>1, <1>3, <2>1, <2>2 DEF Inside
<1>. QED
  BY <1>2, <1>3

----------------------------------------------------------------------------
\* The pose export

Final(t) == disk[<<"final", t>>]
Writing == {"open", "write", "replace"}

\* The arguments and the samples of a run.
PoseTypes ==
    /\ bag \in Trajectories /\ overwrite \subseteq Pose!Runs
    /\ window \in [Pose!Runs -> [start : TrajectoryStarts \cup {0},
                                 length : TrajectoryLengths \cup {0}]]
    /\ pc \in [Pose!Runs -> Pose!Over \cup Writing \cup {"start", "read"}]
    /\ file \in [Pose!Runs -> 1..2]
    /\ rows \in [Pose!Runs -> SUBSET (DOMAIN bag)]
    /\ disk \in [Pose!Paths -> Pose!Runs \cup {Prior, Torn, Nothing}]

\* Runs follow one another; one that writes has samples, and has reached the
\* metadata only after it has opened the CSV.
PoseOrder ==
    \A r \in Pose!Runs :
        /\ pc[r] # "start" => \A s \in 1..r - 1 : pc[s] \in Pose!Over
        /\ pc[r] \in Writing \cup {"ended"} => rows[r] # {}
        /\ pc[r] \in {"start", "read"} => file[r] = 1
        /\ pc[r] = "replace" => disk[<<"tmp", Pose!Order[file[r]]>>] = r

\* Whose the files under the final names are.
PosePair ==
    LET csv == Final("csv")
        about == Final("metadata")
    IN  /\ csv # Torn /\ about # Torn
        /\ csv \in Pose!Runs => pc[csv] # "start"
        /\ about \in Pose!Runs => csv \in Pose!Runs /\ csv >= about
        /\ csv \in Pose!Runs /\ csv # about =>
              pc[csv] \in Writing \cup {"stopped"} /\ file[csv] = 2
        /\ \A r \in Pose!Runs : pc[r] \in Writing /\ file[r] = 2 => csv = r

\* A run without --overwrite finds nothing where it is going to put a file.
PoseFree ==
    \A r \in Pose!Runs \ overwrite : pc[r] \in Writing \cup {"read"} =>
        /\ file[r] = 1 => Final("csv") = Nothing
        /\ Final("metadata") = Nothing

PoseInv == PoseTypes /\ PoseOrder /\ PosePair /\ PoseFree

\* A run that writes has the samples of its window.
PoseRows ==
    \A r \in Pose!Runs :
        pc[r] \in Writing \cup {"ended"} => rows[r] = Pose!Extracted(window[r])

\* What the runs are not.
LEMMA PoseRuns ==
    /\ Exports \in Nat \ {0} /\ Pose!Runs = 1..Exports
    /\ \A r \in Pose!Runs : r \in Int /\ r # Prior /\ r # Torn /\ r # Nothing
    /\ Prior # Torn /\ Torn # Nothing /\ Nothing # Prior
BY SMTT(60), ScriptsAssumption DEF Pose!PoseAssumption, Pose!Runs

\* The two files, in the order in which they are replaced.
LEMMA PoseFiles ==
    /\ Pose!Order = <<"csv", "metadata">> /\ Len(Pose!Order) = 2
    /\ Pose!Order[1] = "csv" /\ Pose!Order[2] = "metadata" /\ DOMAIN Pose!Order = 1..2
    /\ Pose!Targets = {"csv", "metadata"}
    /\ Pose!Paths = {<<"final", "csv">>, <<"final", "metadata">>,
                     <<"tmp", "csv">>, <<"tmp", "metadata">>}
BY DEF Pose!Order, Pose!Targets, Pose!Paths

\* While a run works, the earlier ones are over and the later ones not started.
LEMMA PoseAlone ==
    ASSUME PoseInv, NEW r \in Pose!Runs, pc[r] \in Writing \cup {"read"},
           NEW s \in Pose!Runs, s # r
    PROVE  /\ s < r => pc[s] \in Pose!Over
           /\ s > r => pc[s] = "start"
           /\ pc[s] \notin Writing \cup {"read"}
<1>1. r \in 1..Exports /\ s \in 1..Exports /\ Exports \in Nat
  BY PoseRuns
<1>2. s < r => pc[s] \in Pose!Over
  <2>1. pc[r] # "start" => \A x \in 1..r - 1 : pc[x] \in Pose!Over
    BY DEF PoseInv, PoseOrder
  <2> QED
    BY <1>1, <2>1 DEF Writing
<1>3. s > r => pc[s] = "start"
  <2>1. pc[s] # "start" => \A x \in 1..s - 1 : pc[x] \in Pose!Over
    BY DEF PoseInv, PoseOrder
  <2>2. s > r => r \in 1..s - 1
    BY <1>1
  <2> QED
    BY <2>1, <2>2 DEF Writing, Pose!Over
<1> QED
  BY <1>1, <1>2, <1>3 DEF Writing, Pose!Over

\* No run has started yet.
LEMMA PoseStarts == PoseInit => PoseInv
<1> SUFFICES ASSUME Pose!Init PROVE PoseInv
  BY DEF PoseInit
<1>1. /\ \A r \in Pose!Runs : pc[r] = "start" /\ file[r] = 1
      /\ \A t \in {"csv", "metadata"} : Final(t) \in {Nothing, Prior}
      /\ overwrite = {}
  BY PoseFiles DEF Pose!Init, Final
<1>2. PoseTypes
  BY PoseFiles DEF Pose!Init, PoseTypes, Pose!Over, Writing
<1>3. PoseOrder
  BY <1>1 DEF PoseOrder, Writing
<1>4. PosePair
  BY <1>1, PoseRuns DEF PosePair, Writing
<1>5. PoseFree
  BY <1>1 DEF PoseFree, Writing
<1> QED
  BY <1>2, <1>3, <1>4, <1>5 DEF PoseInv

\* A step of run r that leaves the final files alone.
LEMMA PoseInside ==
    ASSUME PoseInv, NEW r \in Pose!Runs, PoseTypes',
           UNCHANGED <<bag, file>>, Final("csv")' = Final("csv"),
           Final("metadata")' = Final("metadata"),
           \A s \in Pose!Runs : s # r => /\ pc'[s] = pc[s] /\ rows'[s] = rows[s]
                                         /\ s \in overwrite' <=> s \in overwrite,
           \A t \in Pose!Targets : t # Pose!Order[file[r]] =>
               disk'[<<"tmp", t>>] = disk[<<"tmp", t>>],
           pc[r] # "start" => (r \in overwrite' <=> r \in overwrite),
           pc'[r] \in Writing \cup {"ended"} => rows'[r] # {},
           pc'[r] = "replace" => disk'[<<"tmp", Pose!Order[file[r]]>>] = r,
           \/ /\ pc[r] = "start" /\ pc'[r] \in {"refused", "read"}
              /\ \A s \in 1..r - 1 : pc[s] \in Pose!Over
              /\ pc'[r] = "read" /\ r \notin overwrite' =>
                    Final("csv") = Nothing /\ Final("metadata") = Nothing
           \/ pc[r] = "read" /\ pc'[r] \in {"refused", "open"}
           \/ pc[r] \in Writing /\ pc'[r] \in Writing
           \/ pc[r] \notin Pose!Over \cup {"start"} /\ pc'[r] = "stopped"
    PROVE  PoseInv'
<1>1. /\ r \in Int /\ r \in 1..Exports /\ Exports \in Nat
      /\ file[r] \in 1..2 /\ \A s \in Pose!Runs : file[s] \in 1..2
      /\ pc[r] \in Pose!Over \cup Writing \cup {"start", "read"}
  BY PoseRuns DEF PoseInv, PoseTypes
<1>2. PoseOrder'
  <2>1. ASSUME NEW s \in Pose!Runs, pc'[s] # "start", NEW x \in 1..s - 1
        PROVE  pc'[x] \in Pose!Over
    <3>1. x \in Pose!Runs /\ x # s
      BY PoseRuns
    <3>2. pc[s] # "start" => pc[x] \in Pose!Over
      BY DEF PoseInv, PoseOrder
    <3>3. CASE s = r
      <4>1. x \in 1..r - 1 /\ pc'[x] = pc[x]
        BY <3>1, <3>3
      <4>2. CASE pc[r] = "start"
        BY <4>1, <4>2 DEF Writing, Pose!Over
      <4>3. CASE pc[r] # "start"
        BY <3>2, <3>3, <4>1, <4>3
      <4> QED
        BY <4>2, <4>3
    <3>4. CASE s # r /\ x # r
      BY <2>1, <3>1, <3>2, <3>4
    <3>5. CASE s # r /\ x = r
      BY <2>1, <3>2, <3>5 DEF Pose!Over, Writing
    <3> QED
      BY <3>3, <3>4, <3>5
  <2>2. ASSUME NEW s \in Pose!Runs
        PROVE  /\ pc'[s] \in Writing \cup {"ended"} => rows'[s] # {}
               /\ pc'[s] \in {"start", "read"} => file'[s] = 1
               /\ pc'[s] = "replace" => disk'[<<"tmp", Pose!Order[file'[s]]>>] = s
    <3>1. /\ pc[s] \in Writing \cup {"ended"} => rows[s] # {}
          /\ pc[s] \in {"start", "read"} => file[s] = 1
          /\ pc[s] = "replace" => disk[<<"tmp", Pose!Order[file[s]]>>] = s
      BY DEF PoseInv, PoseOrder
    <3>2. CASE s = r
      BY <3>1, <3>2 DEF Writing, Pose!Over
    <3>3. CASE s # r
      <4>1. ASSUME pc[s] = "replace" PROVE disk'[<<"tmp", Pose!Order[file[s]]>>] = s
        <5>1. /\ r < s => pc[r] \in Pose!Over
              /\ r > s => pc[r] = "start"
          BY <3>3, <4>1, PoseAlone DEF Writing
        <5>2. pc[r] \notin Pose!Over
          BY DEF Pose!Over, Writing
        <5>3. s \in 1..r - 1 /\ pc[r] = "start"
          BY <1>1, <3>3, <5>1, <5>2, PoseRuns
        <5>4. pc[s] \in Pose!Over
          BY <5>3 DEF Writing
        <5> QED
          BY <4>1, <5>4 DEF Pose!Over
      <4> QED
        BY <3>1, <3>3, <4>1
    <3> QED
      BY <3>2, <3>3
  <2> QED
    BY <2>1, <2>2 DEF PoseOrder
<1>3. PosePair'
  <2>1. ASSUME NEW s \in Pose!Runs
        PROVE  /\ pc[s] # "start" => pc'[s] # "start"
               /\ pc[s] \in Writing \cup {"stopped"} => pc'[s] \in Writing \cup {"stopped"}
               /\ pc'[s] \in Writing /\ file[s] = 2 => pc[s] \in Writing
    BY DEF PoseInv, PoseOrder, Writing, Pose!Over
  <2> QED
    BY <2>1 DEF PoseInv, PosePair
<1>4. PoseFree'
  <2> SUFFICES ASSUME NEW s \in Pose!Runs \ overwrite', pc'[s] \in Writing \cup {"read"}
               PROVE  /\ file[s] = 1 => Final("csv") = Nothing
                      /\ Final("metadata") = Nothing
    BY DEF PoseFree
  <2>1. CASE pc[s] = "start" /\ s = r
    BY <2>1 DEF Writing
  <2>2. CASE pc[s] # "start" \/ s # r
    <3>1. s \notin overwrite /\ pc[s] \in Writing \cup {"read"}
      BY <2>2 DEF Writing, Pose!Over
    <3> QED
      BY <3>1 DEF PoseInv, PoseFree
  <2> QED
    BY <2>1, <2>2
<1> QED
  BY <1>2, <1>3, <1>4 DEF PoseInv

\* The samples are messages of the bag.
LEMMA PoseExtracts == \A w : Pose!Extracted(w) \in SUBSET (DOMAIN bag)
BY DEF Pose!Extracted

\* The steps that write no final file.
LEMMA PoseSteps ==
    ASSUME PoseInv, NEW r \in Pose!Runs,
           \/ Pose!Start(r) \/ Pose!Read(r) \/ Pose!Open(r) \/ Pose!Write(r) \/ Pose!Stop(r)
    PROVE  PoseInv'
<1>1. /\ r \in Int /\ file[r] \in 1..2 /\ pc[r] \in Pose!Over \cup Writing \cup {"start", "read"}
      /\ Pose!Order[file[r]] \in Pose!Targets
      /\ <<"tmp", Pose!Order[file[r]]>> \in Pose!Paths
  BY PoseRuns, PoseFiles DEF PoseInv, PoseTypes
<1>2. PoseTypes
  BY DEF PoseInv
<1> USE DEF Pose!Goto, Writing, Final
<1>3. CASE Pose!Start(r)
  <2>1. PICK a \in TrajectoryStarts, n \in TrajectoryLengths :
           window' = [window EXCEPT ![r] = [start |-> a, length |-> n]]
    BY <1>3 DEF Pose!Start
  <2>2. /\ pc[r] = "start" /\ pc'[r] \in {"refused", "read"}
        /\ pc' = [pc EXCEPT ![r] = pc'[r]]
        /\ \A s \in 1..r - 1 : pc[s] \in Pose!Over
        /\ overwrite' \in {overwrite, overwrite \cup {r}}
        /\ pc'[r] = "read" => Pose!Existing = {} \/ r \in overwrite'
        /\ UNCHANGED <<bag, file, rows, disk>>
    BY <1>2, <1>3 DEF Pose!Start, PoseTypes
  <2>3. PoseTypes'
    BY <1>2, <2>1, <2>2 DEF PoseTypes, Pose!Over
  <2>4. pc'[r] = "read" /\ r \notin overwrite' =>
           Final("csv") = Nothing /\ Final("metadata") = Nothing
    BY <2>2, PoseFiles DEF Pose!Existing, Pose!Final
  <2> QED
    BY <1>2, <2>2, <2>3, <2>4, PoseInside DEF PoseTypes
<1>4. CASE Pose!Read(r)
  <2>1. /\ pc[r] = "read" /\ pc'[r] \in {"refused", "open"}
        /\ pc' = [pc EXCEPT ![r] = pc'[r]]
        /\ rows' = [rows EXCEPT ![r] = Pose!Extracted(window[r])]
        /\ pc'[r] = "open" => rows'[r] # {}
        /\ UNCHANGED <<bag, overwrite, window, file, disk>>
    BY <1>2, <1>4 DEF Pose!Read, Pose!NothingFound, PoseTypes
  <2>2. PoseTypes'
    BY <1>2, <2>1, PoseExtracts DEF PoseTypes, Pose!Over
  <2> QED
    BY <1>2, <2>1, <2>2, PoseInside DEF PoseTypes
<1>5. CASE Pose!Open(r) \/ Pose!Write(r)
  <2>1. /\ pc[r] \in {"open", "write"} /\ pc'[r] \in {"write", "replace"}
        /\ pc' = [pc EXCEPT ![r] = pc'[r]]
        /\ disk' = [disk EXCEPT ![<<"tmp", Pose!Order[file[r]]>>] =
                      IF pc[r] = "open" THEN Torn ELSE r]
        /\ pc'[r] = "replace" => pc[r] = "write"
        /\ UNCHANGED <<bag, overwrite, window, file, rows>>
    BY <1>2, <1>5 DEF Pose!Open, Pose!Write, Pose!Staging, Pose!Target, PoseTypes
  <2>2. PoseTypes'
    BY <1>2, <2>1 DEF PoseTypes, Pose!Over
  <2>3. /\ disk' \in [Pose!Paths -> Pose!Runs \cup {Prior, Torn, Nothing}]
        /\ pc'[r] = "replace" => disk'[<<"tmp", Pose!Order[file[r]]>>] = r
        /\ \A p \in Pose!Paths : p # <<"tmp", Pose!Order[file[r]]>> => disk'[p] = disk[p]
    BY <1>1, <1>2, <2>1, <2>2 DEF PoseTypes
  <2>4. /\ \A t \in Pose!Targets : <<"tmp", t>> \in Pose!Paths /\ <<"final", t>> \in Pose!Paths
        /\ "csv" \in Pose!Targets /\ "metadata" \in Pose!Targets
    BY PoseFiles
  <2>5. rows[r] # {}
    BY <2>1 DEF PoseInv, PoseOrder
  <2> QED
    BY <1>2, <2>1, <2>2, <2>3, <2>4, <2>5, PoseInside DEF PoseTypes
<1>6. CASE Pose!Stop(r)
  <2>1. /\ pc[r] \notin Pose!Over \cup {"start"} /\ pc' = [pc EXCEPT ![r] = "stopped"]
        /\ UNCHANGED <<bag, overwrite, window, file, rows, disk>>
    BY <1>6 DEF Pose!Stop
  <2>2. PoseTypes' /\ pc'[r] = "stopped"
    BY <1>2, <2>1 DEF PoseTypes, Pose!Over
  <2> QED
    BY <1>2, <2>1, <2>2, PoseInside DEF PoseTypes
<1> QED
  BY <1>3, <1>4, <1>5, <1>6

\* The step that does: the file is of the run, which --overwrite allows it.
LEMMA PoseReplaces ==
    ASSUME PoseInv, NEW r \in Pose!Runs, Pose!Replace(r)
    PROVE  /\ PoseInv'
           /\ \A t \in Pose!Targets :
                 Final(t) # Nothing /\ Final(t)' # Final(t) => r \in overwrite
<1> DEFINE t == Pose!Order[file[r]]
<1>1. /\ r \in Int /\ r # Torn /\ file[r] \in 1..2 /\ t \in Pose!Targets
      /\ PoseTypes /\ \A s \in Pose!Runs : s \in Int
  BY PoseRuns, PoseFiles DEF PoseInv, PoseTypes
<1>2. /\ pc[r] = "replace" /\ disk[<<"tmp", t>>] = r /\ rows[r] # {}
      /\ disk' = [disk EXCEPT ![<<"tmp", t>>] = Nothing, ![<<"final", t>>] = r]
      /\ \/ /\ file[r] = 1 /\ file' = [file EXCEPT ![r] = 2]
            /\ pc' = [pc EXCEPT ![r] = "open"]
         \/ file[r] = 2 /\ file' = file /\ pc' = [pc EXCEPT ![r] = "ended"]
      /\ UNCHANGED <<bag, overwrite, window, rows>>
  <2>1. pc[r] = "replace" /\ disk[<<"tmp", t>>] = r /\ rows[r] # {}
    BY DEF Pose!Replace, PoseInv, PoseOrder, Writing
  <2>2. /\ disk' = [disk EXCEPT ![<<"tmp", t>>] = Nothing,
                               ![<<"final", t>>] = disk[<<"tmp", t>>]]
        /\ UNCHANGED <<bag, overwrite, window, rows>>
    BY DEF Pose!Replace, Pose!Staging, Pose!Target, Pose!Final
  <2>3. IF file[r] < 2 THEN /\ file' = [file EXCEPT ![r] = @ + 1]
                            /\ pc' = [pc EXCEPT ![r] = "open"]
        ELSE pc' = [pc EXCEPT ![r] = "ended"] /\ file' = file
    BY PoseFiles DEF Pose!Replace, Pose!Goto
  <2> HIDE DEF t
  <2>4. \/ /\ file[r] = 1 /\ file' = [file EXCEPT ![r] = 2]
           /\ pc' = [pc EXCEPT ![r] = "open"]
        \/ file[r] = 2 /\ file' = file /\ pc' = [pc EXCEPT ![r] = "ended"]
    BY <1>1, <2>3
  <2> QED
    BY <2>1, <2>2, <2>4
<1>3. /\ \A s \in Pose!Runs : s # r => pc'[s] = pc[s] /\ file'[s] = file[s]
      /\ file[r] = 1 => /\ pc'[r] = "open" /\ file'[r] = 2 /\ t = "csv"
                        /\ Final("csv")' = r /\ Final("metadata")' = Final("metadata")
      /\ file[r] = 2 => /\ pc'[r] = "ended" /\ file'[r] = 2 /\ t = "metadata"
                        /\ Final("metadata")' = r /\ Final("csv")' = Final("csv")
  BY <1>1, <1>2, PoseFiles DEF PoseTypes, Final
<1>4. PoseTypes'
  <2>1. disk' \in [Pose!Paths -> Pose!Runs \cup {Prior, Torn, Nothing}]
    BY <1>1, <1>2, PoseFiles DEF PoseTypes
  <2>2. pc' \in [Pose!Runs -> Pose!Over \cup Writing \cup {"start", "read"}]
        /\ file' \in [Pose!Runs -> 1..2]
    BY <1>1, <1>2 DEF PoseTypes, Pose!Over, Writing
  <2> QED
    BY <1>1, <1>2, <2>1, <2>2 DEF PoseTypes
<1>5. \A s \in Pose!Runs : s # r =>
         /\ s < r => pc[s] \in Pose!Over
         /\ s > r => pc[s] = "start"
         /\ pc[s] \notin Writing \cup {"read"}
  BY <1>2, PoseAlone DEF Writing
<1>6. PoseOrder'
  <2>1. ASSUME NEW s \in Pose!Runs, pc'[s] # "start", NEW x \in 1..s - 1
        PROVE  pc'[x] \in Pose!Over
    <3>1. x \in Pose!Runs /\ x # s
      BY PoseRuns
    <3>2. pc[s] # "start" /\ pc[x] \in Pose!Over
      BY <1>2, <1>3, <2>1 DEF PoseInv, PoseOrder
    <3>3. x # r
      BY <1>2, <3>2 DEF Pose!Over
    <3> QED
      BY <1>3, <3>1, <3>2, <3>3
  <2>2. ASSUME NEW s \in Pose!Runs
        PROVE  /\ pc'[s] \in Writing \cup {"ended"} => rows'[s] # {}
               /\ pc'[s] \in {"start", "read"} => file'[s] = 1
               /\ pc'[s] # "replace"
    <3>1. CASE s = r
      BY <1>1, <1>2, <1>3, <3>1
    <3>2. CASE s # r
      BY <1>2, <1>3, <1>5, <3>2 DEF PoseInv, PoseOrder, Writing
    <3> QED
      BY <3>1, <3>2
  <2> QED
    BY <2>1, <2>2 DEF PoseOrder
<1>7. PosePair'
  <2> DEFINE csv == Final("csv")
             about == Final("metadata")
  <2>1. /\ csv # Torn /\ about # Torn
        /\ csv \in Pose!Runs => pc[csv] # "start"
        /\ about \in Pose!Runs => csv \in Pose!Runs /\ csv >= about
        /\ csv \in Pose!Runs /\ csv # about =>
              pc[csv] \in Writing \cup {"stopped"} /\ file[csv] = 2
        /\ file[r] = 2 => csv = r
    BY <1>2 DEF PoseInv, PosePair, Writing
  <2> HIDE DEF csv, about
  <2>2. ASSUME NEW s \in Pose!Runs, pc'[s] \in Writing PROVE s = r
    BY <1>3, <1>5, <2>2
  <2>3. CASE file[r] = 1
    <3>1. csv' = r /\ about' = about /\ pc'[r] = "open" /\ file'[r] = 2
      BY <1>3, <2>3 DEF csv, about
    <3>2. about \in Pose!Runs => r >= about
      <4>1. ASSUME about \in Pose!Runs PROVE r >= about
        <5>1. csv \in Pose!Runs /\ csv >= about /\ pc[csv] # "start"
          BY <2>1, <4>1
        <5>2. ~(csv > r)
          BY <1>1, <1>5, <5>1
        <5> QED
          BY <1>1, <4>1, <5>1, <5>2
      <4> QED
        BY <4>1
    <3>3. csv' # Torn /\ about' # Torn
      BY <1>1, <2>1, <3>1
    <3> QED
      BY <2>2, <3>1, <3>2, <3>3 DEF PosePair, csv, about, Writing
  <2>4. CASE file[r] = 2
    <3>1. csv' = r /\ about' = r /\ pc'[r] = "ended"
      BY <1>3, <2>1, <2>4 DEF csv, about
    <3>2. r >= r /\ r # Torn
      BY <1>1
    <3> QED
      BY <2>2, <3>1, <3>2 DEF PosePair, csv, about, Writing
  <2> QED
    BY <1>1, <2>3, <2>4
<1>8. PoseFree'
  <2> SUFFICES ASSUME NEW s \in Pose!Runs \ overwrite, pc'[s] \in Writing \cup {"read"}
               PROVE  /\ file'[s] = 1 => Final("csv")' = Nothing
                      /\ Final("metadata")' = Nothing
    BY <1>2 DEF PoseFree
  <2>1. s = r
    BY <1>3, <1>5
  <2>2. file[r] = 1 /\ Final("metadata") = Nothing
    BY <1>1, <1>2, <1>3, <2>1 DEF PoseInv, PoseFree, Writing
  <2> QED
    BY <1>3, <2>1, <2>2
<1>9. ASSUME NEW u \in Pose!Targets, Final(u) # Nothing, Final(u)' # Final(u)
      PROVE  r \in overwrite
  <2>1. r \notin overwrite => /\ file[r] = 1 => Final("csv") = Nothing
                              /\ Final("metadata") = Nothing
    BY <1>2 DEF PoseInv, PoseFree, Writing
  <2>2. u = "csv" \/ u = "metadata"
    BY PoseFiles
  <2> QED
    BY <1>1, <1>3, <1>9, <2>1, <2>2
<1> QED
  BY <1>4, <1>6, <1>7, <1>8, <1>9 DEF PoseInv

\* What the invariant of the pose export promises.
LEMMA PosePromise ==
    PoseInv => Pose!TypeOK /\ Pose!FinalsWhole /\ Pose!PairConsistent
<1> SUFFICES ASSUME PoseInv
             PROVE  Pose!TypeOK /\ Pose!FinalsWhole /\ Pose!PairConsistent
  OBVIOUS
<1>1. Pose!TypeOK
  BY PoseFiles DEF PoseInv, PoseTypes, PoseOrder, Pose!TypeOK, Writing
<1>2. Pose!FinalsWhole
  BY PoseFiles DEF PoseInv, PosePair, Pose!FinalsWhole, Pose!Final, Final
<1>3. Pose!PairConsistent
  <2>1. \A r \in Pose!Runs : r \in Int
    BY PoseRuns
  <2> DEFINE csv == Final("csv")
             about == Final("metadata")
  <2>2. /\ about \in Pose!Runs => csv \in Pose!Runs /\ csv >= about
        /\ csv \in Pose!Runs /\ csv # about => pc[csv] \in Writing \cup {"stopped"}
    BY DEF PoseInv, PosePair
  <2>3. Pose!Final("csv") = <<"final", "csv">> /\ Pose!Final("metadata") = <<"final", "metadata">>
    BY DEF Pose!Final
  <2> HIDE DEF csv, about
  <2>4. csv # about =>
            /\ csv \in Pose!Runs => pc[csv] \in {"open", "write", "replace", "stopped"}
            /\ about \in Pose!Runs => csv \in Pose!Runs /\ csv > about
    BY <2>1, <2>2 DEF Writing
  <2> QED
    BY <2>3, <2>4 DEF Pose!PairConsistent, csv, about, Final
<1> QED
  BY <1>1, <1>2, <1>3

\* The samples of a run are those of its window.
LEMMA PoseRowsStay ==
    ASSUME PoseInv, PoseRows, Pose!Next
    PROVE  PoseRows'
<1>1. PICK r \in Pose!Runs : \/ Pose!Start(r) \/ Pose!Read(r) \/ Pose!Open(r)
                              \/ Pose!Write(r) \/ Pose!Stop(r) \/ Pose!Replace(r)
  BY DEF Pose!Next
<1>2. /\ pc \in [Pose!Runs -> Pose!Over \cup Writing \cup {"start", "read"}]
      /\ DOMAIN window = Pose!Runs /\ DOMAIN rows = Pose!Runs
  BY DEF PoseInv, PoseTypes
<1>3. \A w : Pose!Extracted(w)' = Pose!Extracted(w)
  <2>1. bag' = bag
    BY <1>1 DEF Pose!Start, Pose!Read, Pose!Open, Pose!Write, Pose!Stop, Pose!Replace
  <2> QED
    BY <2>1 DEF Pose!Extracted
<1>4. ASSUME NEW s \in Pose!Runs, s # r
      PROVE  pc'[s] = pc[s] /\ window'[s] = window[s] /\ rows'[s] = rows[s]
  BY <1>1, <1>2, <1>4 DEF Pose!Start, Pose!Read, Pose!Open, Pose!Write, Pose!Stop,
                         Pose!Replace, Pose!Goto
<1>5. \/ pc'[r] \in {"refused", "read", "stopped"}
      \/ window'[r] = window[r] /\ rows'[r] = Pose!Extracted(window[r])
      \/ window'[r] = window[r] /\ rows'[r] = rows[r] /\ pc[r] \in Writing
  BY <1>1, <1>2 DEF Pose!Start, Pose!Read, Pose!Open, Pose!Write, Pose!Stop,
                   Pose!Replace, Pose!Goto, Writing
<1>6. ASSUME NEW s \in Pose!Runs, pc'[s] \in Writing \cup {"ended"}
      PROVE  (rows[s] = Pose!Extracted(window[s]))'
  <2> SUFFICES ASSUME NEW w, w = window'[s] PROVE rows'[s] = Pose!Extracted(w)'
    OBVIOUS
  <2>1. rows'[s] = Pose!Extracted(w)
    <3>1. CASE s = r
      <4>1. pc[r] \in Writing \cup {"ended"} => rows[r] = Pose!Extracted(window[r])
        BY DEF PoseRows
      <4> QED
        BY <1>5, <1>6, <3>1, <4>1 DEF Writing
    <3>2. CASE s # r
      BY <1>4, <1>6, <3>2 DEF PoseRows
    <3> QED
      BY <3>1, <3>2
  <2> QED
    BY <1>3, <2>1
<1>7. Pose!Runs' = Pose!Runs
  BY DEF Pose!Runs
<1> QED
  BY <1>6, <1>7 DEF PoseRows, Writing

\* They are those inside the window, up to the first one beyond it.
LEMMA PoseWindow == PoseInv /\ PoseRows => Pose!WindowExact
<1> SUFFICES ASSUME PoseInv, PoseRows,
                    NEW r \in Pose!Runs, pc[r] \notin {"start", "read", "refused", "stopped"}
             PROVE  LET inside == {i \in DOMAIN bag :
                            LET ns == IF bag[i].header = 0 THEN bag[i].bag ELSE bag[i].header
                            IN  /\ window[r].start <= ns
                                /\ window[r].length = 0
                                   \/ ns < window[r].start + window[r].length}
                        ordered == \A i, j \in DOMAIN bag : i < j =>
                                      Pose!Stamp(bag[i]) <= Pose!Stamp(bag[j])
                    IN  rows[r] \subseteq inside /\ (ordered => rows[r] = inside)
  BY DEF Pose!WindowExact
<1> DEFINE w == window[r]
           ns(i) == Pose!Stamp(bag[i])
<1>1. /\ pc[r] \in Writing \cup {"ended"}
      /\ w.start \in Int /\ w.length \in Nat
      /\ bag \in Seq([header : Nat, bag : Nat])
  <2>1. Trajectories \subseteq Seq([header : Nat, bag : Nat])
    BY ScriptsAssumption DEF Pose!PoseAssumption
  <2>0. TrajectoryStarts \subseteq Int /\ TrajectoryLengths \subseteq Nat
    BY ScriptsAssumption DEF Pose!PoseAssumption
  <2>2. /\ bag \in Trajectories
        /\ w \in [start : TrajectoryStarts \cup {0}, length : TrajectoryLengths \cup {0}]
        /\ pc[r] \in Pose!Over \cup Writing \cup {"start", "read"}
    BY DEF PoseInv, PoseTypes
  <2>3. bag \in Seq([header : Nat, bag : Nat])
    BY <2>1, <2>2
  <2>4. pc[r] \in Writing \cup {"ended"}
    BY <2>2 DEF Pose!Over
  <2>5. w.start \in TrajectoryStarts \cup {0} /\ w.length \in TrajectoryLengths \cup {0}
    BY <2>2
  <2> HIDE DEF w
  <2>6. w.start \in Int /\ w.length \in Nat
    <3>1. /\ \A x \in TrajectoryStarts \cup {0} : x \in Int
          /\ \A x \in TrajectoryLengths \cup {0} : x \in Nat
      BY <2>0
    <3> QED
      BY <2>5, <3>1
  <2> QED
    BY <2>3, <2>4, <2>6
<1>2. rows[r] = {i \in DOMAIN bag : /\ ns(i) >= w.start
                                    /\ \A j \in 1..i : ~Pose!Beyond(w, ns(j))}
  BY <1>1 DEF PoseRows, Pose!Extracted
<1>3. DOMAIN bag = 1..Len(bag) /\ Len(bag) \in Nat
  BY <1>1
<1>4. ASSUME NEW i \in DOMAIN bag
      PROVE  /\ ns(i) \in Nat
             /\ ns(i) = IF bag[i].header = 0 THEN bag[i].bag ELSE bag[i].header
  <2> DEFINE M == [header : Nat, bag : Nat]
  <2>1. bag[i] \in M
    <3>1. bag \in Seq(M)
      BY <1>1
    <3> HIDE DEF M
    <3> QED
      BY <1>3, <3>1
  <2> QED
    BY <2>1 DEF Pose!Stamp
<1> HIDE DEF w, ns
<1>5. \A i \in DOMAIN bag :
         ~Pose!Beyond(w, ns(i)) <=> w.length = 0 \/ ns(i) < w.start + w.length
  BY SMTT(60), <1>1, <1>4 DEF Pose!Beyond
<1> DEFINE inside == {i \in DOMAIN bag : /\ w.start <= ns(i)
                                         /\ ~Pose!Beyond(w, ns(i))}
<1>6. rows[r] \subseteq inside
  BY <1>1, <1>2, <1>3, <1>4
<1>7. ASSUME \A i, j \in DOMAIN bag : i < j => ns(i) <= ns(j)
      PROVE  inside \subseteq rows[r]
  <2> SUFFICES ASSUME NEW i \in inside, NEW j \in 1..i
               PROVE  ~Pose!Beyond(w, ns(j))
    BY <1>1, <1>2, <1>4
  <2>1. i \in DOMAIN bag /\ j \in DOMAIN bag /\ i \in Nat /\ j \in Nat /\ j <= i
    BY <1>3
  <2>2. ns(j) <= ns(i) /\ ns(j) \in Nat /\ ns(i) \in Nat
    BY <1>4, <1>7, <2>1
  <2>3. w.length = 0 \/ ns(i) < w.start + w.length
    BY <1>5, <2>1
  <2> QED
    BY SMTT(60), <1>1, <1>5, <2>1, <2>2, <2>3
<1>8. inside = {i \in DOMAIN bag :
            LET s == IF bag[i].header = 0 THEN bag[i].bag ELSE bag[i].header
            IN  /\ w.start <= s
                /\ w.length = 0 \/ s < w.start + w.length}
  BY <1>4, <1>5
<1> HIDE DEF inside
<1> QED
  BY <1>6, <1>7, <1>8 DEF w, ns

\* Every step of it.
LEMMA PoseLawful ==
    ASSUME PoseInv, Pose!Next
    PROVE  PoseInv' /\ Pose!ReplacesLawfully
<1>1. PICK r \in Pose!Runs : \/ Pose!Start(r) \/ Pose!Read(r) \/ Pose!Open(r)
                              \/ Pose!Write(r) \/ Pose!Stop(r) \/ Pose!Replace(r)
  BY DEF Pose!Next
<1>2. CASE Pose!Replace(r)
  <2>1. PoseInv' /\ \A t \in Pose!Targets :
            Final(t) # Nothing /\ Final(t)' # Final(t) => r \in overwrite
    BY <1>2, PoseReplaces
  <2>2. pc[r] = "replace" /\ pc'[r] # "replace"
    BY <1>2 DEF Pose!Replace, Pose!Goto, PoseInv, PoseTypes
  <2> QED
    BY <2>1, <2>2 DEF Pose!ReplacesLawfully, Pose!Final, Final
<1>3. CASE Pose!Start(r) \/ Pose!Read(r) \/ Pose!Open(r) \/ Pose!Write(r) \/ Pose!Stop(r)
  <2>1. PoseInv'
    BY <1>3, PoseSteps
  <2>2. \A t \in Pose!Targets : disk'[Pose!Final(t)] = disk[Pose!Final(t)]
    <3>1. Pose!Order[file[r]] \in Pose!Targets
      BY PoseFiles DEF PoseInv, PoseTypes
    <3>2. \/ UNCHANGED disk
          \/ \E x : disk' = [disk EXCEPT ![<<"tmp", Pose!Order[file[r]]>>] = x]
      BY <1>3 DEF Pose!Start, Pose!Read, Pose!Open, Pose!Write, Pose!Stop, Pose!Staging,
                  Pose!Target
    <3> QED
      BY <3>1, <3>2, PoseFiles DEF Pose!Final, PoseInv, PoseTypes
  <2> QED
    BY <2>1, <2>2 DEF Pose!ReplacesLawfully
<1> QED
  BY <1>1, <1>2, <1>3

----------------------------------------------------------------------------
\* The topic inspection

TopicsTypes ==
    /\ run \in 0..MaxInspections
    /\ pc \in Topics!Ended \cup {"inspect", "write", "replace"}
    /\ rows \cup failed \subseteq inputs /\ rows \cap failed = {}
    /\ DOMAIN output = Topics!Targets /\ DOMAIN staging = Topics!Targets
    /\ output["bag"] = Topics!Source

\* A run that has passed the checks writes the CSV, once all bags were tried.
TopicsWork ==
    /\ pc \in {"inspect", "write", "replace"} => target = "csv"
    /\ pc \in {"write", "replace", "ok", "incomplete"} => rows \cup failed = inputs
    /\ pc = "replace" => staging["csv"] = Topics!Csv(rows, TRUE)

\* What the CSV holds.
TopicsOutput ==
    /\ output["csv"] # Topics!NoFile => output["csv"].ended
    /\ pc \notin {"ok", "incomplete"} => output = before
    /\ pc \in {"ok", "incomplete"} =>
          output["csv"] = Topics!Csv(rows, TRUE) /\ (pc = "ok" <=> failed = {})

TopicsInv == TopicsTypes /\ TopicsWork /\ TopicsOutput

\* Nothing has been inspected yet.
LEMMA TopicsStarts == TopicsInit => TopicsInv
BY ScriptsAssumption
   DEF TopicsInit, Topics!Init, TopicsInv, TopicsTypes, TopicsWork, TopicsOutput,
       Topics!Ended, Topics!Targets, Topics!Source, Topics!NoFile,
       Topics!InspectionAssumption

\* Every step of the inspection.
LEMMA TopicsSteps == TopicsInv /\ Topics!Next => TopicsInv'
<1> SUFFICES ASSUME TopicsInv, Topics!Next PROVE TopicsInv'
  OBVIOUS
<1> USE DEF Topics!Ended, Topics!Targets, Topics!local, Topics!arguments, Topics!files
<1>1. CASE Topics!Start
  <2>1. /\ run \in 0..MaxInspections /\ run < MaxInspections /\ run' = run + 1
        /\ rows' = {} /\ failed' = {} /\ before' = output
        /\ staging' = staging /\ output' = output
        /\ target' \in {"csv", "bag"} /\ pc' \in {"refused", "inspect"}
        /\ pc' = "inspect" => target' # "bag"
    BY <1>1 DEF Topics!Start, Topics!Refused, TopicsInv, TopicsTypes
  <2>2. run' \in 0..MaxInspections
    BY <2>1, ScriptsAssumption DEF Topics!InspectionAssumption
  <2> QED
    BY <2>1, <2>2 DEF TopicsInv, TopicsTypes, TopicsWork, TopicsOutput
<1>2. CASE Topics!InspectBag
  BY <1>2 DEF Topics!InspectBag, Topics!NextBags, TopicsInv, TopicsTypes, TopicsWork,
              TopicsOutput
<1>3. CASE Topics!OpenStaging
  BY <1>3 DEF Topics!OpenStaging, Topics!NextBags, Topics!Staging, TopicsInv, TopicsTypes,
              TopicsWork, TopicsOutput
<1>4. CASE Topics!WriteRows
  BY <1>4 DEF Topics!WriteRows, Topics!Csv, TopicsInv, TopicsTypes, TopicsWork,
              TopicsOutput
<1>5. CASE Topics!Replace
  BY <1>5 DEF Topics!Replace, Topics!Csv, Topics!NoFile, TopicsInv, TopicsTypes, TopicsWork,
              TopicsOutput
<1>6. CASE Topics!Stop
  BY <1>6 DEF Topics!Stop, TopicsInv, TopicsTypes, TopicsWork, TopicsOutput
<1> QED
  BY <1>1, <1>2, <1>3, <1>4, <1>5, <1>6 DEF Topics!Next

\* What its invariant promises.
LEMMA TopicsPromise ==
    TopicsInv => Topics!TypeOK /\ Topics!CsvWhole /\ Topics!ExitTellsTruth
<1> SUFFICES ASSUME TopicsInv
             PROVE  Topics!TypeOK /\ Topics!CsvWhole /\ Topics!ExitTellsTruth
  OBVIOUS
<1>1. Topics!TypeOK
  BY ScriptsAssumption DEF TopicsInv, TopicsTypes, Topics!TypeOK, Topics!Ended,
                           Topics!InspectionAssumption
<1>2. Topics!CsvWhole
  BY DEF TopicsInv, TopicsOutput, Topics!CsvWhole
<1>3. ASSUME pc \in {"ok", "incomplete"}
      PROVE  pc = "ok" <=> rows = inputs
  BY <1>3 DEF TopicsInv, TopicsTypes, TopicsWork, TopicsOutput
<1>4. Topics!ExitTellsTruth
  BY <1>3 DEF TopicsInv, TopicsWork, TopicsOutput, Topics!ExitTellsTruth
<1> QED
  BY <1>1, <1>2, <1>4

----------------------------------------------------------------------------
\* The batches of videos

\* A run at work, on a job, and a child that is alive.
AtWork == {"plan", "next", "sweep", "launch", "feed", "wait", "replace", "manifest"}
OnJob == {"sweep", "launch", "feed", "wait", "replace"}
Alive == {"started", "writing"}

\* The arguments, the runs and the directory.
BatchTypes ==
    /\ inputs \in [VideoRuns -> SUBSET VideoBags]
    /\ unplanned \in [VideoRuns -> SUBSET VideoBags]
    /\ jobs \in [VideoRuns -> SUBSET VideoBags]
    /\ overwrite \subseteq VideoRuns
    /\ pc \in [VideoRuns -> AtWork \cup Batch!Over \cup {"start"}]
    /\ current \in [VideoRuns -> VideoBags \cup {Nothing}]
    /\ fed \in [VideoRuns -> {"no", "frames", "none", "error"}]
    /\ rows \in [VideoRuns -> SUBSET [bag : VideoBags, ok : BOOLEAN]]
    /\ ffmpeg \in [VideoRuns -> Alive \cup {"none", "exit0", "exit1"}]
    /\ file \in [VideoRuns -> Batch!Files \cup {Nothing}]
    /\ staged \in [Batch!Outputs -> Batch!Files \cup {Nothing}]
    /\ final \in [Batch!Outputs -> Batch!Files \cup {Nothing, Prior}]
    /\ mixed = {} /\ whole \subseteq Batch!Files

\* A run, or the child a killed run has left behind, is alone.
Busy(r) == pc[r] \in AtWork \/ ffmpeg[r] \in Alive
BatchAlone == \A r, s \in VideoRuns : Busy(r) /\ Busy(s) => r = s

\* The jobs are planned bags, which have different videos.
BatchPlan ==
    \A r \in VideoRuns :
        /\ jobs[r] \subseteq inputs[r] \ unplanned[r]
        /\ unplanned[r] \subseteq inputs[r]
        /\ pc[r] = "start" => jobs[r] = {}
        /\ current[r] \in jobs[r] \cup {Nothing}
        /\ \A b, c \in inputs[r] \ unplanned[r] : VideoOf[b] = VideoOf[c] => b = c

\* A run writes at most one row for each of its jobs, and one for all of them
\* before the manifest.
BatchRows ==
    \A r \in VideoRuns :
        /\ \A row \in rows[r] : row.bag \in jobs[r]
        /\ \A row, other \in rows[r] : row.bag = other.bag => row = other
        /\ pc[r] = "manifest" => jobs[r] \subseteq Batch!RowsOf(r)

\* A child works on a job that has no row yet, on a file of its own.
BatchChild ==
    \A r \in VideoRuns :
        /\ pc[r] \in OnJob \/ ffmpeg[r] \in Alive =>
              current[r] \in jobs[r] \ Batch!RowsOf(r)
        /\ ffmpeg[r] \in Alive => pc[r] \in {"feed", "wait", "killed"}
        /\ pc[r] = "launch" \/ ffmpeg[r] = "started" => staged[Batch!Out(r)] = Nothing
        /\ ffmpeg[r] = "writing" =>
              file[r] = Batch!Own(r) /\ staged[Batch!Out(r)] = Batch!Own(r)
        /\ pc[r] = "feed" => ffmpeg[r] \in Alive \cup {"exit1"}
        /\ pc[r] = "replace" \/ (pc[r] = "wait" /\ fed[r] = "frames" /\ ffmpeg[r] = "exit0")
              => staged[Batch!Out(r)] = Batch!Own(r) /\ Batch!Own(r) \in whole

\* A file stands under the staging name of its bag; it is whole, or its run
\* works on it or was killed.
BatchStaged ==
    \A o \in Batch!Outputs, r \in VideoRuns, b \in VideoBags :
        staged[o] = <<r, b>> =>
            /\ VideoOf[b] = o
            /\ \/ <<r, b>> \in whole
               \/ pc[r] = "killed"
               \/ pc[r] \in {"feed", "wait"} /\ b = current[r]

\* A video is whole and its run has an "ok" row for it; what replaced the video
\* of such a row is the video of another run.
BatchFinal ==
    /\ \A o \in Batch!Outputs, r \in VideoRuns, b \in VideoBags :
          final[o] = <<r, b>> => /\ <<r, b>> \in whole
                                 /\ VideoOf[b] = o
                                 /\ [bag |-> b, ok |-> TRUE] \in rows[r]
    /\ \A r \in VideoRuns : \A row \in rows[r] : row.ok =>
          \/ final[VideoOf[row.bag]] = <<r, row.bag>>
          \/ \E s \in VideoRuns \ {r}, b \in VideoBags : final[VideoOf[row.bag]] = <<s, b>>

\* The manifest is that of a run that has ended.
BatchManifest ==
    manifest # Nothing =>
        /\ manifest.run \in VideoRuns /\ pc[manifest.run] = "ended"
        /\ manifest.rows = rows[manifest.run]
        /\ jobs[manifest.run] \subseteq Batch!RowsOf(manifest.run)

\* A run without --overwrite finds nothing where it is going to put a file.
BatchFree ==
    \A r \in VideoRuns \ overwrite : pc[r] \in AtWork =>
        /\ manifest = Nothing
        /\ \A b \in jobs[r] \ Batch!RowsOf(r) : final[VideoOf[b]] = Nothing

BatchInv ==
    /\ BatchTypes /\ BatchAlone /\ BatchPlan /\ BatchRows /\ BatchChild
    /\ BatchStaged /\ BatchFinal /\ BatchManifest /\ BatchFree

\* What the bounds say, and that a file has a run and a bag.
LEMMA BatchFacts ==
    /\ IsFiniteSet(VideoBags) /\ DOMAIN VideoOf = VideoBags
    /\ \A bags \in VideoBatches : bags \in SUBSET VideoBags
    /\ Batch!Files = VideoRuns \X VideoBags
    /\ \A r \in VideoRuns, b \in VideoBags : <<r, b>> # Nothing /\ <<r, b>> # Prior
    /\ Nothing # Prior
    /\ \A b \in VideoBags : VideoOf[b] \in Batch!Outputs
<1>1. Batch!VideoAssumption
  BY ScriptsAssumption
<1>2. Batch!Files = VideoRuns \X VideoBags
  BY DEF Batch!Files
<1>3. \A b \in VideoBags : VideoOf[b] \in Batch!Outputs
  BY DEF Batch!Outputs
<1>4. Nothing # Prior
  BY <1>1 DEF Batch!VideoAssumption
<1>5. \A r \in VideoRuns, b \in VideoBags : <<r, b>> # Nothing /\ <<r, b>> # Prior
  BY <1>1 DEF Batch!VideoAssumption
<1>6. \A bags \in VideoBatches : bags \in SUBSET VideoBags
  BY <1>1 DEF Batch!VideoAssumption
<1>7. DOMAIN VideoOf = VideoBags
  BY <1>1 DEF Batch!VideoAssumption
<1>8. IsFiniteSet(VideoBags)
  BY <1>1 DEF Batch!VideoAssumption, IsFiniteSet, Batch!IsFiniteSet
<1> QED
  BY <1>8, <1>2, <1>3, <1>4, <1>5, <1>6, <1>7

\* The row of a job, which had none: the rows stay a function of the bags.
LEMMA BatchRecords ==
    ASSUME BatchInv, NEW r \in VideoRuns, NEW b \in jobs[r] \ Batch!RowsOf(r),
           NEW ok \in BOOLEAN, Batch!Record(r, b, ok), UNCHANGED jobs
    PROVE  /\ rows' = [rows EXCEPT ![r] = @ \cup {[bag |-> b, ok |-> ok]}]
           /\ rows' \in [VideoRuns -> SUBSET [bag : VideoBags, ok : BOOLEAN]]
           /\ pc' \in [VideoRuns -> AtWork \cup Batch!Over \cup {"start"}]
           /\ pc'[r] \in {"next", "manifest"}
           /\ \A s \in VideoRuns : s # r => pc'[s] = pc[s] /\ rows'[s] = rows[s]
           /\ rows'[r] = rows[r] \cup {[bag |-> b, ok |-> ok]}
           /\ \A s \in VideoRuns : s # r => Batch!RowsOf(s)' = Batch!RowsOf(s)
           /\ Batch!RowsOf(r)' = Batch!RowsOf(r) \cup {b}
           /\ BatchRows'
<1>1. /\ rows' = [rows EXCEPT ![r] = @ \cup {[bag |-> b, ok |-> ok]}]
      /\ pc' = [pc EXCEPT ![r] = IF jobs[r] = Batch!RowsOf(r) \cup {b}
                                 THEN "manifest" ELSE "next"]
  BY DEF Batch!Record, Batch!Goto
<1>2. b \in VideoBags /\ [bag |-> b, ok |-> ok] \in [bag : VideoBags, ok : BOOLEAN]
  BY DEF BatchInv, BatchTypes
<1>3. /\ rows' \in [VideoRuns -> SUBSET [bag : VideoBags, ok : BOOLEAN]]
      /\ pc' \in [VideoRuns -> AtWork \cup Batch!Over \cup {"start"}]
      /\ pc'[r] \in {"next", "manifest"}
      /\ pc'[r] = "manifest" => jobs[r] = Batch!RowsOf(r) \cup {b}
      /\ \A s \in VideoRuns : s # r => pc'[s] = pc[s] /\ rows'[s] = rows[s]
      /\ rows'[r] = rows[r] \cup {[bag |-> b, ok |-> ok]}
  BY <1>1, <1>2 DEF BatchInv, BatchTypes, AtWork
<1>4. \A s \in VideoRuns : s # r => Batch!RowsOf(s)' = Batch!RowsOf(s)
  BY <1>3 DEF Batch!RowsOf
<1>5. Batch!RowsOf(r)' = Batch!RowsOf(r) \cup {b}
  <2>1. Batch!RowsOf(r)' = {row.bag : row \in rows[r] \cup {[bag |-> b, ok |-> ok]}}
    BY <1>3 DEF Batch!RowsOf
  <2>2. [bag |-> b, ok |-> ok].bag = b
    OBVIOUS
  <2> QED
    BY <2>1, <2>2 DEF Batch!RowsOf
<1>6. \A row \in rows[r] : row.bag # b
  BY DEF Batch!RowsOf
<1>7. BatchRows'
  BY <1>3, <1>4, <1>5, <1>6 DEF BatchInv, BatchRows
<1> QED
  BY <1>1, <1>3, <1>4, <1>5, <1>7

\* A job fails at any of its steps; if ffmpeg has run, what it wrote is swept.
LEMMA BatchFails ==
    ASSUME BatchInv, NEW r \in VideoRuns, NEW b \in jobs[r] \ Batch!RowsOf(r),
           Batch!Record(r, b, FALSE), ffmpeg[r] \notin Alive,
           pc[r] \in {"next", "launch", "wait", "replace"},
           pc[r] # "next" => b = current[r],
           current' \in {current, [current EXCEPT ![r] = b]},
           staged' \in {staged, [staged EXCEPT ![VideoOf[b]] = Nothing]},
           pc[r] = "wait" => staged'[VideoOf[b]] = Nothing,
           UNCHANGED <<inputs, overwrite, unplanned, jobs, fed, ffmpeg, file, final,
                       manifest, mixed, whole>>
    PROVE  BatchInv'
<1> USE BatchFacts DEF AtWork, OnJob, Alive, Batch!Out, Batch!Own
<1>1. /\ rows' = [rows EXCEPT ![r] = @ \cup {[bag |-> b, ok |-> FALSE]}]
      /\ rows' \in [VideoRuns -> SUBSET [bag : VideoBags, ok : BOOLEAN]]
      /\ pc' \in [VideoRuns -> AtWork \cup Batch!Over \cup {"start"}]
      /\ pc'[r] \in {"next", "manifest"}
      /\ \A s \in VideoRuns : s # r => pc'[s] = pc[s] /\ rows'[s] = rows[s]
      /\ rows'[r] = rows[r] \cup {[bag |-> b, ok |-> FALSE]}
      /\ \A s \in VideoRuns : s # r => Batch!RowsOf(s)' = Batch!RowsOf(s)
      /\ Batch!RowsOf(r)' = Batch!RowsOf(r) \cup {b}
      /\ BatchRows'
  BY BatchRecords
<1>2. /\ b \in VideoBags /\ VideoOf[b] \in Batch!Outputs
      /\ \A s \in VideoRuns : s # r => current'[s] = current[s]
      /\ current'[r] \in {current[r], b}
  BY DEF BatchInv, BatchTypes
<1>3. BatchTypes'
  <2>1. staged' \in [Batch!Outputs -> Batch!Files \cup {Nothing}]
    BY <1>2 DEF BatchInv, BatchTypes
  <2>2. current' \in [VideoRuns -> VideoBags \cup {Nothing}]
    BY <1>2 DEF BatchInv, BatchTypes
  <2> QED
    BY <1>1, <2>1, <2>2 DEF BatchInv, BatchTypes
<1>4. BatchAlone'
  BY <1>1 DEF BatchInv, BatchAlone, Busy
<1>5. BatchPlan'
  BY <1>1, <1>2 DEF BatchInv, BatchPlan
<1>6. BatchChild'
  <2>1. \A s \in VideoRuns : s # r => pc[s] \notin AtWork /\ ffmpeg[s] \notin Alive
    BY DEF BatchInv, BatchAlone, Busy
  <2>2. \A s \in VideoRuns : pc'[s] \notin OnJob /\ ffmpeg'[s] \notin Alive
    BY <1>1, <2>1
  <2> QED
    BY <2>2 DEF BatchChild
<1>7. BatchStaged'
  <2> SUFFICES ASSUME NEW o \in Batch!Outputs, NEW q \in VideoRuns, NEW c \in VideoBags,
                      staged'[o] = <<q, c>>
               PROVE  /\ VideoOf[c] = o
                      /\ \/ <<q, c>> \in whole
                         \/ pc'[q] = "killed"
                         \/ pc'[q] \in {"feed", "wait"} /\ c = current'[q]
    BY DEF BatchStaged
  <2>1. staged[o] = <<q, c>>
    BY <1>2 DEF BatchInv, BatchTypes
  <2>2. /\ VideoOf[c] = o
        /\ \/ <<q, c>> \in whole
           \/ pc[q] = "killed"
           \/ pc[q] \in {"feed", "wait"} /\ c = current[q]
    BY <2>1 DEF BatchInv, BatchStaged
  <2>3. CASE q # r
    BY <1>1, <1>2, <2>2, <2>3
  <2>4. CASE q = r
    BY <2>2, <2>4
  <2> QED
    BY <2>3, <2>4
<1>8. BatchFinal'
  BY <1>1, <1>2 DEF BatchInv, BatchTypes, BatchFinal
<1>9. BatchManifest'
  BY <1>1, <1>2 DEF BatchInv, BatchManifest
<1>10. BatchFree'
  BY <1>1, <1>2 DEF BatchInv, BatchFree
<1> QED
  BY <1>1, <1>3, <1>4, <1>5, <1>6, <1>7, <1>8, <1>9, <1>10 DEF BatchInv

\* A run begins where no other run or child works.
LEMMA BatchStart ==
    ASSUME BatchInv, NEW r \in VideoRuns, Batch!Start(r)
    PROVE  BatchInv'
<1> USE BatchFacts DEF Batch!Start, Batch!MayStart, Batch!Goto, Batch!child,
     Batch!directory, Batch!Over, Batch!RowsOf, Batch!Out, Batch!Own, AtWork, OnJob,
     Alive
<1>1. BatchTypes'
  BY DEF BatchTypes, BatchInv
<1>2. BatchAlone'
  BY DEF BatchAlone, BatchInv, BatchTypes, Busy
<1>3. BatchPlan'
  BY DEF BatchPlan, BatchInv, BatchTypes
<1>4. BatchRows'
  BY DEF BatchRows, BatchInv
<1>5. BatchChild'
  BY DEF BatchChild, BatchInv
<1>6. BatchStaged'
  BY DEF BatchStaged, BatchInv
<1>7. BatchFinal'
  BY DEF BatchFinal, BatchInv, BatchTypes
<1>8. BatchManifest'
  BY DEF BatchManifest, BatchInv
<1>9. BatchFree'
  BY DEF BatchFree, BatchInv, BatchTypes, BatchPlan
<1> QED
  BY <1>1, <1>2, <1>3, <1>4, <1>5, <1>6, <1>7, <1>8, <1>9 DEF BatchInv

\* A bag becomes a job only if no earlier bag has the same video.
LEMMA BatchPlanBag ==
    ASSUME BatchInv, NEW r \in VideoRuns, Batch!PlanBag(r)
    PROVE  BatchInv'
<1> USE BatchFacts DEF Batch!PlanBag, Batch!Goto, Batch!Collides, Batch!Skipped,
     Batch!arguments, Batch!child, Batch!directory, Batch!Over, Batch!RowsOf, Batch!Out,
     Batch!Own, AtWork, OnJob, Alive
<1>1. BatchTypes'
  <2>1. PICK b \in unplanned[r] :
            \/ Batch!Goto(r, "refused") /\ UNCHANGED <<unplanned, jobs>>
            \/ /\ unplanned' = [unplanned EXCEPT ![r] = @ \ {b}]
               /\ jobs' \in {jobs, [jobs EXCEPT ![r] = @ \cup {b}]}
               /\ UNCHANGED pc
    BY DEF BatchInv, BatchTypes
  <2> QED
    BY SMTT(60), <2>1 DEF BatchInv, BatchTypes
<1>2. BatchAlone'
  BY DEF BatchAlone, BatchInv, BatchTypes, Busy
<1>3. BatchPlan'
  BY SMTT(60) DEF BatchPlan, BatchInv, BatchTypes
<1>4. BatchRows'
  BY SMTT(60) DEF BatchRows, BatchInv, BatchTypes
<1>5. BatchChild'
  BY DEF BatchChild, BatchInv, BatchTypes
<1>6. BatchStaged'
  BY DEF BatchStaged, BatchInv, BatchTypes
<1>7. BatchFinal'
  BY DEF BatchFinal, BatchInv, BatchTypes
<1>8. BatchManifest'
  BY DEF BatchManifest, BatchInv, BatchTypes
<1>9. BatchFree'
  BY DEF BatchFree, BatchInv, BatchTypes
<1> QED
  BY <1>1, <1>2, <1>3, <1>4, <1>5, <1>6, <1>7, <1>8, <1>9 DEF BatchInv

\* Every bag was looked at: on to the jobs, if there are any.
LEMMA BatchPlanned ==
    ASSUME BatchInv, NEW r \in VideoRuns, Batch!Planned(r)
    PROVE  BatchInv'
<1> USE BatchFacts DEF Batch!Planned, Batch!Goto, Batch!arguments, Batch!batch,
     Batch!child, Batch!directory, Batch!Over, Batch!RowsOf, Batch!Out, Batch!Own,
     AtWork, OnJob, Alive
<1>1. BatchTypes'
  BY DEF BatchTypes, BatchInv
<1>2. BatchAlone'
  BY DEF BatchAlone, BatchInv, BatchTypes, Busy
<1>3. BatchPlan'
  BY DEF BatchPlan, BatchInv
<1>4. BatchRows'
  BY DEF BatchRows, BatchInv
<1>5. BatchChild'
  BY SMTT(60) DEF BatchChild, BatchInv
<1>6. BatchStaged'
  BY DEF BatchStaged, BatchInv
<1>7. BatchFinal'
  BY DEF BatchFinal, BatchInv, BatchTypes
<1>8. BatchManifest'
  BY DEF BatchManifest, BatchInv
<1>9. BatchFree'
  BY DEF BatchFree, BatchInv
<1> QED
  BY <1>1, <1>2, <1>3, <1>4, <1>5, <1>6, <1>7, <1>8, <1>9 DEF BatchInv

\* The staging name is free before ffmpeg is started,
LEMMA BatchSweep ==
    ASSUME BatchInv, NEW r \in VideoRuns, Batch!Sweep(r)
    PROVE  BatchInv'
<1> USE BatchFacts DEF Batch!Sweep, Batch!Fresh, Batch!Goto, Batch!arguments,
     Batch!batch, Batch!child, Batch!Over, Batch!RowsOf, Batch!Out, Batch!Own, AtWork,
     OnJob, Alive
<1>1. BatchTypes'
  BY DEF BatchTypes, BatchInv
<1>2. BatchAlone'
  BY DEF BatchAlone, BatchInv, BatchTypes, Busy
<1>3. BatchPlan'
  BY DEF BatchPlan, BatchInv
<1>4. BatchRows'
  BY DEF BatchRows, BatchInv
<1>5. BatchChild'
  BY DEF BatchChild, BatchInv, BatchTypes, BatchAlone, Busy
<1>6. BatchStaged'
  BY DEF BatchStaged, BatchInv
<1>7. BatchFinal'
  BY DEF BatchFinal, BatchInv, BatchTypes
<1>8. BatchManifest'
  BY DEF BatchManifest, BatchInv
<1>9. BatchFree'
  BY DEF BatchFree, BatchInv
<1> QED
  BY <1>1, <1>2, <1>3, <1>4, <1>5, <1>6, <1>7, <1>8, <1>9 DEF BatchInv

\* The loop over the messages ends, one way or another.
LEMMA BatchFeed ==
    ASSUME BatchInv, NEW r \in VideoRuns, Batch!Feed(r)
    PROVE  BatchInv'
<1> USE BatchFacts DEF Batch!Feed, Batch!Goto, Batch!arguments, Batch!child,
     Batch!directory, Batch!Over, Batch!RowsOf, Batch!Out, Batch!Own, AtWork, OnJob,
     Alive
<1>1. BatchTypes'
  BY DEF BatchTypes, BatchInv
<1>2. BatchAlone'
  BY DEF BatchAlone, BatchInv, BatchTypes, Busy
<1>3. BatchPlan'
  BY DEF BatchPlan, BatchInv
<1>4. BatchRows'
  BY DEF BatchRows, BatchInv
<1>5. BatchChild'
  BY SMTT(60) DEF BatchChild, BatchInv
<1>6. BatchStaged'
  BY DEF BatchStaged, BatchInv
<1>7. BatchFinal'
  BY DEF BatchFinal, BatchInv
<1>8. BatchManifest'
  BY DEF BatchManifest, BatchInv
<1>9. BatchFree'
  BY DEF BatchFree, BatchInv
<1> QED
  BY <1>1, <1>2, <1>3, <1>4, <1>5, <1>6, <1>7, <1>8, <1>9 DEF BatchInv

\* The manifest is written at the end, of all rows.
LEMMA BatchWriteManifest ==
    ASSUME BatchInv, NEW r \in VideoRuns, Batch!WriteManifest(r)
    PROVE  BatchInv'
<1> USE BatchFacts DEF Batch!WriteManifest, Batch!Goto, Batch!arguments, Batch!batch,
     Batch!child, Batch!Over, Batch!RowsOf, Batch!Out, Batch!Own, AtWork, OnJob, Alive
<1>1. BatchTypes'
  BY DEF BatchTypes, BatchInv
<1>2. BatchAlone'
  BY DEF BatchAlone, BatchInv, BatchTypes, Busy
<1>3. BatchPlan'
  BY DEF BatchPlan, BatchInv
<1>4. BatchRows'
  BY DEF BatchRows, BatchInv
<1>5. BatchChild'
  BY DEF BatchChild, BatchInv, BatchTypes
<1>6. BatchStaged'
  BY DEF BatchStaged, BatchInv
<1>7. BatchFinal'
  BY DEF BatchFinal, BatchInv, BatchTypes
<1>8. BatchManifest'
  BY DEF BatchManifest, BatchInv, BatchTypes, BatchPlan, BatchRows, BatchChild,
       BatchAlone, Busy
<1>9. BatchFree'
  BY DEF BatchFree, BatchInv, BatchTypes, BatchAlone, Busy
<1> QED
  BY <1>1, <1>2, <1>3, <1>4, <1>5, <1>6, <1>7, <1>8, <1>9 DEF BatchInv

\* so that the file ffmpeg creates is its own,
LEMMA BatchOpen ==
    ASSUME BatchInv, NEW r \in VideoRuns, Batch!Open(r)
    PROVE  BatchInv'
<1> USE BatchFacts DEF Batch!Open, Batch!arguments, Batch!batch, Batch!Over,
     Batch!RowsOf, Batch!Out, Batch!Own, AtWork, OnJob, Alive
<1>1. BatchTypes'
  BY DEF BatchTypes, BatchInv, BatchChild
<1>2. BatchAlone'
  BY DEF BatchAlone, BatchInv, BatchTypes, Busy
<1>3. BatchPlan'
  BY DEF BatchPlan, BatchInv
<1>4. BatchRows'
  BY SMTT(60) DEF BatchRows, BatchInv
<1>5. BatchChild'
  BY DEF BatchChild, BatchInv, BatchTypes, BatchAlone, Busy
<1>6. BatchStaged'
  BY SMTT(60) DEF BatchStaged, BatchInv, BatchTypes, BatchChild
<1>7. BatchFinal'
  BY DEF BatchFinal, BatchInv, BatchTypes, BatchAlone, Busy, BatchChild
<1>8. BatchManifest'
  BY DEF BatchManifest, BatchInv
<1>9. BatchFree'
  BY DEF BatchFree, BatchInv
<1> QED
  BY <1>1, <1>2, <1>3, <1>4, <1>5, <1>6, <1>7, <1>8, <1>9 DEF BatchInv

\* and it is whole when all frames were fed.
LEMMA BatchComplete ==
    ASSUME BatchInv, NEW r \in VideoRuns, Batch!Complete(r)
    PROVE  BatchInv'
<1> USE BatchFacts DEF Batch!Complete, Batch!arguments, Batch!batch, Batch!directory,
     Batch!Over, Batch!RowsOf, Batch!Out, Batch!Own, AtWork, OnJob, Alive
<1>1. BatchTypes'
  <2>1. file[r] = <<r, current[r]>> /\ current[r] \in jobs[r]
    BY DEF BatchInv, BatchChild
  <2>2. file[r] \in Batch!Files
    BY <2>1 DEF BatchInv, BatchTypes
  <2> QED
    BY <2>2 DEF BatchInv, BatchTypes
<1>2. BatchAlone'
  BY DEF BatchAlone, BatchInv, BatchTypes, Busy
<1>3. BatchPlan'
  BY DEF BatchPlan, BatchInv
<1>4. BatchRows'
  BY DEF BatchRows, BatchInv
<1>5. BatchChild'
  BY SMTT(60) DEF BatchChild, BatchInv, BatchTypes
<1>6. BatchStaged'
  BY DEF BatchStaged, BatchInv
<1>7. BatchFinal'
  BY DEF BatchFinal, BatchInv, BatchTypes
<1>8. BatchManifest'
  BY DEF BatchManifest, BatchInv
<1>9. BatchFree'
  BY DEF BatchFree, BatchInv
<1> QED
  BY <1>1, <1>2, <1>3, <1>4, <1>5, <1>6, <1>7, <1>8, <1>9 DEF BatchInv

\* ffmpeg fails by itself, and leaves what it has written.
LEMMA BatchFail ==
    ASSUME BatchInv, NEW r \in VideoRuns, Batch!Fail(r)
    PROVE  BatchInv'
<1> USE BatchFacts DEF Batch!Fail, Batch!arguments, Batch!batch, Batch!directory,
     Batch!Over, Batch!RowsOf, Batch!Out, Batch!Own, AtWork, OnJob, Alive
<1>1. BatchTypes'
  BY DEF BatchTypes, BatchInv
<1>2. BatchAlone'
  BY DEF BatchAlone, BatchInv, BatchTypes, Busy
<1>3. BatchPlan'
  BY DEF BatchPlan, BatchInv
<1>4. BatchRows'
  BY DEF BatchRows, BatchInv
<1>5. BatchChild'
  BY SMTT(60) DEF BatchChild, BatchInv
<1>6. BatchStaged'
  BY DEF BatchStaged, BatchInv
<1>7. BatchFinal'
  BY DEF BatchFinal, BatchInv
<1>8. BatchManifest'
  BY DEF BatchManifest, BatchInv
<1>9. BatchFree'
  BY DEF BatchFree, BatchInv
<1> QED
  BY <1>1, <1>2, <1>3, <1>4, <1>5, <1>6, <1>7, <1>8, <1>9 DEF BatchInv

\* A kill leaves the child behind, and what it has written.
LEMMA BatchKill ==
    ASSUME BatchInv, NEW r \in VideoRuns, Batch!Kill(r)
    PROVE  BatchInv'
<1> USE BatchFacts DEF Batch!Kill, Batch!Goto, Batch!arguments, Batch!batch,
     Batch!child, Batch!directory, Batch!Over, Batch!RowsOf, Batch!Out, Batch!Own,
     AtWork, OnJob, Alive
<1>1. BatchTypes'
  BY DEF BatchTypes, BatchInv
<1>2. BatchAlone'
  BY DEF BatchAlone, BatchInv, BatchTypes, Busy
<1>3. BatchPlan'
  BY DEF BatchPlan, BatchInv
<1>4. BatchRows'
  BY DEF BatchRows, BatchInv
<1>5. BatchChild'
  BY SMTT(60) DEF BatchChild, BatchInv
<1>6. BatchStaged'
  BY DEF BatchStaged, BatchInv
<1>7. BatchFinal'
  BY DEF BatchFinal, BatchInv
<1>8. BatchManifest'
  BY DEF BatchManifest, BatchInv
<1>9. BatchFree'
  BY DEF BatchFree, BatchInv
<1> QED
  BY <1>1, <1>2, <1>3, <1>4, <1>5, <1>6, <1>7, <1>8, <1>9 DEF BatchInv

\* The first frame of the topic decides whether the job fails right away.
LEMMA BatchPreview ==
    ASSUME BatchInv, NEW r \in VideoRuns, Batch!Preview(r)
    PROVE  BatchInv'
<1> USE BatchFacts DEF AtWork, OnJob, Alive, Batch!Out, Batch!Own
<1>1. PICK b \in jobs[r] \ Batch!RowsOf(r) :
          /\ current' = [current EXCEPT ![r] = b]
          /\ \/ Batch!Record(r, b, FALSE)
             \/ Batch!Goto(r, "sweep") /\ UNCHANGED rows
  BY DEF Batch!Preview
<1>2. /\ pc[r] = "next" /\ ffmpeg[r] \notin Alive
      /\ UNCHANGED <<inputs, overwrite, unplanned, jobs, fed, ffmpeg, file, staged,
                     final, manifest, mixed, whole>>
  BY DEF BatchInv, BatchChild, Batch!Preview, Batch!arguments, Batch!child,
       Batch!directory
<1>3. CASE Batch!Record(r, b, FALSE)
  BY <1>1, <1>2, <1>3, BatchFails
<1>4. CASE Batch!Goto(r, "sweep") /\ UNCHANGED rows
  <2>1. /\ pc' = [pc EXCEPT ![r] = "sweep"] /\ UNCHANGED rows
        /\ \A s \in VideoRuns : Batch!RowsOf(s)' = Batch!RowsOf(s)
    BY <1>4 DEF Batch!Goto, Batch!RowsOf
  <2> USE <1>1, <1>2, <2>1 DEF BatchInv, BatchTypes
  <2>2. BatchTypes'
    OBVIOUS
  <2>3. BatchAlone'
    BY DEF BatchAlone, Busy
  <2>4. BatchPlan'
    BY DEF BatchPlan
  <2>5. BatchRows'
    BY DEF BatchRows
  <2>6. BatchChild'
    BY DEF BatchChild
  <2>7. BatchStaged'
    BY DEF BatchStaged
  <2>8. BatchFinal'
    BY DEF BatchFinal
  <2>9. BatchManifest'
    BY DEF BatchManifest
  <2>10. BatchFree'
    BY DEF BatchFree
  <2> QED
    BY <2>2, <2>3, <2>4, <2>5, <2>6, <2>7, <2>8, <2>9, <2>10 DEF BatchInv
<1> QED
  BY <1>1, <1>3, <1>4

\* The launch of ffmpeg: the run is alone, so the staging name is free.
LEMMA BatchLaunch ==
    ASSUME BatchInv, NEW r \in VideoRuns, Batch!Launch(r)
    PROVE  BatchInv'
<1> USE BatchFacts DEF AtWork, OnJob, Alive, Batch!Out, Batch!Own
<1>1. /\ pc[r] = "launch" /\ ffmpeg[r] \notin Alive
      /\ current[r] \in jobs[r] \ Batch!RowsOf(r)
      /\ UNCHANGED <<inputs, overwrite, unplanned, jobs, current, staged, final, manifest,
                     mixed, whole>>
  BY DEF BatchInv, BatchChild, Batch!Launch, Batch!arguments, Batch!directory
<1>2. CASE Batch!Record(r, current[r], FALSE) /\ UNCHANGED <<ffmpeg, file, fed>>
  BY <1>1, <1>2, BatchFails
<1>3. CASE /\ ffmpeg' = [ffmpeg EXCEPT ![r] = "started"]
           /\ file' = [file EXCEPT ![r] = Nothing]
           /\ fed' = [fed EXCEPT ![r] = "no"]
           /\ Batch!Goto(r, "feed")
           /\ UNCHANGED rows
  <2>1. /\ pc' = [pc EXCEPT ![r] = "feed"]
        /\ \A s \in VideoRuns : Batch!RowsOf(s)' = Batch!RowsOf(s)
    BY <1>3 DEF Batch!Goto, Batch!RowsOf
  <2> USE <1>1, <1>3, <2>1 DEF BatchInv, BatchTypes
  <2>2. BatchTypes'
    OBVIOUS
  <2>3. BatchAlone'
    BY DEF BatchAlone, Busy
  <2>4. BatchPlan'
    BY DEF BatchPlan
  <2>5. BatchRows'
    BY DEF BatchRows
  <2>6. BatchChild'
    BY DEF BatchChild
  <2>7. BatchStaged'
    BY DEF BatchStaged
  <2>8. BatchFinal'
    BY DEF BatchFinal
  <2>9. BatchManifest'
    BY DEF BatchManifest
  <2>10. BatchFree'
    BY DEF BatchFree
  <2> QED
    BY <2>2, <2>3, <2>4, <2>5, <2>6, <2>7, <2>8, <2>9, <2>10 DEF BatchInv
<1> QED
  BY <1>2, <1>3 DEF Batch!Launch, Batch!child

\* What the return code of ffmpeg decides.
LEMMA BatchJudge ==
    ASSUME BatchInv, NEW r \in VideoRuns, Batch!Judge(r)
    PROVE  BatchInv'
<1> USE BatchFacts DEF AtWork, OnJob, Alive, Batch!Out, Batch!Own
<1>1. /\ pc[r] = "wait" /\ ffmpeg[r] \in {"exit0", "exit1"}
      /\ current[r] \in jobs[r] \ Batch!RowsOf(r)
      /\ UNCHANGED <<inputs, overwrite, unplanned, jobs, current, fed, ffmpeg, file, final,
                     manifest, mixed, whole>>
  BY DEF BatchInv, BatchChild, Batch!Judge, Batch!arguments, Batch!child
<1>2. current[r] \in VideoBags /\ VideoOf[current[r]] \in Batch!Outputs
  BY <1>1 DEF BatchInv, BatchTypes
<1>3. CASE ~Batch!Succeeded(r)
  <2>1. staged' = [staged EXCEPT ![VideoOf[current[r]]] = Nothing]
    BY <1>3 DEF Batch!Judge, Batch!Swept
  <2>2. staged'[VideoOf[current[r]]] = Nothing
    BY <1>2, <2>1 DEF BatchInv, BatchTypes
  <2> QED
    BY <1>1, <1>3, <2>1, <2>2, BatchFails DEF Batch!Judge
<1>4. CASE Batch!Succeeded(r)
  <2>1. /\ pc' = [pc EXCEPT ![r] = "replace"] /\ UNCHANGED <<rows, staged>>
        /\ fed[r] = "frames" /\ ffmpeg[r] = "exit0"
        /\ \A s \in VideoRuns : Batch!RowsOf(s)' = Batch!RowsOf(s)
    BY <1>4 DEF Batch!Judge, Batch!Succeeded, Batch!Goto, Batch!RowsOf
  <2> USE <1>1, <2>1 DEF BatchInv, BatchTypes
  <2>2. BatchTypes'
    OBVIOUS
  <2>3. BatchAlone'
    BY DEF BatchAlone, Busy
  <2>4. BatchPlan'
    BY DEF BatchPlan
  <2>5. BatchRows'
    BY DEF BatchRows
  <2>6. BatchChild'
    BY DEF BatchChild
  <2>7. BatchStaged'
    BY DEF BatchStaged, BatchChild
  <2>8. BatchFinal'
    BY DEF BatchFinal
  <2>9. BatchManifest'
    BY DEF BatchManifest
  <2>10. BatchFree'
    BY DEF BatchFree
  <2> QED
    BY <2>2, <2>3, <2>4, <2>5, <2>6, <2>7, <2>8, <2>9, <2>10 DEF BatchInv
<1> QED
  BY <1>3, <1>4

\* The video takes its final name: it is whole, and it is not that of another
\* row of the same run.
LEMMA BatchReplace ==
    ASSUME BatchInv, NEW r \in VideoRuns, Batch!Replace(r)
    PROVE  BatchInv'
<1> USE BatchFacts DEF AtWork, OnJob, Alive
<1> DEFINE b == current[r]
           o == VideoOf[b]
<1>1. /\ pc[r] = "replace" /\ ffmpeg[r] \notin Alive
      /\ b \in jobs[r] \ Batch!RowsOf(r)
      /\ staged[o] = <<r, b>> /\ <<r, b>> \in whole
      /\ UNCHANGED <<inputs, overwrite, unplanned, jobs, current, fed, ffmpeg, file,
                     manifest, mixed, whole>>
  BY DEF BatchInv, BatchChild, Batch!Replace, Batch!arguments, Batch!child, Batch!Out,
       Batch!Own
<1>2. b \in VideoBags /\ o \in Batch!Outputs
  BY <1>1 DEF BatchInv, BatchTypes
<1>3. CASE Batch!Record(r, b, FALSE) /\ UNCHANGED <<final, staged>>
  BY <1>1, <1>3, BatchFails
<1>4. CASE /\ final' = [final EXCEPT ![o] = staged[o]]
           /\ staged' = [staged EXCEPT ![o] = Nothing]
           /\ Batch!Record(r, b, TRUE)
  <2>1. /\ rows' \in [VideoRuns -> SUBSET [bag : VideoBags, ok : BOOLEAN]]
        /\ pc' \in [VideoRuns -> AtWork \cup Batch!Over \cup {"start"}]
        /\ pc'[r] \in {"next", "manifest"}
        /\ \A s \in VideoRuns : s # r => pc'[s] = pc[s] /\ rows'[s] = rows[s]
        /\ rows'[r] = rows[r] \cup {[bag |-> b, ok |-> TRUE]}
        /\ \A s \in VideoRuns : s # r => Batch!RowsOf(s)' = Batch!RowsOf(s)
        /\ Batch!RowsOf(r)' = Batch!RowsOf(r) \cup {b}
        /\ BatchRows'
    BY <1>1, <1>4, BatchRecords
  <2>2. /\ final' \in [Batch!Outputs -> Batch!Files \cup {Nothing, Prior}]
        /\ staged' \in [Batch!Outputs -> Batch!Files \cup {Nothing}]
        /\ final'[o] = <<r, b>> /\ staged'[o] = Nothing
        /\ \A x \in Batch!Outputs : x # o => final'[x] = final[x] /\ staged'[x] = staged[x]
    BY <1>1, <1>2, <1>4 DEF BatchInv, BatchTypes
  <2>3. \A s \in VideoRuns : s # r => pc[s] \notin AtWork /\ ffmpeg[s] \notin Alive
    BY <1>1 DEF BatchInv, BatchAlone, Busy
  <2>4. BatchTypes'
    BY <1>1, <2>1, <2>2 DEF BatchInv, BatchTypes
  <2>5. BatchAlone'
    BY <1>1, <2>1, <2>3 DEF BatchAlone, Busy
  <2>6. BatchPlan'
    BY <1>1, <2>1 DEF BatchInv, BatchPlan
  <2>7. BatchChild'
    <3>1. \A s \in VideoRuns : pc'[s] \notin OnJob /\ ffmpeg'[s] \notin Alive
      BY <1>1, <2>1, <2>3
    <3> QED
      BY <3>1 DEF BatchChild
  <2>8. BatchStaged'
    <3> SUFFICES ASSUME NEW x \in Batch!Outputs, NEW q \in VideoRuns, NEW c \in VideoBags,
                        staged'[x] = <<q, c>>
                 PROVE  /\ VideoOf[c] = x
                        /\ \/ <<q, c>> \in whole
                           \/ pc'[q] = "killed"
                           \/ pc'[q] \in {"feed", "wait"} /\ c = current'[q]
      BY <1>1 DEF BatchStaged
    <3>1. x # o /\ staged[x] = <<q, c>>
      BY <2>2
    <3>2. /\ VideoOf[c] = x
          /\ \/ <<q, c>> \in whole
             \/ pc[q] = "killed"
             \/ pc[q] \in {"feed", "wait"} /\ c = current[q]
      BY <3>1 DEF BatchInv, BatchStaged
    <3> QED
      BY <1>1, <2>1, <3>2
  <2>9. BatchFinal'
    <3>1. ASSUME NEW x \in Batch!Outputs, NEW q \in VideoRuns, NEW c \in VideoBags,
                 final'[x] = <<q, c>>
          PROVE  <<q, c>> \in whole' /\ VideoOf[c] = x /\ [bag |-> c, ok |-> TRUE] \in rows'[q]
      <4>1. CASE x = o
        BY <1>1, <2>1, <2>2, <3>1, <4>1
      <4>2. CASE x # o
        <5>1. final[x] = <<q, c>>
          BY <2>2, <3>1, <4>2
        <5>2. <<q, c>> \in whole /\ VideoOf[c] = x /\ [bag |-> c, ok |-> TRUE] \in rows[q]
          BY <5>1 DEF BatchInv, BatchFinal
        <5> QED
          BY <1>1, <2>1, <5>2
      <4> QED
        BY <4>1, <4>2
    <3>2. ASSUME NEW q \in VideoRuns, NEW row \in rows'[q], row.ok
          PROVE  \/ final'[VideoOf[row.bag]] = <<q, row.bag>>
                 \/ \E s \in VideoRuns \ {q}, c \in VideoBags : final'[VideoOf[row.bag]] = <<s, c>>
      <4>1. row.bag \in VideoBags /\ VideoOf[row.bag] \in Batch!Outputs
        BY <2>1
      <4>2. CASE VideoOf[row.bag] = o /\ q # r
        BY <1>2, <2>2, <4>2
      <4>3. CASE VideoOf[row.bag] = o /\ q = r
        <5>1. row.bag \in jobs[r]
          BY <1>1, <2>1, <3>2, <4>3 DEF BatchRows
        <5>2. row.bag = b
          BY SMTT(60), <1>1, <4>3, <5>1 DEF BatchInv, BatchPlan
        <5> QED
          BY <2>2, <4>3, <5>2
      <4>4. CASE VideoOf[row.bag] # o
        <5>1. row \in rows[q]
          <6>1. [bag |-> b, ok |-> TRUE].bag = b
            OBVIOUS
          <6> QED
            BY <2>1, <4>4, <6>1
        <5>2. \/ final[VideoOf[row.bag]] = <<q, row.bag>>
              \/ \E s \in VideoRuns \ {q}, c \in VideoBags : final[VideoOf[row.bag]] = <<s, c>>
          BY ZenonT(60), <3>2, <5>1 DEF BatchInv, BatchFinal
        <5> QED
          BY <2>2, <4>1, <4>4, <5>2
      <4> QED
        BY <4>2, <4>3, <4>4
    <3> QED
      BY <3>1, <3>2 DEF BatchFinal
  <2>10. BatchManifest'
    <3>1. manifest # Nothing /\ manifest.run \in VideoRuns => pc[manifest.run] = "ended"
      BY DEF BatchInv, BatchManifest
    <3> QED
      BY <1>1, <2>1, <3>1 DEF BatchInv, BatchManifest
  <2>11. BatchFree'
    <3> SUFFICES ASSUME NEW q \in VideoRuns \ overwrite, pc'[q] \in AtWork
                 PROVE  /\ manifest = Nothing
                        /\ \A c \in jobs[q] \ Batch!RowsOf(q)' : final'[VideoOf[c]] = Nothing
      BY <1>1 DEF BatchFree
    <3>1. q = r
      BY <2>1, <2>3
    <3>2. /\ manifest = Nothing
          /\ \A c \in jobs[r] \ Batch!RowsOf(r) : final[VideoOf[c]] = Nothing
      BY <1>1, <3>1 DEF BatchInv, BatchFree
    <3>3. ASSUME NEW c \in jobs[r], c # b PROVE VideoOf[c] # o /\ VideoOf[c] \in Batch!Outputs
      BY <1>1, <3>3 DEF BatchInv, BatchTypes, BatchPlan
    <3> QED
      BY <2>1, <2>2, <3>1, <3>2, <3>3
  <2> QED
    BY <2>1, <2>4, <2>5, <2>6, <2>7, <2>8, <2>9, <2>10, <2>11 DEF BatchInv
<1> QED
  BY <1>3, <1>4 DEF Batch!Replace, Batch!Out

\* Every step of a batch.
LEMMA BatchSteps == BatchInv /\ Batch!Next => BatchInv'
BY BatchStart, BatchPlanBag, BatchPlanned, BatchPreview, BatchSweep, BatchLaunch,
     BatchFeed,
   BatchJudge, BatchReplace, BatchWriteManifest, BatchOpen, BatchComplete, BatchFail, BatchKill
   DEF Batch!Next, Batch!Script

\* No batch has started yet.
LEMMA BatchStarts == BatchInit => BatchInv
<1> SUFFICES ASSUME Batch!Init PROVE BatchInv
  BY DEF BatchInit
<1> USE BatchFacts DEF Batch!Init, AtWork, OnJob, Alive, Busy
<1>1. BatchTypes
  BY DEF BatchTypes
<1>2. BatchAlone /\ BatchPlan /\ BatchRows /\ BatchChild /\ BatchStaged /\ BatchFinal
  BY DEF BatchAlone, BatchPlan, BatchRows, BatchChild, BatchStaged, BatchFinal
<1>3. BatchManifest /\ BatchFree
  BY DEF BatchManifest, BatchFree
<1> QED
  BY <1>1, <1>2, <1>3 DEF BatchInv

\* The cardinality inside the instance is that of the library.
LEMMA BatchCards == \A S : Batch!Cardinality(S) = Cardinality(S)
BY DEF Batch!Cardinality, Cardinality

\* What the invariant of the batches promises.
LEMMA BatchPromise ==
    BatchInv => /\ Batch!TypeOK /\ Batch!FinalsWhole /\ Batch!LeftoversWhole
                /\ Batch!ManifestTruthful
<1> SUFFICES ASSUME BatchInv
             PROVE  /\ Batch!TypeOK /\ Batch!FinalsWhole /\ Batch!LeftoversWhole
                    /\ Batch!ManifestTruthful
  OBVIOUS
<1> USE BatchFacts
<1>1. Batch!TypeOK
  <2>1. \A r \in VideoRuns : /\ unplanned[r] \cup jobs[r] \subseteq inputs[r]
                             /\ rows[r] \subseteq [bag : jobs[r], ok : BOOLEAN]
                             /\ current[r] \in jobs[r] \cup {Nothing}
    BY DEF BatchInv, BatchTypes, BatchPlan, BatchRows
  <2>2. manifest = Nothing \/ manifest.run \in VideoRuns
    BY DEF BatchInv, BatchManifest
  <2>3. pc \in [VideoRuns -> {"start", "refused", "plan", "next", "sweep", "launch",
                              "feed", "wait", "replace", "manifest", "ended", "killed"}]
    BY DEF BatchInv, BatchTypes, AtWork, Batch!Over
  <2> QED
    BY <2>1, <2>2, <2>3 DEF BatchInv, BatchTypes, Batch!TypeOK, Alive
<1>2. Batch!FinalsWhole
  <2> SUFFICES ASSUME NEW o \in Batch!Outputs, final[o] \notin {Nothing, Prior}
               PROVE  final[o] \in whole
    BY DEF Batch!FinalsWhole
  <2>1. final[o] \in VideoRuns \X VideoBags
    BY DEF BatchInv, BatchTypes
  <2>2. PICK r \in VideoRuns, b \in VideoBags : final[o] = <<r, b>>
    BY <2>1
  <2>3. <<r, b>> \in whole
    BY <2>2 DEF BatchInv, BatchFinal
  <2> QED
    BY <2>2, <2>3
<1>3. Batch!LeftoversWhole
  <2> SUFFICES ASSUME NEW r \in VideoRuns, pc[r] = "ended", NEW o \in Batch!Outputs,
                      staged[o] \in Batch!Files, staged[o][1] = r
               PROVE  staged[o] \in whole
    BY DEF Batch!LeftoversWhole
  <2>1. PICK b \in VideoBags : staged[o] = <<r, b>>
    OBVIOUS
  <2> QED
    BY <2>1 DEF BatchInv, BatchStaged
<1>4. Batch!ManifestTruthful
  <2> SUFFICES ASSUME manifest # Nothing
               PROVE  LET r == manifest.run IN
                      /\ {row.bag : row \in manifest.rows} = jobs[r]
                      /\ Batch!Cardinality(manifest.rows) = Batch!Cardinality(jobs[r])
                      /\ \A row \in manifest.rows :
                            LET video == final[VideoOf[row.bag]] IN
                            IF row.ok
                            THEN video = <<r, row.bag>> \/ (video \in Batch!Files /\ video[1] # r)
                            ELSE video # <<r, row.bag>>
    BY DEF Batch!ManifestTruthful
  <2> DEFINE r == manifest.run
  <2>1. /\ r \in VideoRuns /\ manifest.rows = rows[r]
        /\ jobs[r] \subseteq Batch!RowsOf(r)
    BY DEF BatchInv, BatchManifest
  <2>2. rows[r] \subseteq [bag : VideoBags, ok : BOOLEAN] /\ jobs[r] \subseteq VideoBags
    BY <2>1 DEF BatchInv, BatchTypes
  <2> HIDE DEF r
  <2>3. {row.bag : row \in rows[r]} = jobs[r]
    BY <2>1 DEF BatchInv, BatchRows, Batch!RowsOf
  <2>4. Cardinality(rows[r]) = Cardinality(jobs[r])
    <3> DEFINE f == [b \in jobs[r] |-> CHOOSE row \in rows[r] : row.bag = b]
    <3>1. \A b \in jobs[r] : f[b] \in rows[r] /\ f[b].bag = b
      BY <2>3
    <3>2. \A row \in rows[r] : row.bag \in jobs[r] /\ f[row.bag] = row
      BY <2>1, <3>1 DEF BatchInv, BatchRows
    <3>3. f \in [jobs[r] -> rows[r]]
      BY <3>1
    <3> HIDE DEF f
    <3>4. f \in Injection(jobs[r], rows[r])
      BY <3>1, <3>3 DEF Injection, IsInjective
    <3>5. f \in Surjection(jobs[r], rows[r])
      BY <3>2, <3>3 DEF Surjection
    <3>6. ExistsBijection(jobs[r], rows[r])
      BY <3>4, <3>5 DEF ExistsBijection, Bijection
    <3>7. IsFiniteSet(jobs[r])
      BY <2>2, FS_Subset
    <3> QED
      BY <3>6, <3>7, FS_Bijection
  <2>5. ASSUME NEW row \in rows[r], row.ok
        PROVE  LET video == final[VideoOf[row.bag]] IN
               video = <<r, row.bag>> \/ (video \in Batch!Files /\ video[1] # r)
    <3>1. \/ final[VideoOf[row.bag]] = <<r, row.bag>>
          \/ \E s \in VideoRuns \ {r}, b \in VideoBags : final[VideoOf[row.bag]] = <<s, b>>
      BY <2>1, <2>5 DEF BatchInv, BatchFinal
    <3>2. ASSUME NEW s \in VideoRuns \ {r}, NEW b \in VideoBags,
                 final[VideoOf[row.bag]] = <<s, b>>
          PROVE  final[VideoOf[row.bag]] \in Batch!Files /\ final[VideoOf[row.bag]][1] # r
      BY <3>2
    <3> QED
      BY <3>1, <3>2
  <2>6. ASSUME NEW row \in rows[r], ~row.ok
        PROVE  final[VideoOf[row.bag]] # <<r, row.bag>>
    <3> SUFFICES ASSUME final[VideoOf[row.bag]] = <<r, row.bag>> PROVE FALSE
      OBVIOUS
    <3>1. row.bag \in VideoBags
      BY <2>2
    <3> DEFINE other == [bag |-> row.bag, ok |-> TRUE]
    <3>2. other \in rows[r]
      BY <2>1, <3>1 DEF BatchInv, BatchFinal
    <3>3. other.bag = row.bag /\ other.ok = TRUE
      OBVIOUS
    <3> HIDE DEF other
    <3>4. other = row
      BY <2>1, <3>2, <3>3 DEF BatchInv, BatchRows
    <3> QED
      BY <2>6, <3>3, <3>4
  <2> QED
    BY <2>1, <2>3, <2>4, <2>5, <2>6, BatchCards DEF r
<1> QED
  BY <1>1, <1>2, <1>3, <1>4

\* A step that replaces a video or a manifest is one of a run with --overwrite.
LEMMA BatchReplaces ==
    ASSUME BatchInv, Batch!Next
    PROVE  Batch!ReplacesLawfully
<1>1. CASE UNCHANGED <<final, manifest>>
  BY <1>1 DEF Batch!ReplacesLawfully
<1>2. ASSUME NEW r \in VideoRuns, Batch!Replace(r)
      PROVE  Batch!ReplacesLawfully
  <2>1. /\ UNCHANGED manifest /\ pc[r] = "replace"
        /\ current[r] \in jobs[r] \ Batch!RowsOf(r)
        /\ VideoOf[current[r]] \in Batch!Outputs
    BY <1>2, BatchFacts DEF BatchInv, BatchChild, BatchTypes, OnJob, Batch!Replace
  <2>2. CASE UNCHANGED final
    BY <2>1, <2>2 DEF Batch!ReplacesLawfully
  <2>3. CASE /\ final' = [final EXCEPT ![VideoOf[current[r]]] = staged[VideoOf[current[r]]]]
             /\ Batch!Record(r, current[r], TRUE) /\ UNCHANGED jobs
    <3>1. pc'[r] # "replace"
      BY <2>1, <2>3, BatchRecords
    <3>2. \A o \in Batch!Outputs : final[o] # Nothing /\ final'[o] # final[o] => r \in overwrite
      BY <1>2, <2>1, <2>3 DEF BatchInv, BatchTypes, BatchFree, AtWork
    <3> QED
      BY <2>1, <3>1, <3>2 DEF Batch!ReplacesLawfully
  <2> QED
    BY <1>2, <2>2, <2>3 DEF Batch!Replace, Batch!Out
<1>3. ASSUME NEW r \in VideoRuns, Batch!WriteManifest(r)
      PROVE  Batch!ReplacesLawfully
  <2>1. UNCHANGED final /\ pc[r] = "manifest" /\ pc'[r] = "ended"
    BY <1>3 DEF BatchInv, BatchTypes, Batch!WriteManifest, Batch!Goto
  <2>2. manifest # Nothing => r \in overwrite
    BY <2>1 DEF BatchInv, BatchFree, AtWork
  <2> QED
    BY <2>1, <2>2 DEF Batch!ReplacesLawfully
<1>4. \/ UNCHANGED <<final, manifest>>
      \/ \E r \in VideoRuns : Batch!Replace(r) \/ Batch!WriteManifest(r)
  BY ZenonT(60) DEF Batch!Next, Batch!Script, Batch!directory, Batch!Start, Batch!PlanBag, Batch!Planned,
         Batch!Preview, Batch!Sweep, Batch!Launch, Batch!Feed, Batch!Judge, Batch!Open,
         Batch!Complete, Batch!Fail, Batch!Kill
<1> QED
  BY <1>1, <1>2, <1>3, <1>4

----------------------------------------------------------------------------
\* Division

\* A nonzero multiple is at least as far from 0.
LEMMA Multiples ==
    ASSUME NEW m \in Nat \ {0}, NEW d \in Int
    PROVE  /\ d >= 1 => m * d >= m
           /\ d <= -1 => m * d <= -m
OBVIOUS

\* Quotient and remainder,
LEMMA DivMod ==
    ASSUME NEW n \in Int, NEW m \in Nat \ {0}
    PROVE  /\ n \div m \in Int /\ n % m \in 0..m - 1
           /\ n = m * (n \div m) + (n % m)
OBVIOUS

\* which are unique.
LEMMA DivModUnique ==
    ASSUME NEW n \in Int, NEW m \in Nat \ {0}, NEW q \in Int, NEW r \in 0..m - 1,
           n = m * q + r
    PROVE  n \div m = q /\ n % m = r
<1> DEFINE p == n \div m
           s == n % m
<1>1. p \in Int /\ s \in 0..m - 1 /\ n = m * p + s
  BY DivMod
<1> HIDE DEF p, s
<1>2. m * (q - p) = s - r
  BY <1>1
<1>3. ~(q - p >= 1) /\ ~(q - p <= -1)
  BY <1>1, <1>2, Multiples
<1>4. q = p
  BY <1>1, <1>3
<1>5. s = r
  BY <1>1, <1>4
<1> QED
  BY <1>4, <1>5 DEF p, s

\* (n - 1) % m = 0, as the code tests it.
LEMMA PickedEvery ==
    ASSUME NEW n \in Nat \ {0}, NEW m \in Nat \ {0}
    PROVE  (n - 1) % m = 0 <=> n % m = 1 % m
<1>1. CASE m = 1
  <2>1. n % m \in 0..0 /\ (n - 1) % m \in 0..0 /\ 1 % m \in 0..0
    BY <1>1, DivMod
  <2> QED
    BY <2>1
<1>2. CASE m # 1
  <2>1. 1 % m = 1
    BY <1>2, DivModUnique, 1 = m * 0 + 1
  <2> DEFINE q == n \div m
             p == (n - 1) \div m
             l == n - 1
  <2>0. l \in Int /\ l \in Nat /\ n = l + 1
    OBVIOUS
  <2>9. p = l \div m
    OBVIOUS
  <2> HIDE DEF l
  <2>2. p \in Int /\ l % m \in 0..m - 1 /\ l = m * p + (l % m)
    BY <2>0, <2>9, DivMod
  <2>3. q \in Int /\ n % m \in 0..m - 1 /\ n = m * q + (n % m)
    BY DivMod
  <2> HIDE DEF p, q
  <2>4. ASSUME l % m = 0 PROVE n % m = 1
    <3>1. n = m * p + 1 /\ 1 \in 0..m - 1 /\ p \in Int /\ n \in Int
      BY <1>2, <2>0, <2>2, <2>4
    <3> QED
      BY ONLY <3>1, m \in Nat \ {0}, DivModUnique
  <2>5. ASSUME n % m = 1 PROVE l % m = 0
    <3>1. l = m * q + 0 /\ 0 \in 0..m - 1
      BY <2>0, <2>3, <2>5
    <3> QED
      BY <2>0, <2>3, <3>1, DivModUnique
  <2> QED
    BY <2>1, <2>4, <2>5 DEF l
<1> QED
  BY <1>1, <1>2

\* One more: the quotient grows at the multiples.
LEMMA NextMultiple ==
    ASSUME NEW n \in Nat, NEW m \in Nat \ {0}
    PROVE  /\ (n + 1) % m = 0 => /\ (n + 1) \div m = n \div m + 1
                                 /\ n + 1 = (n \div m + 1) * m
           /\ (n + 1) % m # 0 => (n + 1) \div m = n \div m
           /\ n \div m \in Nat
<1> DEFINE q == n \div m
           r == n % m
<1>1. q \in Int /\ r \in 0..m - 1 /\ n = m * q + r
  BY DivMod
<1>2. q \in Nat
  <2>1. ~(q <= -1)
    BY <1>1, Multiples
  <2> QED
    BY <1>1, <2>1
<1> HIDE DEF q, r
<1>3. CASE r = m - 1
  <2>1. n + 1 = m * (q + 1) + 0
    BY <1>1, <1>3
  <2>2. (n + 1) % m = 0 /\ (n + 1) \div m = q + 1
    BY <1>1, <2>1, DivModUnique
  <2>3. n + 1 = (q + 1) * m
    BY <1>1, <2>1
  <2> QED
    BY <1>2, <2>2, <2>3 DEF q
<1>4. CASE r # m - 1
  <2>1. n + 1 = m * q + (r + 1) /\ r + 1 \in 0..m - 1
    BY <1>1, <1>4
  <2>2. (n + 1) % m = r + 1 /\ (n + 1) \div m = q
    BY <1>1, <2>1, DivModUnique
  <2>3. (n + 1) % m # 0
    BY <1>1, <2>2
  <2> QED
    BY <1>2, <2>2, <2>3 DEF q
<1> QED
  BY <1>3, <1>4

----------------------------------------------------------------------------
\* Extremes of finite sets of integers

\* The image of a finite set is finite, and as large if nothing is lost.
LEMMA FiniteImage ==
    ASSUME NEW S, IsFiniteSet(S), NEW f, DOMAIN f = S
    PROVE  LET T == {f[x] : x \in S} IN
           /\ IsFiniteSet(T)
           /\ (\A x, y \in S : f[x] = f[y] => x = y) => Cardinality(T) = Cardinality(S)
<1> DEFINE T == {f[x] : x \in S}
           g == [x \in S |-> f[x]]
<1>1. g \in Surjection(S, T)
  BY DEF Surjection
<1>2. (\A x, y \in S : f[x] = f[y] => x = y) => g \in Injection(S, T)
  BY DEF Injection, IsInjective
<1> HIDE DEF T, g
<1>3. IsFiniteSet(T) /\ (Cardinality(T) = Cardinality(S) <=> g \in Injection(S, T))
  BY <1>1, FS_Surjection
<1> QED
  BY <1>2, <1>3 DEF T

\* A finite set of integers has a greatest element.
LEMMA Greatest ==
    ASSUME NEW S, S \subseteq Int, IsFiniteSet(S), S # {}
    PROVE  \E x \in S : \A y \in S : y <= x
<1> DEFINE Above(x) == {y \in S : y > x}
           Counts == {Cardinality(Above(x)) : x \in S}
<1>1. \A x \in S : IsFiniteSet(Above(x)) /\ Cardinality(Above(x)) \in Nat
  BY FS_Subset, FS_CardinalityType
<1>2. PICK k \in Counts : \A c \in Counts : k <= c
  <2>1. Counts \subseteq Nat /\ Counts # {}
    BY <1>1
  <2> QED
    BY <2>1, LeastElement
<1>3. PICK x \in S : k = Cardinality(Above(x))
  OBVIOUS
<1>4. ASSUME NEW y \in S, ~(y <= x) PROVE FALSE
  <2>0. x \in Int /\ y \in Int /\ \A z \in S : z \in Int
    OBVIOUS
  <2>9. \A z \in S : z > y => z > x
    BY <1>4, <2>0
  <2>8. y \in Above(x) /\ y \notin Above(y)
    BY <1>4, <2>0
  <2>7. Above(y) \subseteq Above(x)
    BY <2>9
  <2>1. Above(y) \subseteq Above(x) /\ y \in Above(x) /\ y \notin Above(y)
    BY <2>7, <2>8
  <2>2. /\ Cardinality(Above(y)) <= Cardinality(Above(x))
        /\ Cardinality(Above(x)) = Cardinality(Above(y)) => Above(x) = Above(y)
    BY <1>1, <2>1, FS_Subset
  <2>3. Cardinality(Above(x)) <= Cardinality(Above(y))
    BY <1>2, <1>3
  <2>4. Cardinality(Above(x)) \in Nat /\ Cardinality(Above(y)) \in Nat
    BY <1>1
  <2> HIDE DEF Above
  <2> QED
    BY <2>1, <2>2, <2>3, <2>4
<1> QED
  BY <1>4

\* What Max and Min return, and
LEMMA Extremes ==
    ASSUME NEW S, S \subseteq Int, IsFiniteSet(S), S # {}
    PROVE  /\ Grid!Max(S) \in S /\ \A y \in S : y <= Grid!Max(S)
           /\ Grid!Min(S) \in S /\ \A y \in S : Grid!Min(S) <= y
<1>1. PICK x \in S : \A y \in S : y <= x
  BY Greatest
<1>2. PICK z \in S : \A y \in S : z <= y
  <2> DEFINE f == [y \in S |-> -y]
             N == {f[y] : y \in S}
  <2>1. N \subseteq Int /\ N # {}
    OBVIOUS
  <2>2. IsFiniteSet(N)
    BY FiniteImage, DOMAIN f = S
  <2>3. PICK w \in N : \A y \in N : y <= w
    BY <2>1, <2>2, Greatest
  <2>4. \A y \in S : -y <= w
    BY <2>3
  <2>5. PICK z \in S : w = -z
    BY <2>3
  <2> QED
    BY <2>4, <2>5
<1>3. Grid!Max(S) \in S /\ \A y \in S : Grid!Max(S) >= y
  BY <1>1 DEF Grid!Max
<1>4. Grid!Min(S) \in S /\ \A y \in S : Grid!Min(S) <= y
  BY <1>2 DEF Grid!Min
<1> QED
  BY <1>3, <1>4

\* The larger of two, and how many.
LEMMA GridCards == \A S : Grid!Cardinality(S) = Cardinality(S)
BY DEF Grid!Cardinality, Cardinality

----------------------------------------------------------------------------
\* The distance to the nearest pose

\* The delta that decides is the distance to the nearest pose.
LEMMA GridDelta ==
    ASSUME NEW p, Ascending(p), NEW v \in Int
    PROVE  /\ Grid!PoseDelta(p, v) \in Nat
           /\ Grid!Min({Grid!Distance(v, p[i]) : i \in DOMAIN p}) = Grid!PoseDelta(p, v)
<1> DEFINE D == {Distance(v, p[i]) : i \in DOMAIN p}
<1>1. /\ Grid!PoseDelta(p, v) = PoseDelta(p, v)
      /\ \A a, b : Grid!Distance(a, b) = Distance(a, b)
  BY DEF Grid!PoseDelta, PoseDelta, Grid!Distance, Distance, Grid!Inside, Inside,
         Grid!NearestPoseIndex, NearestPoseIndex, Grid!Left, Left, Grid!SearchSorted, SearchSorted
<1>2. DOMAIN p = 1..Len(p) /\ \A i \in DOMAIN p : p[i] \in Int
  BY DEF Ascending
<1>3. D \subseteq Nat
  BY <1>2 DEF Distance
<1>4. /\ \A j \in 1..Len(p) : PoseDelta(p, v) <= Distance(v, p[j])
      /\ \E j \in 1..Len(p) : PoseDelta(p, v) = Distance(v, p[j])
  BY DeltaIsLeast
<1>5. PoseDelta(p, v) \in D /\ \A d \in D : PoseDelta(p, v) <= d
  BY <1>2, <1>4
<1>6. {Grid!Distance(v, p[i]) : i \in DOMAIN p} = D
  BY <1>1
<1> HIDE DEF D
<1>9. PICK z \in D : \A d \in D : z <= d
  BY <1>5
<1>7. Grid!Min(D) \in D /\ \A d \in D : Grid!Min(D) <= d
  BY <1>9 DEF Grid!Min
<1>10. /\ Grid!Min(D) \in Nat /\ PoseDelta(p, v) \in Nat
       /\ Grid!Min(D) <= PoseDelta(p, v) /\ PoseDelta(p, v) <= Grid!Min(D)
  BY <1>3, <1>5, <1>7
<1>8. Grid!Min(D) = PoseDelta(p, v)
  BY <1>10
<1> QED
  BY <1>1, <1>3, <1>5, <1>6, <1>8

\* how an element is known to be one of them.
LEMMA ExtremeIs ==
    ASSUME NEW S, S \subseteq Int, NEW m \in S
    PROVE  /\ (\A y \in S : y <= m) => Grid!Max(S) = m
           /\ (\A y \in S : m <= y) => Grid!Min(S) = m
<1>1. ASSUME \A y \in S : y <= m PROVE Grid!Max(S) = m
  <2>1. Grid!Max(S) \in S /\ \A y \in S : Grid!Max(S) >= y
    BY <1>1 DEF Grid!Max
  <2>2. Grid!Max(S) \in Int /\ m \in Int /\ Grid!Max(S) >= m /\ Grid!Max(S) <= m
    BY <1>1, <2>1
  <2> QED
    BY <2>2
<1>2. ASSUME \A y \in S : m <= y PROVE Grid!Min(S) = m
  <2>1. Grid!Min(S) \in S /\ \A y \in S : Grid!Min(S) <= y
    BY <1>2 DEF Grid!Min
  <2>2. Grid!Min(S) \in Int /\ m \in Int /\ Grid!Min(S) >= m /\ Grid!Min(S) <= m
    BY <1>2, <2>1
  <2> QED
    BY <2>2
<1> QED
  BY <1>1, <1>2

----------------------------------------------------------------------------
\* The occupancy grid

\* The arguments, what was read, and the counters.
GridTypes ==
    /\ poses \in PoseStamps /\ everyN \in LidarStrides
    /\ maxFrames \in LidarLimits /\ stride \in Previews
    /\ pc \in {"read", "render", "rendered", "refused"}
    /\ read \in Seq([stamp : LidarStamps, cells : CellSets]) /\ Len(read) <= MaxMessages
    /\ used \in Nat /\ skipped \in Nat /\ worst \in Nat
    /\ maxFrames > 0 => used <= maxFrames
    /\ cells \subseteq Int \X Int /\ IsFiniteSet(cells)

\* The frames near enough to a pose, with a point left.
GoodFrames == {i \in Grid!Examined(Len(read)) : Grid!Good(i)}

\* K are the frames used: all good ones, or all but the one at which the loop
\* ended because of the limit.
KeptBy(K) ==
    /\ K \subseteq GoodFrames /\ Cardinality(K) = used
    /\ \/ K = GoodFrames
       \/ /\ pc # "read" /\ maxFrames > 0 /\ used >= maxFrames
          /\ GoodFrames = K \cup {Len(read)} /\ Len(read) \notin K
    /\ cells = UNION {read[i].cells : i \in K}
    /\ used > 0 => last = <<read[Grid!Min(K)].stamp, read[Grid!Max(K)].stamp>>

\* What was collected is of such frames.
GridKept == \E K \in SUBSET Nat : KeptBy(K)

\* Every frame looked at is used or skipped; but for the one at the limit.
GridCount ==
    /\ used + skipped <= Cardinality(Grid!Examined(Len(read)))
    /\ pc = "read" => used + skipped = Cardinality(Grid!Examined(Len(read)))

\* The previews, one for each multiple of the stride.
GridPreviews ==
    /\ previews \in Seq(Nat \X SUBSET (Int \X Int))
    /\ pc # "refused" => Len(previews) = IF stride = 0 THEN 0 ELSE used \div stride
    /\ \A k \in DOMAIN previews :
          /\ previews[k][1] = k * stride
          /\ previews[k][2] \subseteq cells /\ ~Grid!TooDense(previews[k][2])
          /\ k > 1 => previews[k - 1][2] \subseteq previews[k][2]

\* The image, once it is rendered, was not too large.
GridImage ==
    IF pc = "rendered" THEN ~Grid!TooDense(cells) /\ image = Grid!Rendered(cells)
    ELSE image = Grid!NoImage

GridInv == GridTypes /\ GridKept /\ GridCount /\ GridPreviews /\ GridImage

\* What the assumption says of the constants.
LEMMA GridFacts ==
    /\ \A p \in PoseStamps : Ascending(p)
    /\ LidarStamps \subseteq Int
    /\ \A set \in CellSets : set \subseteq Int \X Int /\ IsFiniteSet(set)
    /\ LidarStrides \subseteq Nat \ {0} /\ LidarLimits \subseteq Nat /\ Previews \subseteq Nat
    /\ MaxPoseDelta \in Nat /\ MaxCells \in Nat /\ MaxSide \in Nat /\ MaxMessages \in Nat
<1>1. Grid!GridAssumption
  BY ScriptsAssumption
<1>2. \A p : Grid!Ascending(p) <=> Ascending(p)
  BY DEF Grid!Ascending, Ascending
<1>3. \A set : Grid!IsFiniteSet(set) <=> IsFiniteSet(set)
  BY DEF Grid!IsFiniteSet, IsFiniteSet
<1> QED
  BY <1>1, <1>2, <1>3 DEF Grid!GridAssumption

\* There are finitely many frames.
LEMMA FiniteFrames ==
    ASSUME GridTypes
    PROVE  /\ Grid!Examined(Len(read)) \subseteq 1..Len(read) /\ IsFiniteSet(1..Len(read))
           /\ IsFiniteSet(Grid!Examined(Len(read))) /\ IsFiniteSet(GoodFrames)
<1>1. Len(read) \in Nat /\ Grid!Examined(Len(read)) \subseteq 1..Len(read)
  BY DEF GridTypes, Grid!Examined
<1>2. GoodFrames \subseteq 1..Len(read)
  BY <1>1 DEF GoodFrames
<1>3. IsFiniteSet(1..Len(read))
  BY <1>1, FS_Interval
<1> QED
  BY <1>1, <1>2, <1>3, FS_Subset

\* A frame is good if the loop counts it.
LEMMA GoodIsCounted ==
    ASSUME GridTypes, NEW frame \in [stamp : LidarStamps, cells : CellSets]
    PROVE  (Grid!Nearest(frame) <= MaxPoseDelta /\ frame.cells # {}) <=> Grid!Counted(frame)
<1>1. Ascending(poses) /\ frame.stamp \in Int
  BY GridFacts DEF GridTypes
<1>2. Grid!Nearest(frame) = Grid!PoseDelta(poses, frame.stamp)
  BY <1>1, GridDelta DEF Grid!Nearest
<1> QED
  BY <1>2 DEF Grid!Counted

\* One more frame is read.
LEMMA FramesGrow ==
    ASSUME GridTypes, NEW frame \in [stamp : LidarStamps, cells : CellSets],
           read' = Append(read, frame), UNCHANGED <<poses, everyN>>
    PROVE  LET n == Len(read) + 1
               E == Grid!Examined(Len(read))
           IN  /\ Len(read') = n /\ n \in Nat \ {0}
               /\ read' \in Seq([stamp : LidarStamps, cells : CellSets])
               /\ \A i \in 1..Len(read) : read'[i] = read[i]
               /\ read'[n] = frame
               /\ n \notin E /\ n \notin GoodFrames
               /\ Grid!Examined(Len(read))' = IF Grid!Picked(n) THEN E \cup {n} ELSE E
               /\ GoodFrames' = IF Grid!Picked(n) /\ Grid!Counted(frame)
                                THEN GoodFrames \cup {n} ELSE GoodFrames
<1> DEFINE n == Len(read) + 1
           E == Grid!Examined(Len(read))
<1>1. /\ Len(read) \in Nat /\ n \in Nat \ {0} /\ everyN \in Nat \ {0}
      /\ read \in Seq([stamp : LidarStamps, cells : CellSets])
  BY GridFacts DEF GridTypes
<1>2. /\ Len(read') = n
      /\ read' \in Seq([stamp : LidarStamps, cells : CellSets])
      /\ \A i \in 1..Len(read) : read'[i] = read[i]
      /\ read'[n] = frame
  BY <1>1
<1>3. Grid!Picked(n) <=> n % everyN = 1 % everyN
  BY <1>1, PickedEvery DEF Grid!Picked
<1>4. Grid!Examined(Len(read))' = {i \in 1..n : i % everyN = 1 % everyN}
  BY <1>2 DEF Grid!Examined
<1>5. E = {i \in 1..Len(read) : i % everyN = 1 % everyN}
  BY DEF Grid!Examined
<1>6. 1..n = 1..Len(read) \cup {n} /\ n \notin 1..Len(read)
  BY <1>1
<1>7. Grid!Examined(Len(read))' = (IF Grid!Picked(n) THEN E \cup {n} ELSE E) /\ n \notin E
  BY <1>3, <1>4, <1>5, <1>6
<1>8. \A f : Grid!Nearest(f)' = Grid!Nearest(f)
  BY DEF Grid!Nearest
<1>9. \A i \in E : Grid!Good(i)' <=> Grid!Good(i)
  BY <1>2, <1>5, <1>8 DEF Grid!Good
<1>10. ASSUME NEW i, i = n PROVE Grid!Good(i)' <=> Grid!Counted(frame)
  <2>1. read'[i] = frame
    BY <1>2, <1>10
  <2>2. Grid!Good(i)' <=> Grid!Nearest(frame)' <= MaxPoseDelta /\ frame.cells # {}
    BY <2>1 DEF Grid!Good, Grid!Nearest
  <2> QED
    BY <1>8, <2>2, GoodIsCounted
<1>11. GoodFrames' = {i \in Grid!Examined(Len(read))' : Grid!Good(i)'}
  BY DEF GoodFrames
<1>12. GoodFrames = {i \in E : Grid!Good(i)}
  BY DEF GoodFrames
<1> HIDE DEF n, E
<1>13. GoodFrames' = IF Grid!Picked(n) /\ Grid!Counted(frame)
                     THEN GoodFrames \cup {n} ELSE GoodFrames
  <2>1. CASE Grid!Picked(n)
    <3>1. Grid!Examined(Len(read))' = E \cup {n} /\ n \notin E
      BY <1>7, <2>1
    <3> QED
      BY <1>9, <1>10, <1>11, <1>12, <2>1, <3>1
  <2>2. CASE ~Grid!Picked(n)
    <3>1. Grid!Examined(Len(read))' = E
      BY <1>7, <2>2
    <3> QED
      BY <1>9, <1>11, <1>12, <2>2, <3>1
  <2> QED
    BY <2>1, <2>2
<1> QED
  BY <1>1, <1>2, <1>7, <1>12, <1>13 DEF n, E

\* A frame that is not used leaves the frames kept as they are.
LEMMA KeptStays ==
    ASSUME GridTypes, GridKept, pc = "read",
           NEW frame \in [stamp : LidarStamps, cells : CellSets],
           read' = Append(read, frame), UNCHANGED <<poses, everyN, maxFrames, used, cells, last>>,
           \/ ~Grid!Picked(Len(read) + 1)
           \/ ~Grid!Counted(frame)
           \/ pc' # "read" /\ maxFrames > 0 /\ used >= maxFrames
    PROVE  GridKept'
<1>1. PICK K \in SUBSET Nat : KeptBy(K)
  BY DEF GridKept
<1>2. /\ K = GoodFrames /\ Cardinality(K) = used
      /\ cells = UNION {read[i].cells : i \in K}
      /\ used > 0 => last = <<read[Grid!Min(K)].stamp, read[Grid!Max(K)].stamp>>
  BY <1>1 DEF KeptBy
<1> DEFINE n == Len(read) + 1
<1>3. /\ Len(read') = n /\ n \in Nat
      /\ \A i \in 1..Len(read) : read'[i] = read[i]
      /\ n \notin GoodFrames
      /\ GoodFrames' = IF Grid!Picked(n) /\ Grid!Counted(frame)
                       THEN GoodFrames \cup {n} ELSE GoodFrames
  BY FramesGrow
<1>4. K \subseteq 1..Len(read) /\ IsFiniteSet(K) /\ used \in Nat /\ K \subseteq Int
  BY <1>1, <1>2, FiniteFrames DEF GoodFrames, GridTypes
<1>5. cells = UNION {read'[i].cells : i \in K}
  <2>1. \A i \in K : read'[i] = read[i]
    BY <1>3, <1>4
  <2>2. {read'[i].cells : i \in K} = {read[i].cells : i \in K}
    BY <2>1
  <2> QED
    BY <1>2, <2>2
<1>6. used > 0 => /\ Grid!Min(K) \in K /\ Grid!Max(K) \in K
  <2> SUFFICES ASSUME used > 0 PROVE Grid!Min(K) \in K /\ Grid!Max(K) \in K
    OBVIOUS
  <2>1. K # {}
    BY <1>2, <1>4, FS_EmptySet
  <2> QED
    BY <1>4, <2>1, Extremes
<1>7. used > 0 => last = <<read'[Grid!Min(K)].stamp, read'[Grid!Max(K)].stamp>>
  BY <1>2, <1>3, <1>4, <1>6
<1>8. \/ K = GoodFrames'
      \/ /\ pc' # "read" /\ maxFrames > 0 /\ used >= maxFrames
         /\ GoodFrames' = K \cup {Len(read')} /\ Len(read') \notin K
  BY <1>2, <1>3
<1> HIDE DEF n
<1>9. K \subseteq GoodFrames'
  BY <1>2, <1>3
<1> QED
  BY <1>1, <1>2, <1>5, <1>7, <1>8, <1>9 DEF GridKept, KeptBy

\* A frame that is used joins them.
LEMMA KeptGrows ==
    ASSUME GridTypes, GridKept, pc = "read",
           NEW frame \in [stamp : LidarStamps, cells : CellSets],
           read' = Append(read, frame), UNCHANGED <<poses, everyN, maxFrames>>,
           Grid!Picked(Len(read) + 1), Grid!Counted(frame),
           used' = used + 1, cells' = cells \cup frame.cells,
           last' = <<IF used = 0 THEN frame.stamp ELSE last[1], frame.stamp>>
    PROVE  GridKept'
<1>1. PICK K \in SUBSET Nat : KeptBy(K)
  BY DEF GridKept
<1>2. /\ K = GoodFrames /\ Cardinality(K) = used
      /\ cells = UNION {read[i].cells : i \in K}
      /\ used > 0 => last = <<read[Grid!Min(K)].stamp, read[Grid!Max(K)].stamp>>
  BY <1>1 DEF KeptBy
<1> DEFINE n == Len(read) + 1
           L == K \cup {n}
<1>3. /\ Len(read') = n /\ n \in Nat
      /\ \A i \in 1..Len(read) : read'[i] = read[i]
      /\ read'[n] = frame
      /\ n \notin GoodFrames /\ GoodFrames' = GoodFrames \cup {n}
  BY FramesGrow
<1>4. K \subseteq 1..Len(read) /\ IsFiniteSet(K) /\ used \in Nat /\ Len(read) \in Nat
  BY <1>2, FiniteFrames DEF GoodFrames, GridTypes
<1>5. \A i \in K : i \in Int /\ i <= n
  BY <1>4
<1>6. Cardinality(L) = used' /\ L \in SUBSET Nat /\ L \subseteq Int
  <2>1. n \notin K
    BY <1>2, <1>3
  <2>2. Cardinality(L) = Cardinality(K) + 1
    BY <1>4, <2>1, FS_AddElement
  <2>3. Cardinality(L) = used'
    BY <1>2, <2>2
  <2>4. K \subseteq Nat
    BY <1>1
  <2> HIDE DEF n
  <2> QED
    BY <1>3, <2>3, <2>4
<1>7. cells' = UNION {read'[i].cells : i \in L}
  <2>1. \A i \in K : read'[i] = read[i]
    BY <1>3, <1>4
  <2> DEFINE U == {read[i].cells : i \in K}
             V == {read'[i].cells : i \in L}
  <2>2. V = U \cup {frame.cells}
    <3>1. \A i : i \in L <=> i \in K \/ i = n
      OBVIOUS
    <3> HIDE DEF n, L
    <3>2. \A x \in U \cup {frame.cells} : x \in V
      BY <1>3, <2>1, <3>1
    <3>3. ASSUME NEW x \in V PROVE x \in U \cup {frame.cells}
      <4>1. PICK i \in L : x = read'[i].cells
        OBVIOUS
      <4>2. CASE i \in K
        <5>1. x = read[i].cells
          BY <2>1, <4>1, <4>2
        <5> QED
          BY <4>2, <5>1
      <4>3. CASE i = n
        BY <1>3, <4>1, <4>3
      <4> QED
        BY <3>1, <4>1, <4>2, <4>3
    <3> QED
      BY <3>2, <3>3
  <2>3. cells' = (UNION U) \cup frame.cells
    BY <1>2
  <2> HIDE DEF U, V
  <2> QED
    BY <2>2, <2>3 DEF V
<1>8. Grid!Max(L) = n
  <2>1. n \in L /\ \A y \in L : y <= n
    BY <1>3, <1>5
  <2> HIDE DEF L
  <2> QED
    BY <1>6, <2>1, ExtremeIs
<1>9. last' = <<read'[Grid!Min(L)].stamp, read'[Grid!Max(L)].stamp>>
  <2>1. CASE used = 0
    <3>1. K = {}
      BY <1>2, <1>4, <2>1, FS_EmptySet
    <3>2. Grid!Min(L) = n
      <4>1. n \in L /\ \A y \in L : n <= y
        BY <1>3, <3>1
      <4> HIDE DEF L
      <4> QED
        BY <1>6, <4>1, ExtremeIs
    <3> QED
      BY <1>3, <1>8, <2>1, <3>2
  <2>2. CASE used # 0
    <3> DEFINE m == Grid!Min(K)
    <3>1. K # {} /\ K \subseteq Int
      BY <1>2, <1>4, <2>2, FS_EmptySet
    <3>2. m \in K /\ \A y \in K : m <= y
      BY <1>4, <3>1, Extremes
    <3> HIDE DEF m
    <3>3. m \in L /\ \A y \in L : m <= y
      BY <1>5, <3>2
    <3>4. Grid!Min(L) = m
      BY <1>6, <3>3, ExtremeIs
    <3>5. read'[m] = read[m]
      BY <1>3, <1>4, <3>2
    <3>6. last = <<read[m].stamp, read[Grid!Max(K)].stamp>>
      BY <1>2, <1>4, <2>2 DEF m
    <3>7. last[1] = read[m].stamp
      BY <3>6
    <3> QED
      BY <1>3, <1>8, <2>2, <3>4, <3>5, <3>7
  <2> QED
    BY <2>1, <2>2
<1>10. L = GoodFrames'
  BY <1>2, <1>3
<1> HIDE DEF L
<1> QED
  BY <1>6, <1>7, <1>9, <1>10 DEF GridKept, KeptBy

\* The next frame: passed over, the end of the loop, skipped, used, or refused.
LEMMA GridReads ==
    ASSUME GridInv, Grid!ReadFrame
    PROVE  GridInv'
<1>1. PICK frame \in [stamp : LidarStamps, cells : CellSets] :
          /\ read' = Append(read, frame)
          /\ IF ~Grid!Picked(Len(read'))
             THEN UNCHANGED <<pc, used, skipped, cells, worst, last, previews>>
             ELSE IF Grid!Full
             THEN pc' = "render" /\ UNCHANGED <<used, skipped, cells, worst, last, previews>>
             ELSE /\ worst' = Grid!Max({worst, Grid!PoseDelta(poses, frame.stamp)})
                  /\ IF ~Grid!Counted(frame)
                     THEN /\ skipped' = skipped + 1
                          /\ UNCHANGED <<pc, used, cells, last, previews>>
                     ELSE /\ cells' = cells \cup frame.cells
                          /\ used' = used + 1
                          /\ last' = <<IF used = 0 THEN frame.stamp ELSE last[1],
                                       frame.stamp>>
                          /\ IF Grid!PreviewDue /\ Grid!TooDense(cells')
                             THEN pc' = "refused" /\ UNCHANGED previews
                             ELSE /\ previews' = IF Grid!PreviewDue
                                        THEN Append(previews, <<used', cells'>>)
                                        ELSE previews
                                  /\ UNCHANGED pc
                          /\ UNCHANGED skipped
  BY DEF Grid!ReadFrame, Grid!result
<1>2. /\ pc = "read" /\ Len(read) < MaxMessages
      /\ UNCHANGED <<poses, everyN, maxFrames, stride, image>>
  BY DEF Grid!ReadFrame, Grid!arguments
<1> DEFINE n == Len(read) + 1
           E == Grid!Examined(Len(read))
<1>3. /\ Len(read') = n /\ n \in Nat \ {0}
      /\ read' \in Seq([stamp : LidarStamps, cells : CellSets])
      /\ n \notin E
      /\ Grid!Examined(Len(read))' = IF Grid!Picked(n) THEN E \cup {n} ELSE E
  BY <1>1, <1>2, FramesGrow DEF GridInv
<1>4. /\ IsFiniteSet(E) /\ Cardinality(E) \in Nat
      /\ Cardinality(E \cup {n}) = Cardinality(E) + 1
  BY <1>3, FiniteFrames, FS_AddElement, FS_CardinalityType DEF GridInv
<1>5. /\ used + skipped = Cardinality(E) /\ used \in Nat /\ skipped \in Nat /\ worst \in Nat
      /\ n <= MaxMessages /\ image = Grid!NoImage
      /\ maxFrames \in Nat /\ stride \in Nat /\ Len(read) \in Nat
      /\ cells \subseteq Int \X Int /\ IsFiniteSet(cells)
  BY <1>2, GridFacts DEF GridInv, GridCount, GridTypes, GridImage
<1>6. Grid!PoseDelta(poses, frame.stamp) \in Nat
  BY GridDelta, GridFacts DEF GridInv, GridTypes
<1> HIDE DEF n, E
<1>7. CASE ~Grid!Picked(n)
  <2>1. UNCHANGED <<pc, used, skipped, cells, worst, last, previews>>
    BY <1>1, <1>3, <1>7
  <2>2. GridTypes'
    BY <1>2, <1>3, <1>5, <2>1 DEF GridInv, GridTypes
  <2>3. GridKept'
    BY <1>1, <1>2, <1>7, <2>1, KeptStays DEF GridInv, n
  <2>4. GridCount'
    BY <1>3, <1>5, <1>7, <2>1 DEF GridCount
  <2>5. GridPreviews' /\ GridImage'
    BY <1>2, <1>5, <2>1 DEF GridInv, GridPreviews, GridImage, Grid!TooDense
  <2> QED
    BY <2>2, <2>3, <2>4, <2>5 DEF GridInv
<1>8. CASE Grid!Picked(n) /\ Grid!Full
  <2>1. pc' = "render" /\ UNCHANGED <<used, skipped, cells, worst, last, previews>>
    BY <1>1, <1>3, <1>8
  <2>2. GridTypes'
    BY <1>2, <1>3, <1>5, <2>1 DEF GridInv, GridTypes
  <2>3. GridKept'
    BY <1>1, <1>2, <1>8, <2>1, KeptStays DEF GridInv, Grid!Full
  <2>4. GridCount'
    BY <1>3, <1>4, <1>5, <1>8, <2>1 DEF GridCount
  <2>5. GridPreviews' /\ GridImage'
    BY <1>2, <1>5, <2>1 DEF GridInv, GridPreviews, GridImage, Grid!TooDense
  <2> QED
    BY <2>2, <2>3, <2>4, <2>5 DEF GridInv
<1>9. CASE Grid!Picked(n) /\ ~Grid!Full
  <2>1. worst' \in Nat
    <3>1. worst' = Grid!Max({worst, Grid!PoseDelta(poses, frame.stamp)})
      BY <1>1, <1>3, <1>9
    <3> DEFINE d == Grid!PoseDelta(poses, frame.stamp)
               D == {worst, d}
    <3>2. IsFiniteSet({worst} \cup {d}) /\ D = {worst} \cup {d}
      <4> HIDE DEF d
      <4> QED
        BY FS_Singleton, FS_AddElement
    <3>3. D \subseteq Nat /\ D \subseteq Int /\ D # {} /\ IsFiniteSet(D)
      <4>1. worst \in Nat /\ d \in Nat
        BY <1>5, <1>6
      <4> HIDE DEF d
      <4>2. D \subseteq Nat /\ D # {}
        BY <4>1
      <4> QED
        BY <3>2, <4>2
    <3> HIDE DEF D
    <3> QED
      BY <3>1, <3>3, Extremes DEF D
  <2>2. CASE ~Grid!Counted(frame)
    <3>1. skipped' = skipped + 1 /\ UNCHANGED <<pc, used, cells, last, previews>>
      BY <1>1, <1>3, <1>9, <2>2
    <3>2. GridTypes'
      BY <1>2, <1>3, <1>5, <2>1, <3>1 DEF GridInv, GridTypes
    <3>3. GridKept'
      BY <1>1, <1>2, <2>2, <3>1, KeptStays DEF GridInv
    <3>4. GridCount'
      BY <1>2, <1>3, <1>4, <1>5, <1>9, <3>1 DEF GridCount
    <3>5. GridPreviews' /\ GridImage'
      BY <1>2, <1>5, <3>1 DEF GridInv, GridPreviews, GridImage, Grid!TooDense
    <3> QED
      BY <3>2, <3>3, <3>4, <3>5 DEF GridInv
  <2>3. CASE Grid!Counted(frame)
    <3>1. /\ cells' = cells \cup frame.cells /\ used' = used + 1
          /\ last' = <<IF used = 0 THEN frame.stamp ELSE last[1], frame.stamp>>
          /\ IF Grid!PreviewDue /\ Grid!TooDense(cells')
             THEN pc' = "refused" /\ UNCHANGED previews
             ELSE /\ previews' = IF Grid!PreviewDue
                        THEN Append(previews, <<used', cells'>>) ELSE previews
                  /\ UNCHANGED pc
          /\ UNCHANGED skipped
      BY <1>1, <1>3, <1>9, <2>3
    <3>2. cells' \subseteq Int \X Int /\ IsFiniteSet(cells')
      BY <1>5, <3>1, GridFacts, FS_Union
    <3>3. GridTypes'
      <4>1. maxFrames > 0 => used' <= maxFrames
        BY <1>5, <1>9, <3>1 DEF Grid!Full
      <4>2. pc' \in {"read", "refused"} /\ used' \in Nat /\ skipped' \in Nat
        BY <1>2, <1>5, <3>1
      <4> QED
        BY <1>2, <1>3, <1>5, <2>1, <3>2, <4>1, <4>2 DEF GridInv, GridTypes
    <3>4. GridKept'
      BY <1>1, <1>2, <1>9, <2>3, <3>1, KeptGrows DEF GridInv, n
    <3>5. GridCount'
      BY <1>2, <1>3, <1>4, <1>5, <1>9, <3>1 DEF GridCount
    <3>6. GridImage'
      BY <1>2, <1>5, <3>1 DEF GridImage
    <3>7. GridPreviews'
      <4>1. /\ previews \in Seq(Nat \X SUBSET (Int \X Int))
            /\ Len(previews) = IF stride = 0 THEN 0 ELSE used \div stride
            /\ \A k \in DOMAIN previews :
                  /\ previews[k][1] = k * stride
                  /\ previews[k][2] \subseteq cells /\ ~Grid!TooDense(previews[k][2])
                  /\ k > 1 => previews[k - 1][2] \subseteq previews[k][2]
        BY <1>2 DEF GridInv, GridPreviews
      <4>2. \A k \in DOMAIN previews : previews[k][2] \subseteq cells'
        BY <3>1, <4>1
      <4>3. \A set : Grid!TooDense(set)' <=> Grid!TooDense(set)
        BY DEF Grid!TooDense
      <4>4. CASE Grid!PreviewDue /\ Grid!TooDense(cells')
        <5>1. pc' = "refused" /\ UNCHANGED previews
          BY <3>1, <4>4
        <5> QED
          BY <1>2, <4>1, <4>2, <5>1 DEF GridPreviews, Grid!TooDense
      <4>5. CASE ~Grid!PreviewDue
        <5>1. UNCHANGED <<pc, previews>>
          BY <3>1, <4>5
        <5>2. stride > 0 => used' \div stride = used \div stride
          <6> SUFFICES ASSUME stride > 0 PROVE used' \div stride = used \div stride
            OBVIOUS
          <6>1. stride \in Nat \ {0} /\ (used + 1) % stride # 0
            BY <1>5, <3>1, <4>5 DEF Grid!PreviewDue
          <6>2. (used + 1) \div stride = used \div stride
            BY <1>5, <6>1, NextMultiple
          <6> QED
            BY <3>1, <6>2
        <5>3. Len(previews') = IF stride' = 0 THEN 0 ELSE used' \div stride'
          BY <1>2, <1>5, <4>1, <5>1, <5>2
        <5> QED
          BY <1>2, <4>1, <4>2, <4>3, <5>1, <5>3 DEF GridPreviews
      <4>6. CASE Grid!PreviewDue /\ ~Grid!TooDense(cells')
        <5> DEFINE q == Len(previews) + 1
        <5>1. UNCHANGED pc /\ previews' = Append(previews, <<used', cells'>>)
          BY <3>1, <4>6
        <5>2. stride > 0 /\ used' \div stride = q /\ used' = q * stride
          <6>1. stride \in Nat \ {0} /\ stride > 0 /\ (used + 1) % stride = 0
            BY <1>5, <3>1, <4>6 DEF Grid!PreviewDue
          <6>2. /\ (used + 1) \div stride = used \div stride + 1
                /\ used + 1 = (used \div stride + 1) * stride
            BY <1>5, <6>1, NextMultiple
          <6>3. Len(previews) = used \div stride
            BY <4>1, <6>1
          <6> QED
            BY <3>1, <6>1, <6>2, <6>3
        <5>3. /\ previews' \in Seq(Nat \X SUBSET (Int \X Int))
              /\ Len(previews') = q /\ DOMAIN previews' = 1..q
              /\ previews'[q] = <<used', cells'>>
              /\ DOMAIN previews = 1..Len(previews) /\ Len(previews) \in Nat
              /\ \A k \in 1..Len(previews) : previews'[k] = previews[k]
          BY SMTT(60), <1>5, <3>1, <3>2, <4>1, <5>1
        <5> HIDE DEF q
        <5>4. ASSUME NEW k \in 1..q
              PROVE  /\ previews'[k][1] = k * stride
                     /\ previews'[k][2] \subseteq cells' /\ ~Grid!TooDense(previews'[k][2])
                     /\ k > 1 => previews'[k - 1][2] \subseteq previews'[k][2]
          <6>1. CASE k = q
            BY <4>2, <4>6, <5>2, <5>3, <6>1 DEF q
          <6>2. CASE k # q
            <7>1. k \in 1..Len(previews) /\ (k > 1 => k - 1 \in 1..Len(previews))
              BY <5>3, <6>2 DEF q
            <7> QED
              BY <4>1, <4>2, <5>3, <7>1
          <6> QED
            BY <6>1, <6>2
        <5>5. Len(previews') = IF stride' = 0 THEN 0 ELSE used' \div stride'
          BY <1>2, <5>2, <5>3
        <5> QED
          BY <1>2, <4>3, <5>3, <5>4, <5>5 DEF GridPreviews
      <4> QED
        BY <4>4, <4>5, <4>6
    <3> QED
      BY <3>3, <3>4, <3>5, <3>6, <3>7 DEF GridInv
  <2> QED
    BY <2>2, <2>3
<1> QED
  BY <1>7, <1>8, <1>9

\* What the frames used are is left as it is.
LEMMA KeptUntouched ==
    ASSUME GridInv, UNCHANGED <<poses, everyN, maxFrames, stride, read, used, skipped,
                                cells, worst, last, previews>>,
           pc' \in {"render", "rendered", "refused"},
           pc # "refused" \/ UNCHANGED pc
    PROVE  GridTypes' /\ GridKept' /\ GridCount' /\ GridPreviews'
<1>1. GridTypes'
  BY DEF GridInv, GridTypes
<1>2. \A i \in DOMAIN read : Grid!Good(i)' <=> Grid!Good(i)
  BY DEF Grid!Good, Grid!Nearest
<1>3. Grid!Examined(Len(read))' = Grid!Examined(Len(read))
  BY DEF Grid!Examined
<1>4. Grid!Examined(Len(read)) \subseteq DOMAIN read
  BY DEF Grid!Examined, GridInv, GridTypes
<1>5. GoodFrames' = GoodFrames
  BY <1>2, <1>3, <1>4 DEF GoodFrames
<1>6. GridKept'
  <2>1. PICK K \in SUBSET Nat : KeptBy(K)
    BY DEF GridInv, GridKept
  <2>2. KeptBy(K)'
    BY <1>5, <2>1 DEF KeptBy
  <2> QED
    BY <2>2 DEF GridKept
<1>7. GridCount'
  BY <1>3 DEF GridInv, GridCount
<1>8. GridPreviews'
  <2>1. \A set : Grid!TooDense(set)' <=> Grid!TooDense(set)
    BY DEF Grid!TooDense
  <2> QED
    BY <2>1 DEF GridInv, GridPreviews
<1> QED
  BY <1>1, <1>6, <1>7, <1>8

\* Every step of the script keeps the invariant,
LEMMA GridSteps ==
    ASSUME GridInv, Grid!Next
    PROVE  GridInv'
<1>1. CASE Grid!ReadFrame
  BY <1>1, GridReads
<1>2. CASE Grid!EndOfBag
  <2>1. /\ pc = "read" /\ pc' = "render"
        /\ UNCHANGED <<poses, everyN, maxFrames, stride, read, used, skipped,
                       cells, worst, last, previews, image>>
    BY <1>2 DEF Grid!EndOfBag, Grid!arguments, Grid!result
  <2>2. GridTypes' /\ GridKept' /\ GridCount' /\ GridPreviews'
    BY <2>1, KeptUntouched
  <2>3. GridImage'
    BY <2>1 DEF GridInv, GridImage
  <2> QED
    BY <2>2, <2>3 DEF GridInv
<1>3. CASE Grid!Render
  <2>1. /\ pc = "render"
        /\ UNCHANGED <<poses, everyN, maxFrames, stride, read, used, skipped,
                       cells, worst, last, previews>>
        /\ IF Grid!TooDense(cells) THEN pc' = "refused" /\ UNCHANGED image
           ELSE pc' = "rendered" /\ image' = Grid!Rendered(cells)
    BY <1>3 DEF Grid!Render, Grid!arguments, Grid!result
  <2>2. GridTypes' /\ GridKept' /\ GridCount' /\ GridPreviews'
    BY <2>1, KeptUntouched
  <2>3. GridImage'
    <3>1. Grid!TooDense(cells)' <=> Grid!TooDense(cells)
      BY <2>1 DEF Grid!TooDense
    <3>2. Grid!Rendered(cells)' = Grid!Rendered(cells)
      BY <2>1
    <3> QED
      BY <2>1, <3>1, <3>2 DEF GridInv, GridImage
  <2> QED
    BY <2>2, <2>3 DEF GridInv
<1> QED
  BY <1>1, <1>2, <1>3 DEF Grid!Next

\* which holds at the start.
LEMMA GridStarts == GridInit => GridInv
<1> SUFFICES ASSUME GridInit PROVE GridInv
  OBVIOUS
<1>1. /\ poses \in PoseStamps /\ everyN \in LidarStrides
      /\ maxFrames \in LidarLimits /\ stride \in Previews
      /\ pc = "read" /\ read = <<>>
      /\ used = 0 /\ skipped = 0 /\ cells = {} /\ worst = 0 /\ last = <<>>
      /\ previews = <<>> /\ image = Grid!NoImage
  BY DEF GridInit, Grid!Init
<1>2. GridTypes
  BY <1>1, GridFacts, FS_EmptySet DEF GridTypes
<1>3. Grid!Examined(Len(read)) = {} /\ GoodFrames = {}
  BY <1>1 DEF Grid!Examined, GoodFrames
<1>4. KeptBy({})
  BY <1>1, <1>3, FS_EmptySet DEF KeptBy
<1>5. GridKept
  BY <1>4 DEF GridKept
<1>6. GridCount
  <2>1. Cardinality(Grid!Examined(Len(read))) = 0
    BY <1>3, FS_EmptySet
  <2> QED
    BY <1>1, <2>1 DEF GridCount
<1>7. GridPreviews
  <2>1. stride \in Nat /\ (stride # 0 => 0 \div stride = 0)
    <3>1. stride \in Nat
      BY <1>1, GridFacts
    <3>2. ASSUME stride # 0 PROVE 0 \div stride = 0
      <4>1. stride \in Nat \ {0} /\ 0 \in 0..stride - 1 /\ 0 = stride * 0 + 0
        BY <3>1, <3>2
      <4> QED
        BY <4>1, DivModUnique
    <3> QED
      BY <3>1, <3>2
  <2> QED
    BY <1>1, <2>1 DEF GridPreviews
<1>8. GridImage
  BY <1>1 DEF GridImage
<1> QED
  BY <1>2, <1>5, <1>6, <1>7, <1>8 DEF GridInv

----------------------------------------------------------------------------
\* What the invariant gives

\* The frames used are those the properties name.

----------------------------------------------------------------------------
\* What the invariant gives

\* The frames used are those the properties name.
LEMMA GridOfUsed ==
    ASSUME GridInv
    PROVE  Grid!FramesAccountedFor /\ Grid!GridIsUnionOfUsed
<1>1. PICK K \in SUBSET Nat : KeptBy(K)
  BY DEF GridInv, GridKept
<1> DEFINE n == Len(read)
           Upto(i) == {j \in GoodFrames : j <= i}
           counted == {i \in GoodFrames : Grid!Cardinality(Upto(i)) <= used}
           ended == maxFrames > 0 /\ Grid!Cardinality(GoodFrames) > maxFrames
<1>2. /\ K \subseteq GoodFrames /\ Cardinality(K) = used /\ used \in Nat
      /\ GoodFrames \subseteq 1..n /\ n \in Nat /\ maxFrames \in Nat
      /\ IsFiniteSet(GoodFrames)
  BY <1>1, FiniteFrames, GridFacts DEF KeptBy, GridInv, GridTypes, GoodFrames
<1>3. IsFiniteSet(K)
  BY <1>2, FS_Subset
<1>4. /\ \A i : Grid!Cardinality(Upto(i)) = Cardinality(Upto(i))
      /\ Grid!Cardinality(GoodFrames) = Cardinality(GoodFrames)
      /\ Grid!Cardinality(Grid!Examined(n)) = Cardinality(Grid!Examined(n))
  BY GridCards
<1>5. /\ used + skipped <= Cardinality(Grid!Examined(n))
      /\ pc = "read" => used + skipped = Cardinality(Grid!Examined(n))
  BY DEF GridInv, GridCount
<1>6. counted = K /\ (~ended => used = Cardinality(GoodFrames))
  <2>1. CASE K = GoodFrames
    <3>1. ASSUME NEW i \in GoodFrames PROVE Cardinality(Upto(i)) <= used
      <4>1. Upto(i) \subseteq K
        BY <2>1
      <4> HIDE DEF Upto
      <4> QED
        BY <1>2, <1>3, <4>1, FS_Subset
    <3> HIDE DEF Upto
    <3> QED
      BY <1>2, <1>4, <2>1, <3>1
  <2>2. CASE K # GoodFrames
    <3>1. /\ maxFrames > 0 /\ used >= maxFrames
          /\ GoodFrames = K \cup {n} /\ n \notin K
      BY <1>1, <2>2 DEF KeptBy
    <3>2. Cardinality(GoodFrames) = used + 1
      BY <1>2, <1>3, <3>1, FS_AddElement
    <3>3. ended
      BY <1>2, <1>4, <3>1, <3>2
    <3>4. ASSUME NEW i \in K PROVE Cardinality(Upto(i)) <= used
      <4>1. Upto(i) \subseteq K
        BY <1>2, <3>1
      <4> HIDE DEF Upto
      <4> QED
        BY <1>2, <1>3, <4>1, FS_Subset
    <3>5. ~(Cardinality(Upto(n)) <= used)
      <4>1. Upto(n) = GoodFrames
        <5>1. \A j \in GoodFrames : j <= n
          BY <1>2
        <5> HIDE DEF n
        <5> QED
          BY <5>1
      <4> HIDE DEF Upto, n
      <4> QED
        BY <1>2, <3>2, <4>1
    <3> HIDE DEF Upto, n
    <3> QED
      BY <1>4, <3>1, <3>3, <3>4, <3>5
  <2> QED
    BY <2>1, <2>2
<1>7. /\ cells = UNION {read[i].cells : i \in K}
      /\ used > 0 => last = <<read[Grid!Min(K)].stamp, read[Grid!Max(K)].stamp>>
  BY <1>1 DEF KeptBy
<1>8. Grid!GridIsUnionOfUsed
  <2> HIDE DEF counted
  <2>1. /\ cells = UNION {read[i].cells : i \in counted}
        /\ used > 0 => last = <<read[Grid!Min(counted)].stamp, read[Grid!Max(counted)].stamp>>
    BY <1>6, <1>7
  <2> QED
    BY <2>1 DEF counted, GoodFrames, Grid!GridIsUnionOfUsed
<1>9. Grid!FramesAccountedFor
  <2>1. ~ended => used = Grid!Cardinality(GoodFrames)
    BY <1>4, <1>6
  <2> QED
    BY <1>4, <1>5, <2>1 DEF GoodFrames, Grid!FramesAccountedFor
<1> QED
  BY <1>8, <1>9

\* The extent of a set of cells.
LEMMA Extents ==
    ASSUME NEW set, set \subseteq Int \X Int, IsFiniteSet(set), set # {}
    PROVE  LET X == Grid!Xs(set)
               Y == Grid!Ys(set)
           IN  /\ Grid!Max(X) \in Int /\ Grid!Min(X) \in Int
               /\ Grid!Max(Y) \in Int /\ Grid!Min(Y) \in Int
               /\ \A c \in set : /\ c[1] <= Grid!Max(X) /\ c[1] >= Grid!Min(X)
                                 /\ c[2] <= Grid!Max(Y) /\ c[2] >= Grid!Min(Y)
               /\ Grid!Extent(X) \in Nat \ {0} /\ Grid!Extent(Y) \in Nat \ {0}
<1> DEFINE X == Grid!Xs(set)
           Y == Grid!Ys(set)
           f == [c \in set |-> c[1]]
           g == [c \in set |-> c[2]]
<1>1. X = {f[c] : c \in set} /\ Y = {g[c] : c \in set}
  BY DEF Grid!Xs, Grid!Ys
<1>2. IsFiniteSet({f[c] : c \in set}) /\ IsFiniteSet({g[c] : c \in set})
  <2>1. DOMAIN f = set /\ DOMAIN g = set
    OBVIOUS
  <2> HIDE DEF f, g
  <2> QED
    BY <2>1, FiniteImage
<1>3. /\ X \subseteq Int /\ X # {} /\ IsFiniteSet(X)
      /\ Y \subseteq Int /\ Y # {} /\ IsFiniteSet(Y)
  BY <1>1, <1>2
<1>4. \A c \in set : c[1] \in X /\ c[2] \in Y
  BY DEF Grid!Xs, Grid!Ys
<1> HIDE DEF X, Y
<1>5. /\ Grid!Max(X) \in X /\ Grid!Min(X) \in X /\ Grid!Max(Y) \in Y /\ Grid!Min(Y) \in Y
      /\ \A x \in X : x <= Grid!Max(X) /\ Grid!Min(X) <= x
      /\ \A y \in Y : y <= Grid!Max(Y) /\ Grid!Min(Y) <= y
  BY <1>3, Extremes
<1>6. /\ Grid!Max(X) \in Int /\ Grid!Min(X) \in Int /\ Grid!Max(Y) \in Int /\ Grid!Min(Y) \in Int
      /\ Grid!Min(X) <= Grid!Max(X) /\ Grid!Min(Y) <= Grid!Max(Y)
  BY <1>3, <1>5
<1>7. Grid!Extent(X) \in Nat \ {0} /\ Grid!Extent(Y) \in Nat \ {0}
  BY <1>6 DEF Grid!Extent
<1>8. \A c \in set : /\ c[1] <= Grid!Max(X) /\ c[1] >= Grid!Min(X)
                     /\ c[2] <= Grid!Max(Y) /\ c[2] >= Grid!Min(Y)
  BY <1>3, <1>4, <1>5, <1>6
<1> QED
  BY <1>6, <1>7, <1>8 DEF X, Y

\* The image shows the cells, one pixel each.
LEMMA GridShown ==
    ASSUME GridInv
    PROVE  Grid!ImageShowsCells
<1> SUFFICES ASSUME pc = "rendered"
             PROVE  /\ Grid!Cardinality(image.black) = Grid!Cardinality(cells)
                    /\ image.black \subseteq (0..image.height - 1) \X (0..image.width - 1)
                    /\ \A c, d \in cells :
                          LET p == Grid!Pixel(cells, c)
                              q == Grid!Pixel(cells, d)
                          IN  /\ {p, q} \subseteq image.black
                              /\ c[2] - d[2] = q[1] - p[1] /\ c[1] - d[1] = p[2] - q[2]
  BY DEF Grid!ImageShowsCells
<1>1. image = Grid!Rendered(cells) /\ cells \subseteq Int \X Int /\ IsFiniteSet(cells)
  BY DEF GridInv, GridImage, GridTypes
<1>2. CASE cells = {}
  <2>1. image.black = {}
    BY <1>1, <1>2 DEF Grid!Rendered, Grid!NoImage
  <2> QED
    BY <1>2, <2>1
<1>3. CASE cells # {}
  <2> DEFINE X == Grid!Xs(cells)
             Y == Grid!Ys(cells)
             f == [c \in cells |-> Grid!Pixel(cells, c)]
  <2>1. /\ Grid!Max(X) \in Int /\ Grid!Min(X) \in Int
        /\ Grid!Max(Y) \in Int /\ Grid!Min(Y) \in Int
        /\ \A c \in cells : /\ c[1] <= Grid!Max(X) /\ c[1] >= Grid!Min(X)
                            /\ c[2] <= Grid!Max(Y) /\ c[2] >= Grid!Min(Y)
    BY <1>1, <1>3, Extents
  <2>2. image = [width |-> Grid!Extent(X), height |-> Grid!Extent(Y),
                 black |-> {Grid!Pixel(cells, c) : c \in cells}]
    BY <1>1, <1>3 DEF Grid!Rendered
  <2>3. /\ image.black = {f[c] : c \in cells}
        /\ image.width = Grid!Max(X) - Grid!Min(X) + 1
        /\ image.height = Grid!Max(Y) - Grid!Min(Y) + 1
    BY <2>2 DEF Grid!Extent
  <2>4. \A c \in cells : /\ f[c] = <<Grid!Max(Y) - c[2], c[1] - Grid!Min(X)>>
                         /\ c[1] \in Int /\ c[2] \in Int /\ c = <<c[1], c[2]>>
                         /\ f[c] = Grid!Pixel(cells, c)
    BY <1>1 DEF Grid!Pixel
  <2> HIDE DEF X, Y
  <2>5. \A c, d \in cells : c[2] - d[2] = f[d][1] - f[c][1] /\ c[1] - d[1] = f[c][2] - f[d][2]
    BY <2>1, <2>4
  <2>6. \A c, d \in cells : f[c] = f[d] => c = d
    BY <2>1, <2>4, <2>5
  <2>7. \A c \in cells : f[c] \in (0..image.height - 1) \X (0..image.width - 1)
    BY <2>1, <2>3, <2>4
  <2>8. DOMAIN f = cells
    OBVIOUS
  <2> HIDE DEF f
  <2>9. Cardinality(image.black) = Cardinality(cells)
    BY <1>1, <2>3, <2>6, <2>8, FiniteImage
  <2>10. Grid!Cardinality(image.black) = Grid!Cardinality(cells)
    BY <2>9, GridCards
  <2>11. \A c \in cells : f[c] \in image.black
    BY <2>3
  <2> QED
    BY <2>3, <2>4, <2>5, <2>7, <2>10, <2>11
<1> QED
  BY <1>2, <1>3

\* What fits the limits is an image within them.
LEMMA GridFits ==
    ASSUME GridInv
    PROVE  image.width * image.height <= Grid!Max({MaxCells, 1})
<1> DEFINE M == {MaxCells, 1}
<1>1. MaxCells \in Int /\ IsFiniteSet(M) /\ M \subseteq Int /\ M # {}
  <2>1. IsFiniteSet({MaxCells} \cup {1}) /\ M = {MaxCells} \cup {1}
    BY FS_Singleton, FS_AddElement
  <2>2. MaxCells \in Int
    BY GridFacts
  <2> QED
    BY <2>1, <2>2
<1>2. Grid!Max(M) \in Int /\ MaxCells <= Grid!Max(M) /\ 1 <= Grid!Max(M)
  BY <1>1, Extremes
<1> HIDE DEF M
<1>3. CASE pc # "rendered" \/ cells = {}
  <2>1. \/ image.width = 0 /\ image.height = 0
        \/ image.width = 1 /\ image.height = 1
    <3>1. /\ Grid!NoImage.width = 0 /\ Grid!NoImage.height = 0
          /\ Grid!Rendered({}).width = 1 /\ Grid!Rendered({}).height = 1
      BY DEF Grid!Rendered, Grid!NoImage
    <3>2. image = Grid!NoImage \/ image = Grid!Rendered({})
      <4>1. CASE pc # "rendered"
        BY <4>1 DEF GridInv, GridImage
      <4>2. CASE pc = "rendered" /\ cells = {}
        BY <4>2 DEF GridInv, GridImage
      <4> QED
        BY <1>3, <4>1, <4>2
    <3> QED
      BY <3>1, <3>2
  <2>2. image.width * image.height <= 1 /\ image.width * image.height \in Int
    BY <2>1
  <2> QED
    BY <1>2, <2>2 DEF M
<1>4. CASE pc = "rendered" /\ cells # {}
  <2> DEFINE w == Grid!Extent(Grid!Xs(cells))
             h == Grid!Extent(Grid!Ys(cells))
  <2>1. /\ w \in Nat /\ h \in Nat
    BY <1>4, Extents DEF GridInv, GridTypes
  <2>2. image.width = w /\ image.height = h
    BY <1>4 DEF GridInv, GridImage, Grid!Rendered
  <2>3. ~(w * h > MaxCells)
    BY <1>4 DEF GridInv, GridImage, Grid!TooDense
  <2> HIDE DEF w, h
  <2>4. w * h \in Int
    BY <2>1
  <2> QED
    BY <1>1, <1>2, <2>2, <2>3, <2>4 DEF M
<1> QED
  BY <1>3, <1>4

\* What the invariant of the occupancy grid promises.
LEMMA GridPromise ==
    ASSUME GridInv
    PROVE  /\ Grid!TypeOK /\ Grid!FramesAccountedFor /\ Grid!GridIsUnionOfUsed
           /\ Grid!PreviewsGrow /\ Grid!ImageShowsCells
<1>1. \A p \in Grid!ToSet(previews) : ~Grid!TooDense(p[2])
  BY DEF GridInv, GridPreviews, Grid!ToSet
<1>2. Grid!TypeOK
  <2>1. {used, skipped, worst} \subseteq Nat
    BY DEF GridInv, GridTypes
  <2> QED
    BY <1>1, <2>1, GridFits DEF GridInv, GridTypes, Grid!TypeOK
<1>3. Grid!PreviewsGrow
  BY DEF GridInv, GridPreviews, Grid!PreviewsGrow
<1> QED
  BY <1>2, <1>3, GridOfUsed, GridShown

----------------------------------------------------------------------------
\* Sorted sequences of numbers

\* Induction, for a set of natural numbers in place of a predicate.
LEMMA Induct ==
    ASSUME NEW S, 0 \in S, \A n \in Nat : n \in S => n + 1 \in S
    PROVE  \A n \in Nat : n \in S
<1> SUFFICES ASSUME Nat \ S # {} PROVE FALSE
  OBVIOUS
<1>1. PICK x \in Nat \ S : \A y \in Nat \ S : x <= y
  BY LeastElement
<1>2. x # 0 /\ x - 1 \in Nat /\ (x - 1) + 1 = x /\ ~(x <= x - 1)
  BY <1>1
<1>3. x - 1 \notin S
  BY <1>1, <1>2
<1> QED
  BY <1>1, <1>2, <1>3

\* s lists the elements of S in ascending order.
Ordered(s, S) ==
    /\ s \in Seq(S)
    /\ \A x \in S : \E i \in 1..Len(s) : s[i] = x
    /\ \A i, j \in 1..Len(s) : i < j => s[i] < s[j]

\* What it is in any case.
LEMMA OrderedSeq ==
    ASSUME NEW S \in SUBSET Nat, NEW s, Ordered(s, S)
    PROVE  /\ s \in Seq(S) /\ Len(s) \in Nat /\ DOMAIN s = 1..Len(s)
           /\ \A i \in 1..Len(s) : s[i] \in S /\ s[i] \in Nat
<1>1. s \in Seq(S)
  BY DEF Ordered
<1>2. Len(s) \in Nat /\ DOMAIN s = 1..Len(s) /\ \A i \in 1..Len(s) : s[i] \in S
  BY <1>1
<1> QED
  BY <1>1, <1>2

\* There is one such sequence only.
LEMMA OrderedUnique ==
    ASSUME NEW S \in SUBSET Nat, NEW s, NEW t, Ordered(s, S), Ordered(t, S)
    PROVE  s = t
<1> DEFINE D == {i \in Nat : i \in 1..Len(s) /\ i \in 1..Len(t) /\ s[i] # t[i]}
<1>0. /\ s \in Seq(S) /\ t \in Seq(S) /\ Len(s) \in Nat /\ Len(t) \in Nat
      /\ \A i \in 1..Len(s) : s[i] \in S /\ s[i] \in Nat
      /\ \A i \in 1..Len(t) : t[i] \in S /\ t[i] \in Nat
  BY OrderedSeq
<1>1. D = {}
  <2> SUFFICES ASSUME D # {} PROVE FALSE
    OBVIOUS
  <2>1. PICK i \in D : \A j \in D : i <= j
    <3>1. D \subseteq Nat
      OBVIOUS
    <3> QED
      BY <3>1, LeastElement
  <2>2. i \in 1..Len(s) /\ i \in 1..Len(t) /\ s[i] # t[i] /\ i \in Nat
    OBVIOUS
  <2>3. \A j \in Nat : j < i /\ j \in 1..Len(s) /\ j \in 1..Len(t) => s[j] = t[j]
    BY <2>1
  <2>4. PICK j \in 1..Len(t) : t[j] = s[i]
    BY <2>2, <1>0 DEF Ordered
  <2>5. PICK k \in 1..Len(s) : s[k] = t[i]
    BY <2>2, <1>0 DEF Ordered
  <2> HIDE DEF D
  <2>6. ~(j <= i)
    <3>1. CASE j = i
      BY <3>1, <2>2, <2>4
    <3>2. CASE j < i
      <4>1. j \in 1..Len(s) /\ s[j] = t[j]
        BY <3>2, <2>2, <2>3, <1>0
      <4>2. s[j] < s[i] /\ s[i] \in Nat
        BY <3>2, <4>1, <2>2, <1>0 DEF Ordered
      <4> QED
        BY <4>1, <4>2, <2>4
    <3> QED
      BY <3>1, <3>2, <2>2, <1>0
  <2>7. ~(k <= i)
    <3>1. CASE k = i
      BY <3>1, <2>2, <2>5
    <3>2. CASE k < i
      <4>1. k \in 1..Len(t) /\ s[k] = t[k]
        BY <3>2, <2>2, <2>3, <1>0
      <4>2. t[k] < t[i] /\ t[i] \in Nat
        BY <3>2, <4>1, <2>2, <1>0 DEF Ordered
      <4> QED
        BY <4>1, <4>2, <2>5
    <3> QED
      BY <3>1, <3>2, <2>2, <1>0
  <2>8. t[i] < s[i] /\ s[i] < t[i]
    <3>1. i < j /\ i < k
      BY <2>6, <2>7, <2>2, <1>0
    <3>2. t[i] < t[j]
      BY <3>1, <2>2 DEF Ordered
    <3>3. s[i] < s[k]
      BY <3>1, <2>2 DEF Ordered
    <3> QED
      BY <3>2, <3>3, <2>4, <2>5
  <2> QED
    BY <2>8, <2>2, <1>0
<1>2. ASSUME NEW a, NEW b, Ordered(a, S), Ordered(b, S),
             \A i \in Nat : i \in 1..Len(a) /\ i \in 1..Len(b) => a[i] = b[i]
      PROVE  Len(b) <= Len(a)
  <2>0. Len(a) \in Nat /\ Len(b) \in Nat /\ \A i \in 1..Len(b) : b[i] \in S /\ b[i] \in Nat
    BY <1>2, OrderedSeq
  <2> SUFFICES ASSUME Len(a) < Len(b) PROVE FALSE
    BY <2>0
  <2> DEFINE n == Len(a) + 1
  <2>1. n \in 1..Len(b) /\ b[n] \in S
    BY <2>0
  <2>2. PICK k \in 1..Len(a) : a[k] = b[n]
    BY <2>1, <1>2 DEF Ordered
  <2>3. k \in 1..Len(b) /\ k < n /\ a[k] = b[k]
    BY <2>0, <2>2, <1>2
  <2>4. b[k] < b[n]
    BY <2>1, <2>3, <1>2 DEF Ordered
  <2> HIDE DEF n
  <2> QED
    BY <2>0, <2>1, <2>2, <2>3, <2>4
<1>3. \A i \in Nat : i \in 1..Len(s) /\ i \in 1..Len(t) => s[i] = t[i]
  BY <1>1
<1>4. \A i \in Nat : i \in 1..Len(t) /\ i \in 1..Len(s) => t[i] = s[i]
  BY <1>3
<1>5. Len(t) <= Len(s) /\ Len(s) <= Len(t)
  BY <1>2, <1>3, <1>4
<1>6. Len(s) = Len(t) /\ DOMAIN s = 1..Len(s) /\ DOMAIN t = 1..Len(t)
  BY <1>0, <1>5
<1>7. \A i \in 1..Len(s) : s[i] = t[i]
  BY <1>0, <1>3, <1>6
<1> HIDE DEF D
<1> QED
  BY <1>0, <1>6, <1>7

\* The i-th element is the one with i elements up to it.
LEMMA OrderedRank ==
    ASSUME NEW S \in SUBSET Nat, NEW s, Ordered(s, S)
    PROVE  /\ IsFiniteSet(S) /\ Cardinality(S) = Len(s)
           /\ \A i \in 1..Len(s) : /\ {k \in S : k <= s[i]} = {s[j] : j \in 1..i}
                                   /\ Cardinality({k \in S : k <= s[i]}) = i
<1>0. /\ s \in Seq(S) /\ Len(s) \in Nat /\ DOMAIN s = 1..Len(s)
      /\ \A i \in 1..Len(s) : s[i] \in S /\ s[i] \in Nat
  BY OrderedSeq
<1>1. \A i, j \in 1..Len(s) : s[i] = s[j] => i = j
  <2> TAKE i, j \in 1..Len(s)
  <2>1. (i < j => s[i] < s[j]) /\ (j < i => s[j] < s[i])
    BY DEF Ordered
  <2>2. s[i] \in Nat /\ s[j] \in Nat /\ i \in Nat /\ j \in Nat
    BY <1>0
  <2> QED
    BY <2>1, <2>2
<1>2. \A n \in Nat : n <= Len(s) => /\ IsFiniteSet({s[j] : j \in 1..n})
                                    /\ Cardinality({s[j] : j \in 1..n}) = n
  <2> SUFFICES ASSUME NEW n \in Nat, n <= Len(s)
               PROVE  /\ IsFiniteSet({s[j] : j \in 1..n})
                      /\ Cardinality({s[j] : j \in 1..n}) = n
    OBVIOUS
  <2>1. IsFiniteSet(1..n) /\ Cardinality(1..n) = n
    BY FS_Interval
  <2>2. \A i, j \in 1..n : s[i] = s[j] => i = j
    BY <1>0, <1>1
  <2>3. ASSUME NEW D, IsFiniteSet(D), NEW f, DOMAIN f = D,
               \A i, j \in D : f[i] = f[j] => i = j
        PROVE  IsFiniteSet({f[j] : j \in D}) /\ Cardinality({f[j] : j \in D}) = Cardinality(D)
    BY <2>3, FiniteImage
  <2> DEFINE g == [j \in 1..n |-> s[j]]
  <2>4. DOMAIN g = 1..n /\ (\A i, j \in 1..n : g[i] = g[j] => i = j)
        /\ {g[j] : j \in 1..n} = {s[j] : j \in 1..n}
    BY <2>2
  <2> HIDE DEF g
  <2>5. /\ IsFiniteSet({g[j] : j \in 1..n})
        /\ Cardinality({g[j] : j \in 1..n}) = Cardinality(1..n)
    BY <2>1, <2>3, <2>4, SMTT(30)
  <2> QED
    BY <2>1, <2>4, <2>5, Zenon
<1>3. S = {s[j] : j \in 1..Len(s)}
  BY <1>0 DEF Ordered
<1>4. ASSUME NEW i \in 1..Len(s) PROVE {k \in S : k <= s[i]} = {s[j] : j \in 1..i}
  <2>1. ASSUME NEW k \in S, k <= s[i] PROVE k \in {s[j] : j \in 1..i}
    <3>1. PICK j \in 1..Len(s) : s[j] = k
      BY DEF Ordered
    <3>2. i < j => s[i] < s[j]
      BY DEF Ordered
    <3>3. j <= i
      BY <3>1, <3>2, <2>1, <1>0
    <3> QED
      BY <3>1, <3>3, <1>0
  <2>2. ASSUME NEW j \in 1..i PROVE s[j] \in S /\ s[j] <= s[i]
    <3>1. j \in 1..Len(s) /\ i \in Nat /\ j \in Nat /\ (j < i => s[j] < s[i])
      BY <1>0 DEF Ordered
    <3>2. s[j] \in S /\ s[j] \in Nat /\ s[i] \in Nat
      BY <3>1, <1>0
    <3> QED
      BY <3>1, <3>2
  <2> QED
    BY <2>1, <2>2
<1>5. \A i \in 1..Len(s) : i \in Nat /\ i <= Len(s)
  BY <1>0
<1>6. IsFiniteSet(S) /\ Cardinality(S) = Len(s)
  <2>1. Len(s) \in Nat /\ Len(s) <= Len(s)
    BY <1>0
  <2> QED
    BY <2>1, <1>2, <1>3
<1>7. \A i \in 1..Len(s) : Cardinality({k \in S : k <= s[i]}) = i
  BY <1>2, <1>4, <1>5
<1> QED
  BY <1>4, <1>6, <1>7

\* The first element is the least one, and the others follow.
LEMMA OrderedTail ==
    ASSUME NEW S \in SUBSET Nat, NEW s, Ordered(s, S), s # <<>>
    PROVE  /\ Head(s) \in S /\ Head(s) = s[1]
           /\ \A x \in S : x = Head(s) \/ Head(s) < x
           /\ Ordered(Tail(s), S \ {Head(s)})
<1>1. /\ s \in Seq(S) /\ Len(s) \in Nat /\ DOMAIN s = 1..Len(s)
      /\ \A i \in 1..Len(s) : s[i] \in S /\ s[i] \in Nat
  BY OrderedSeq
<1>2. Len(s) # 0 /\ 1 \in 1..Len(s)
  BY <1>1
<1>3. Head(s) = s[1] /\ Head(s) \in S
  BY <1>1, <1>2
<1>4. \A x \in S : x = s[1] \/ s[1] < x
  <2> TAKE x \in S
  <2>1. PICK i \in 1..Len(s) : s[i] = x
    BY DEF Ordered
  <2>2. 1 < i => s[1] < s[i]
    BY <1>2 DEF Ordered
  <2>3. i = 1 \/ 1 < i
    BY <1>1
  <2> QED
    BY <2>1, <2>2, <2>3
<1> DEFINE t == Tail(s)
<1>5. t \in Seq(S) /\ Len(t) = Len(s) - 1 /\ \A i \in 1..Len(t) : t[i] = s[i + 1]
  BY <1>1, <1>2
<1> HIDE DEF t
<1>6. \A i, j \in 1..Len(t) : i < j => t[i] < t[j]
  <2> SUFFICES ASSUME NEW i \in 1..Len(t), NEW j \in 1..Len(t), i < j PROVE t[i] < t[j]
    OBVIOUS
  <2>1. i + 1 \in 1..Len(s) /\ j + 1 \in 1..Len(s) /\ i + 1 < j + 1
    BY <1>1, <1>5
  <2>2. s[i + 1] < s[j + 1]
    BY <2>1 DEF Ordered
  <2> QED
    BY <2>2, <1>5
<1>7. \A i \in 1..Len(t) : t[i] \in S \ {s[1]}
  <2> TAKE i \in 1..Len(t)
  <2>1. i + 1 \in 1..Len(s) /\ 1 < i + 1
    BY <1>1, <1>5
  <2>2. s[1] < s[i + 1] /\ s[1] \in Nat /\ s[i + 1] \in S
    BY <1>1, <1>2, <2>1 DEF Ordered
  <2> QED
    BY <2>2, <1>5
<1>8. \A x \in S \ {s[1]} : \E i \in 1..Len(t) : t[i] = x
  <2> TAKE x \in S \ {s[1]}
  <2>1. PICK i \in 1..Len(s) : s[i] = x
    BY DEF Ordered
  <2>2. i # 1 /\ i - 1 \in 1..Len(t) /\ (i - 1) + 1 = i
    BY <1>1, <1>5, <2>1
  <2> QED
    BY <2>1, <2>2, <1>5
<1>9. t \in Seq(S \ {s[1]})
  <2>1. DOMAIN t = 1..Len(t) /\ Len(t) \in Nat
    BY <1>5
  <2>2. t = [i \in 1..Len(t) |-> t[i]]
    BY <1>5
  <2> QED
    BY <1>7, <2>1, <2>2
<1>10. Ordered(t, S \ {s[1]})
  BY <1>6, <1>8, <1>9 DEF Ordered
<1> QED
  BY <1>3, <1>4, <1>10 DEF t

\* Another one behind all the others.
LEMMA OrderedAppend ==
    ASSUME NEW S \in SUBSET Nat, NEW s, Ordered(s, S), NEW x \in Nat, \A y \in S : y < x
    PROVE  Ordered(Append(s, x), S \cup {x})
<1>1. /\ s \in Seq(S) /\ Len(s) \in Nat /\ DOMAIN s = 1..Len(s)
      /\ \A i \in 1..Len(s) : s[i] \in S /\ s[i] \in Nat
  BY OrderedSeq
<1> DEFINE t == Append(s, x)
<1>2. /\ t \in Seq(S \cup {x}) /\ Len(t) = Len(s) + 1 /\ t[Len(s) + 1] = x
      /\ \A i \in 1..Len(s) : t[i] = s[i]
  <2>1. s \in Seq(S \cup {x})
    BY <1>1
  <2> QED
    BY <1>1, <2>1
<1> HIDE DEF t
<1>3. \A i, j \in 1..Len(t) : i < j => t[i] < t[j]
  <2> SUFFICES ASSUME NEW i \in 1..Len(t), NEW j \in 1..Len(t), i < j PROVE t[i] < t[j]
    OBVIOUS
  <2>1. i \in 1..Len(s) /\ t[i] = s[i] /\ s[i] \in S
    BY <1>1, <1>2
  <2>2. CASE j = Len(s) + 1
    BY <2>1, <2>2, <1>2
  <2>3. CASE j # Len(s) + 1
    <3>0. j \in 1..Len(s)
      BY <2>3, <1>1, <1>2
    <3>1. j \in 1..Len(s) /\ t[j] = s[j]
      BY <3>0, <1>2
    <3>2. s[i] < s[j]
      BY <2>1, <3>1 DEF Ordered
    <3> QED
      BY <2>1, <3>1, <3>2
  <2> QED
    BY <2>2, <2>3
<1>4. \A y \in S \cup {x} : \E i \in 1..Len(t) : t[i] = y
  <2> TAKE y \in S \cup {x}
  <2>1. CASE y = x
    <3>1. Len(s) + 1 \in 1..Len(t)
      BY <1>1, <1>2
    <3> QED
      BY <3>1, <2>1, <1>2
  <2>2. CASE y \in S
    <3>1. PICK i \in 1..Len(s) : s[i] = y
      BY <2>2 DEF Ordered
    <3>2. i \in 1..Len(t) /\ t[i] = y
      BY <3>1, <1>1, <1>2
    <3> QED
      BY <3>2
  <2> QED
    BY <2>1, <2>2
<1> QED
  BY <1>2, <1>3, <1>4 DEF Ordered, t

\* One sequence behind another.
LEMMA OrderedConcat ==
    ASSUME NEW S \in SUBSET Nat, NEW T \in SUBSET Nat, NEW s, NEW t,
           Ordered(s, S), Ordered(t, T), \A x \in S, y \in T : x < y
    PROVE  Ordered(s \o t, S \cup T)
<1>1. /\ s \in Seq(S) /\ Len(s) \in Nat
      /\ \A i \in 1..Len(s) : s[i] \in S /\ s[i] \in Nat
  BY OrderedSeq
<1>2. /\ t \in Seq(T) /\ Len(t) \in Nat
      /\ \A i \in 1..Len(t) : t[i] \in T /\ t[i] \in Nat
  BY OrderedSeq
<1> DEFINE r == s \o t
           n == Len(s)
           U == S \cup T
<1>3. /\ r \in Seq(U) /\ Len(r) = n + Len(t)
      /\ \A i \in 1..n : r[i] = s[i]
      /\ \A i \in 1..Len(t) : r[n + i] = t[i]
  <2>1. s \in Seq(U) /\ t \in Seq(U)
    BY <1>1, <1>2
  <2> HIDE DEF U
  <2> QED
    BY <1>1, <1>2, <2>1
<1>4. n \in Nat
  BY <1>1
<1> HIDE DEF r, n
<1>5. \A i \in 1..Len(r) : i \in 1..n \/ (i - n \in 1..Len(t) /\ n + (i - n) = i)
  BY <1>2, <1>3, <1>4
<1>6. \A i, j \in 1..Len(r) : i < j => r[i] < r[j]
  <2> SUFFICES ASSUME NEW i \in 1..Len(r), NEW j \in 1..Len(r), i < j PROVE r[i] < r[j]
    OBVIOUS
  <2>1. CASE i \in 1..n /\ j \in 1..n
    <3>1. s[i] < s[j]
      BY <2>1 DEF Ordered, n
    <3> QED
      BY <3>1, <2>1, <1>3
  <2>2. CASE i \in 1..n /\ j \notin 1..n
    <3>1. j - n \in 1..Len(t) /\ r[j] = t[j - n]
      BY <2>2, <1>3, <1>5
    <3>2. r[i] = s[i] /\ s[i] \in S /\ t[j - n] \in T
      BY <2>2, <3>1, <1>1, <1>2, <1>3 DEF n
    <3> QED
      BY <3>1, <3>2
  <2>3. CASE i \notin 1..n
    <3>1. j \notin 1..n
      BY <2>3, <1>4
    <3>2. i - n \in 1..Len(t) /\ r[i] = t[i - n] /\ j - n \in 1..Len(t) /\ r[j] = t[j - n]
      BY <2>3, <3>1, <1>3, <1>5
    <3>3. i - n < j - n
      BY <1>4
    <3>4. t[i - n] < t[j - n]
      BY <3>2, <3>3 DEF Ordered
    <3> QED
      BY <3>2, <3>4
  <2> QED
    BY <2>1, <2>2, <2>3
<1>7. \A x \in U : \E i \in 1..Len(r) : r[i] = x
  <2> TAKE x \in U
  <2>1. CASE x \in S
    <3>1. PICK i \in 1..n : s[i] = x
      BY <2>1 DEF Ordered, n
    <3>2. i \in 1..Len(r) /\ r[i] = x
      BY <3>1, <1>2, <1>3, <1>4
    <3> QED
      BY <3>2
  <2>2. CASE x \in T
    <3>1. PICK i \in 1..Len(t) : t[i] = x
      BY <2>2 DEF Ordered
    <3>2. n + i \in 1..Len(r) /\ r[n + i] = x
      BY <3>1, <1>2, <1>3, <1>4
    <3> QED
      BY <3>2
  <2> QED
    BY <2>1, <2>2
<1> QED
  BY <1>3, <1>6, <1>7 DEF Ordered, r

----------------------------------------------------------------------------
\* The order in which the messages of a bag are read

\* Cardinality is the same operator in the instance.
LEMMA FrameCards == \A S : Frames!Cardinality(S) = Cardinality(S)
BY Zenon DEF Frames!Cardinality, Cardinality

\* A cursor gives the messages of a file in the order of their timestamps.
LEMMA CursorOrdered ==
    ASSUME NEW S \in SUBSET Nat, IsFiniteSet(S)
    PROVE  Ordered(Frames!Cursor(S), S)
<1> DEFINE n == Cardinality(S)
           UpTo(m) == {k \in S : k <= m}
           rank == [m \in S |-> Cardinality(UpTo(m))]
           c == Frames!Cursor(S)
<1>0. n \in Nat
  BY FS_CardinalityType
<1>1. ASSUME NEW m \in S
      PROVE  IsFiniteSet(UpTo(m)) /\ Cardinality(UpTo(m)) \in 1..n
  <2>1. UpTo(m) \in SUBSET S /\ m \in UpTo(m)
    OBVIOUS
  <2> HIDE DEF UpTo
  <2>2. IsFiniteSet(UpTo(m)) /\ Cardinality(UpTo(m)) <= n
    BY <2>1, FS_Subset
  <2>3. Cardinality(UpTo(m)) \in Nat /\ Cardinality(UpTo(m)) # 0
    BY <2>1, <2>2, FS_CardinalityType, FS_EmptySet
  <2> HIDE DEF n
  <2> QED
    BY <2>2, <2>3, <1>0
<1>2. ASSUME NEW m \in S, NEW l \in S, m < l
      PROVE  Cardinality(UpTo(m)) < Cardinality(UpTo(l))
  <2>1. UpTo(m) \in SUBSET UpTo(l) /\ l \in UpTo(l) /\ l \notin UpTo(m)
    <3>1. m \in Nat /\ l \in Nat
      OBVIOUS
    <3>2. \A k \in S : k <= m => k <= l
      BY <1>2, <3>1
    <3>3. l <= l /\ ~(l <= m)
      BY <1>2, <3>1
    <3> QED
      BY <3>2, <3>3
  <2>2. IsFiniteSet(UpTo(l)) /\ Cardinality(UpTo(l)) \in Nat /\ Cardinality(UpTo(m)) \in Nat
    BY <1>0, <1>1
  <2> HIDE DEF UpTo
  <2>3. /\ Cardinality(UpTo(m)) <= Cardinality(UpTo(l))
        /\ Cardinality(UpTo(m)) = Cardinality(UpTo(l)) => UpTo(m) = UpTo(l)
    BY <2>1, <2>2, FS_Subset
  <2> QED
    BY <2>1, <2>2, <2>3
<1>3. rank \in [S -> 1..n] /\ \A m \in S : rank[m] = Cardinality(UpTo(m))
  BY <1>1, Zenon
<1>4. \A m, l \in S : (m < l => rank[m] < rank[l])
  BY <1>2, <1>3
<1> HIDE DEF rank
<1>5. \A m, l \in S : rank[m] = rank[l] => m = l
  <2> TAKE m, l \in S
  <2>1. m \in Nat /\ l \in Nat /\ rank[m] \in Nat /\ rank[l] \in Nat
    BY <1>0, <1>3
  <2> QED
    BY <2>1, <1>4
<1>6. rank \in Surjection(S, 1..n)
  <2>1. IsFiniteSet(1..n) /\ Cardinality(1..n) = n
    BY <1>0, FS_Interval
  <2>2. rank \in Injection(S, 1..n)
    BY <1>3, <1>5, Zenon DEF Injection, IsInjective
  <2>3. Cardinality(S) = Cardinality(1..n)
    BY <2>1
  <2> QED
    BY <2>1, <2>2, <2>3, FS_Injection
<1>7. DOMAIN c = 1..n /\ \A i \in 1..n : c[i] = CHOOSE m \in S : Cardinality(UpTo(m)) = i
  BY FrameCards, Zenon DEF Frames!Cursor
<1>8. c = [i \in 1..n |-> c[i]]
  BY FrameCards DEF Frames!Cursor
<1> HIDE DEF c
<1>9. ASSUME NEW i \in 1..n PROVE c[i] \in S /\ rank[c[i]] = i
  <2>1. PICK m \in S : rank[m] = i
    BY <1>6, Zenon DEF Surjection
  <2>2. Cardinality(UpTo(m)) = i
    BY <1>3, <2>1
  <2> HIDE DEF UpTo
  <2>3. c[i] \in S /\ Cardinality(UpTo(c[i])) = i
    BY <2>2, <1>7, Zenon
  <2> QED
    BY <2>3, <1>3
<1> HIDE DEF n, UpTo
<1>10. c \in Seq(S) /\ Len(c) = n
  BY <1>0, <1>7, <1>8, <1>9
<1>11. \A i, j \in 1..n : i < j => c[i] < c[j]
  <2> SUFFICES ASSUME NEW i \in 1..n, NEW j \in 1..n, i < j PROVE c[i] < c[j]
    OBVIOUS
  <2>1. /\ c[i] \in S /\ c[j] \in S /\ c[i] \in Nat /\ c[j] \in Nat
        /\ rank[c[i]] = i /\ rank[c[j]] = j
    BY <1>9
  <2>2. c[j] < c[i] => j < i
    BY <2>1, <1>4
  <2>3. c[i] # c[j]
    BY <2>1, <1>0
  <2> QED
    BY <1>0, <2>1, <2>2, <2>3
<1>12. \A x \in S : \E i \in 1..n : c[i] = x
  <2> TAKE x \in S
  <2>1. rank[x] \in 1..n
    BY <1>3
  <2>2. c[rank[x]] \in S /\ rank[c[rank[x]]] = rank[x]
    BY <2>1, <1>9
  <2>3. c[rank[x]] = x
    BY <2>2, <1>5
  <2> QED
    BY <2>1, <2>3
<1>13. Ordered(c, S)
  BY <1>10, <1>11, <1>12 DEF Ordered
<1> QED
  BY <1>13 DEF c

\* f is the concatenation of the first k sequences of s, for each k up to n.
IsFlat(f, s, n) == f = [i \in 1..n |-> IF i = 1 THEN s[i] ELSE f[i - 1] \o s[i]]

\* There is such a function.
LEMMA FlatExists ==
    ASSUME NEW s, NEW n \in Nat
    PROVE  \E f : IsFlat(f, s, n)
<1> DEFINE S == {k \in Nat : \E f : IsFlat(f, s, k)}
<1>1. 0 \in S
  <2>1. IsFlat([i \in 1..0 |-> 0], s, 0)
    BY DEF IsFlat
  <2> QED
    BY <2>1
<1>2. ASSUME NEW k \in Nat, k \in S PROVE k + 1 \in S
  <2>1. PICK f : IsFlat(f, s, k)
    BY <1>2
  <2> DEFINE g == [j \in 1..(k + 1) |->
                      IF j = k + 1 THEN (IF j = 1 THEN s[1] ELSE f[k] \o s[k + 1]) ELSE f[j]]
  <2>2. \A j \in 1..k : f[j] = IF j = 1 THEN s[j] ELSE f[j - 1] \o s[j]
    BY <2>1 DEF IsFlat
  <2>3. ASSUME NEW j \in 1..(k + 1)
        PROVE  g[j] = IF j = 1 THEN s[j] ELSE g[j - 1] \o s[j]
    <3>1. CASE j = k + 1
      <4>1. j # 1 => j - 1 = k /\ j - 1 # k + 1 /\ j - 1 \in 1..(k + 1)
        BY <3>1
      <4>2. j # 1 => g[j - 1] = f[k]
        BY <4>1
      <4>3. g[j] = IF j = 1 THEN s[1] ELSE f[k] \o s[k + 1]
        BY <3>1
      <4> HIDE DEF g
      <4> QED
        BY <4>2, <4>3, <3>1
    <3>2. CASE j # k + 1
      <4>1. j \in 1..k /\ (j # 1 => j - 1 \in 1..(k + 1) /\ j - 1 # k + 1)
        BY <3>2
      <4>2. j # 1 => g[j - 1] = f[j - 1]
        BY <4>1
      <4>3. g[j] = f[j]
        BY <3>2
      <4> HIDE DEF g
      <4> QED
        BY <4>1, <4>2, <4>3, <2>2
    <3> QED
      BY <3>1, <3>2
  <2>4. g = [j \in 1..(k + 1) |-> g[j]]
    OBVIOUS
  <2> HIDE DEF g
  <2>5. IsFlat(g, s, k + 1)
    BY <2>3, <2>4 DEF IsFlat
  <2> QED
    BY <2>5, SMTT(60)
<1> HIDE DEF S
<1>3. n \in S
  BY <1>1, <1>2, Induct
<1> QED
  BY <1>3 DEF S

\* FlattenSeq takes it for all of s.
LEMMA FlattenIs ==
    \A s : Frames!FlattenSeq(s) =
              IF Len(s) = 0 THEN s ELSE (CHOOSE f : IsFlat(f, s, Len(s)))[Len(s)]
BY Zenon DEF Frames!FlattenSeq, IsFlat

\* Files that are in order: one file after the other gives all the messages in
\* the order of their timestamps.
LEMMA FlattenOrdered ==
    ASSUME NEW F \in Seq(SUBSET Nat), \A i \in DOMAIN F : IsFiniteSet(F[i]),
           \A i, j \in DOMAIN F : i < j => \A x \in F[i], y \in F[j] : x < y
    PROVE  Ordered(Frames!FlattenSeq([i \in DOMAIN F |-> Frames!Cursor(F[i])]),
                   UNION {F[i] : i \in DOMAIN F})
<1> DEFINE s == [i \in DOMAIN F |-> Frames!Cursor(F[i])]
           n == Len(s)
           f == CHOOSE g : IsFlat(g, s, n)
           Up(k) == UNION {F[i] : i \in 1..k}
           S == {k \in Nat : k \in 1..n => Ordered(f[k], Up(k))}
<1>0. Len(F) \in Nat /\ DOMAIN F = 1..Len(F) /\ \A i \in 1..Len(F) : F[i] \in SUBSET Nat
  OBVIOUS
<1>1. n = Len(F) /\ DOMAIN s = 1..n
  BY <1>0
<1>2. n \in Nat /\ DOMAIN F = 1..n /\ \A i \in 1..n : F[i] \in SUBSET Nat
  BY <1>0, <1>1
<1>3. \A i \in 1..n : Ordered(s[i], F[i])
  BY <1>2, CursorOrdered
<1> HIDE DEF s
<1>4. IsFlat(f, s, n)
  BY <1>2, FlatExists, Zenon
<1>5. Frames!FlattenSeq(s) = IF n = 0 THEN s ELSE f[n]
  BY FlattenIs, Zenon
<1> HIDE DEF f, n
<1>6. \A i \in 1..n : f[i] = IF i = 1 THEN s[i] ELSE f[i - 1] \o s[i]
  BY <1>4 DEF IsFlat
<1>7. 0 \in S
  OBVIOUS
<1>8. ASSUME NEW k \in Nat, k \in S PROVE k + 1 \in S
  <2> SUFFICES ASSUME k + 1 \in 1..n PROVE Ordered(f[k + 1], Up(k + 1))
    OBVIOUS
  <2>1. CASE k = 0
    <3>1. Up(k + 1) = F[1] /\ k + 1 = 1
      BY <2>1
    <3>2. f[1] = s[1] /\ 1 \in 1..n
      BY <2>1, <1>6
    <3> QED
      BY <3>1, <3>2, <1>3
  <2>2. CASE k # 0
    <3>1. k \in 1..n /\ Ordered(f[k], Up(k))
      BY <2>2, <1>2, <1>8
    <3>2. f[k + 1] = f[k] \o s[k + 1]
      <4>1. k + 1 # 1 /\ (k + 1) - 1 = k
        BY <2>2
      <4> QED
        BY <4>1, <1>6
    <3>3. Up(k + 1) = Up(k) \cup F[k + 1]
      <4>1. \A i \in 1..(k + 1) : i \in 1..k \/ i = k + 1
        OBVIOUS
      <4>2. k + 1 \in 1..(k + 1) /\ \A i \in 1..k : i \in 1..(k + 1)
        OBVIOUS
      <4> QED
        BY <4>1, <4>2
    <3>4. Up(k) \in SUBSET Nat /\ F[k + 1] \in SUBSET Nat
      <4>1. \A i \in 1..k : i \in 1..n
        BY <1>2, <3>1
      <4> QED
        BY <4>1, <1>2
    <3>5. \A x \in Up(k), y \in F[k + 1] : x < y
      <4> TAKE x \in Up(k), y \in F[k + 1]
      <4>1. PICK i \in 1..k : x \in F[i]
        OBVIOUS
      <4>2. i \in 1..n /\ i < k + 1
        BY <1>2, <3>1
      <4> QED
        BY <4>1, <4>2, <1>2
    <3>6. Ordered(s[k + 1], F[k + 1])
      BY <1>3
    <3> HIDE DEF Up
    <3> QED
      BY <3>1, <3>2, <3>3, <3>4, <3>5, <3>6, OrderedConcat
  <2> QED
    BY <2>1, <2>2
<1> HIDE DEF S
<1>9. \A k \in Nat : k \in S
  BY <1>7, <1>8, Induct
<1>10. CASE n = 0
  <2>1. Frames!FlattenSeq(s) = s /\ s = << >> /\ UNION {F[i] : i \in DOMAIN F} = {}
    BY <1>0, <1>2, <1>1, <1>5, <1>10 DEF s
  <2>2. Ordered(<< >>, {})
    BY DEF Ordered
  <2> QED
    BY <2>1, <2>2 DEF s
<1>11. CASE n # 0
  <2>1. n \in S /\ n \in 1..n
    BY <1>2, <1>9, <1>11
  <2>2. Ordered(f[n], Up(n))
    BY <2>1 DEF S
  <2>3. Up(n) = UNION {F[i] : i \in DOMAIN F}
    BY <1>2
  <2> QED
    BY <2>2, <2>3, <1>5, <1>11 DEF s
<1> QED
  BY <1>10, <1>11

----------------------------------------------------------------------------
\* The frames of a video

\* The messages still to be read, and those that have been.
FrameRest == {queue[i] : i \in 1..Len(queue)} \cup UNION {files[i] : i \in 1..Len(files)}
FrameDone == Frames!Messages \ FrameRest

\* Of the messages D: those in the window, every n-th.
Picked(D) == {m \in Frames!InWindow \cap D : Frames!Nth(m) % everyN = 0}

\* The arguments, the locals, and the limit.
FrameTypes ==
    /\ bag \in Recordings /\ sqlite \in BOOLEAN /\ bad \subseteq Frames!Messages
    /\ everyN \in FrameStrides /\ start \in FrameStarts
    /\ duration \in FrameDurations /\ maxFrames \in FrameLimits
    /\ pc \in {"preview", "read", "no_topic", "failed", "done"}
    /\ files \in Seq(SUBSET Frames!Messages) /\ queue \in Seq(Frames!Messages)
    /\ reference \in Frames!Messages \cup {Frames!None}
    /\ seen \in Nat /\ frames \in Seq(Frames!Messages)
    /\ maxFrames > 0 => /\ Len(frames) <= maxFrames
                        /\ pc = "read" => Len(frames) < maxFrames
    /\ pc = "preview" => /\ reference = Frames!None /\ seen = 0
                         /\ files = <<>> /\ queue = <<>> /\ frames = <<>>

\* What is still to be read comes in order, behind what has been.
FrameOrder ==
    /\ Ordered(queue, {queue[i] : i \in 1..Len(queue)})
    /\ \A i, j \in 1..Len(files) : i < j => \A x \in files[i], y \in files[j] : x < y
    /\ \A i \in 1..Len(queue), j \in 1..Len(files) : \A y \in files[j] : queue[i] < y
    /\ \A x \in FrameDone, y \in FrameRest : x < y

\* What the locals say of the messages read.
FrameCount ==
    /\ reference = IF FrameDone = {} THEN Frames!None ELSE Frames!Min(Frames!Messages)
    /\ seen = Cardinality(Frames!InWindow \cap FrameDone)
    /\ Ordered(frames, Picked(FrameDone)) /\ Len(frames) = seen \div everyN

FrameInv ==
    /\ FrameTypes
    /\ (sqlite => Frames!NamedInOrder) =>
          /\ pc = "read" => FrameOrder /\ FrameCount
          /\ pc = "done" => Ordered(frames, Frames!Asked)
          /\ pc = "failed" =>
                bad \cap (Frames!Asked \cup {Frames!Min(Frames!Messages)}) # {}

\* What the assumption says of the constants.
LEMMA FrameFacts ==
    /\ \A r \in Recordings : r \in Seq(SUBSET Nat) /\ \A i \in DOMAIN r : IsFiniteSet(r[i])
    /\ FrameStrides \subseteq Nat \ {0} /\ FrameStarts \subseteq Nat
    /\ FrameDurations \subseteq Nat /\ FrameLimits \subseteq Nat /\ SampleSize \in Nat \ {0}
<1>1. Frames!FramesAssumption
  BY ScriptsAssumption
<1>2. \A set : Frames!IsFiniteSet(set) <=> IsFiniteSet(set)
  BY DEF Frames!IsFiniteSet, IsFiniteSet
<1> QED
  BY <1>1, <1>2 DEF Frames!FramesAssumption

\* The messages of a bag are finitely many numbers.
LEMMA FrameMessages ==
    ASSUME bag \in Recordings
    PROVE  /\ bag \in Seq(SUBSET Nat) /\ Len(bag) \in Nat /\ DOMAIN bag = 1..Len(bag)
           /\ Frames!Messages = UNION {bag[i] : i \in 1..Len(bag)}
           /\ \A i \in 1..Len(bag) : bag[i] \in SUBSET Frames!Messages /\ IsFiniteSet(bag[i])
           /\ Frames!Messages \in SUBSET Nat /\ IsFiniteSet(Frames!Messages)
<1>1. bag \in Seq(SUBSET Nat) /\ \A i \in DOMAIN bag : IsFiniteSet(bag[i])
  BY FrameFacts
<1>2. Len(bag) \in Nat /\ DOMAIN bag = 1..Len(bag) /\ \A i \in 1..Len(bag) : bag[i] \in SUBSET Nat
  BY <1>1
<1> DEFINE Sets == {bag[i] : i \in 1..Len(bag)}
<1>3. Frames!Messages = UNION Sets
  BY <1>2 DEF Frames!Messages, Frames!Range
<1>4. IsFiniteSet(Sets)
  <2>1. IsFiniteSet(1..Len(bag))
    BY <1>2, FS_Interval
  <2> QED
    BY <2>1, <1>2, FiniteImage
<1>5. \A T \in Sets : IsFiniteSet(T)
  BY <1>1, <1>2
<1>6. IsFiniteSet(UNION Sets)
  <2> HIDE DEF Sets
  <2> QED
    BY <1>4, <1>5, FS_UNION
<1>7. UNION Sets \in SUBSET Nat /\ \A i \in 1..Len(bag) : bag[i] \in SUBSET UNION Sets
  BY <1>2
<1>8. \A i \in 1..Len(bag) : IsFiniteSet(bag[i])
  BY <1>1, <1>2
<1> HIDE DEF Sets
<1>9. \A i \in 1..Len(bag) : bag[i] \in SUBSET Frames!Messages
  BY <1>3, <1>7
<1>10. Frames!Messages \in SUBSET Nat /\ IsFiniteSet(Frames!Messages)
  BY <1>3, <1>6, <1>7
<1> QED
  BY <1>1, <1>2, <1>3, <1>8, <1>9, <1>10 DEF Sets

\* The first of them.
LEMMA FirstMessage ==
    ASSUME bag \in Recordings, Frames!Messages # {}
    PROVE  /\ Frames!Min(Frames!Messages) \in Frames!Messages
           /\ \A m \in Frames!Messages : Frames!Min(Frames!Messages) <= m
<1>1. PICK x \in Frames!Messages : \A y \in Frames!Messages : x <= y
  BY FrameMessages, LeastElement
<1> QED
  BY <1>1, Zenon DEF Frames!Min

\* Those in the window are numbered in the order of their timestamps.
LEMMA WindowFacts ==
    ASSUME bag \in Recordings
    PROVE  /\ Frames!InWindow \in SUBSET Frames!Messages /\ IsFiniteSet(Frames!InWindow)
           /\ \A m \in Frames!InWindow :
                 /\ Frames!Nth(m) \in Nat \ {0}
                 /\ Frames!Nth(m) = Cardinality({k \in Frames!InWindow : k <= m})
           /\ \A l, m \in Frames!InWindow : l < m => Frames!Nth(l) < Frames!Nth(m)
<1> DEFINE W == Frames!InWindow
           UpTo(m) == {k \in W : k <= m}
<1>1. W \in SUBSET Frames!Messages
  BY DEF Frames!InWindow
<1>2. W \in SUBSET Nat /\ IsFiniteSet(W)
  <2>1. Frames!Messages \in SUBSET Nat /\ IsFiniteSet(Frames!Messages)
    BY FrameMessages
  <2> HIDE DEF W
  <2> QED
    BY <1>1, <2>1, FS_Subset
<1>3. \A m : Frames!Nth(m) = Cardinality(UpTo(m))
  BY FrameCards, Zenon DEF Frames!Nth
<1> HIDE DEF W
<1>4. ASSUME NEW m \in W
      PROVE  IsFiniteSet(UpTo(m)) /\ Cardinality(UpTo(m)) \in Nat \ {0}
  <2>1. UpTo(m) \in SUBSET W /\ m \in UpTo(m)
    BY <1>2
  <2> HIDE DEF UpTo
  <2>2. IsFiniteSet(UpTo(m))
    BY <2>1, <1>2, FS_Subset
  <2> QED
    BY <2>1, <2>2, FS_CardinalityType, FS_EmptySet
<1>5. ASSUME NEW l \in W, NEW m \in W, l < m
      PROVE  Cardinality(UpTo(l)) < Cardinality(UpTo(m))
  <2>1. UpTo(l) \in SUBSET UpTo(m) /\ m \in UpTo(m) /\ m \notin UpTo(l)
    <3>1. m \in Nat /\ l \in Nat /\ \A k \in W : k \in Nat
      BY <1>2
    <3>2. \A k \in W : k <= l => k <= m
      BY <1>5, <3>1
    <3>3. m <= m /\ ~(m <= l)
      BY <1>5, <3>1
    <3> QED
      BY <3>2, <3>3
  <2>2. /\ IsFiniteSet(UpTo(m)) /\ Cardinality(UpTo(l)) \in Nat /\ Cardinality(UpTo(m)) \in Nat
    BY <1>4
  <2> HIDE DEF UpTo
  <2>3. /\ Cardinality(UpTo(l)) <= Cardinality(UpTo(m))
        /\ Cardinality(UpTo(l)) = Cardinality(UpTo(m)) => UpTo(l) = UpTo(m)
    BY <2>1, <2>2, FS_Subset
  <2> QED
    BY <2>1, <2>2, <2>3
<1>6. \A m \in W : Frames!Nth(m) \in Nat \ {0}
  BY <1>3, <1>4
<1>7. \A l, m \in W : l < m => Frames!Nth(l) < Frames!Nth(m)
  BY <1>3, <1>5
<1> QED
  BY <1>1, <1>2, <1>3, <1>6, <1>7 DEF W

\* A reader gives the messages in the order of their timestamps.
LEMMA ReadingOrder ==
    ASSUME bag \in Recordings, sqlite \in BOOLEAN, sqlite => Frames!NamedInOrder
    PROVE  Ordered(Frames!InReadingOrder, Frames!Messages)
<1>1. CASE sqlite
  <2>1. Frames!InReadingOrder = Frames!FlattenSeq([i \in DOMAIN bag |-> Frames!Cursor(bag[i])])
    BY <1>1 DEF Frames!InReadingOrder
  <2>2. \A i, j \in DOMAIN bag : i < j => \A x \in bag[i], y \in bag[j] : x < y
    BY <1>1 DEF Frames!NamedInOrder
  <2>3. bag \in Seq(SUBSET Nat) /\ \A i \in DOMAIN bag : IsFiniteSet(bag[i])
    BY FrameFacts
  <2>4. Frames!Messages = UNION {bag[i] : i \in DOMAIN bag}
    BY FrameMessages
  <2> QED
    BY <2>1, <2>2, <2>3, <2>4, FlattenOrdered
<1>2. CASE ~sqlite
  BY <1>2, FrameMessages, CursorOrdered DEF Frames!InReadingOrder
<1> QED
  BY <1>1, <1>2

\* A quotient is monotone, strictly so between multiples.
LEMMA QuotientGrows ==
    ASSUME NEW m \in Nat \ {0}, NEW a \in Nat, NEW b \in Nat, a <= b
    PROVE  /\ a \div m <= b \div m
           /\ a # b /\ a % m = 0 /\ b % m = 0 => a \div m < b \div m
<1> DEFINE p == a \div m
           q == b \div m
<1>1. p \in Int /\ a % m \in 0..m - 1 /\ a = m * p + (a % m)
  BY DivMod
<1>2. q \in Int /\ b % m \in 0..m - 1 /\ b = m * q + (b % m)
  BY DivMod
<1> HIDE DEF p, q
<1>3. p <= q
  <2> SUFFICES ASSUME q - p <= -1 PROVE FALSE
    BY <1>1, <1>2
  <2>1. q - p \in Int /\ m * (q - p) <= -m
    BY <1>1, <1>2, Multiples
  <2>2. m * (q - p) = m * q - m * p
    BY <1>1, <1>2
  <2>3. m * p \in Int /\ m * q \in Int
    BY <1>1, <1>2
  <2> QED
    BY <1>1, <1>2, <2>1, <2>2, <2>3
<1>4. a # b /\ a % m = 0 /\ b % m = 0 => p # q
  BY <1>1, <1>2
<1> QED
  BY <1>1, <1>2, <1>3, <1>4 DEF p, q

\* One more message has been read, and everything else lies behind it.
LEMMA WindowGrows ==
    ASSUME bag \in Recordings, everyN \in Nat \ {0},
           NEW D \in SUBSET Frames!Messages, NEW x \in Frames!Messages, x \notin D,
           \A y \in D : y < x,
           \A y \in Frames!Messages : y \in D \/ y = x \/ x < y
    PROVE  LET n == Cardinality(Frames!InWindow \cap D) IN
           /\ n \in Nat
           /\ x \notin Frames!InWindow =>
                 /\ Frames!InWindow \cap (D \cup {x}) = Frames!InWindow \cap D
                 /\ Picked(D \cup {x}) = Picked(D)
           /\ x \in Frames!InWindow =>
                 /\ Frames!Nth(x) = n + 1
                 /\ Cardinality(Frames!InWindow \cap (D \cup {x})) = n + 1
                 /\ Picked(D \cup {x}) =
                       IF (n + 1) % everyN = 0 THEN Picked(D) \cup {x} ELSE Picked(D)
<1> DEFINE W == Frames!InWindow
           n == Cardinality(W \cap D)
<1>1. W \in SUBSET Frames!Messages /\ IsFiniteSet(W) /\ Frames!Messages \in SUBSET Nat
  BY WindowFacts, FrameMessages
<1>2. IsFiniteSet(W \cap D) /\ n \in Nat
  <2> HIDE DEF W
  <2>1. IsFiniteSet(W \cap D)
    BY <1>1, FS_Subset
  <2> QED
    BY <2>1, FS_CardinalityType
<1>3. ASSUME x \notin W
      PROVE  W \cap (D \cup {x}) = W \cap D /\ Picked(D \cup {x}) = Picked(D)
  <2>1. W \cap (D \cup {x}) = W \cap D
    BY <1>3
  <2> QED
    BY <2>1 DEF Picked
<1>4. ASSUME x \in W
      PROVE  /\ Frames!Nth(x) = n + 1 /\ Cardinality(W \cap (D \cup {x})) = n + 1
             /\ Picked(D \cup {x}) =
                   IF (n + 1) % everyN = 0 THEN Picked(D) \cup {x} ELSE Picked(D)
  <2>1. W \cap (D \cup {x}) = (W \cap D) \cup {x} /\ x \notin W \cap D
    BY <1>4
  <2>2. Cardinality((W \cap D) \cup {x}) = n + 1
    <3> HIDE DEF W
    <3> QED
      BY <1>2, <2>1, FS_AddElement
  <2>3. {k \in W : k <= x} = (W \cap D) \cup {x}
    <3>1. \A k \in W : k <= x => k \in D \/ k = x
      <4> TAKE k \in W
      <4>1. k \in D \/ k = x \/ x < k
        BY <1>1
      <4>2. k \in Nat /\ x \in Nat
        BY <1>1
      <4> QED
        BY <4>1, <4>2
    <3>2. \A k \in W : k \in D \/ k = x => k <= x
      <4> TAKE k \in W
      <4>2. k \in Nat /\ x \in Nat
        BY <1>1
      <4> QED
        BY <4>2
    <3> HIDE DEF W
    <3> QED
      BY <3>1, <3>2, <1>4
  <2>4. Frames!Nth(x) = n + 1
    BY <1>4, <2>2, <2>3, WindowFacts
  <2>5. Picked(D \cup {x}) =
            Picked(D) \cup {k \in {x} : Frames!Nth(k) % everyN = 0}
    BY <2>1 DEF Picked
  <2> QED
    BY <2>1, <2>2, <2>4, <2>5
<1> QED
  BY <1>2, <1>3, <1>4

\* All of the window has been read: what was picked is what was asked for.
LEMMA AskedOfAll ==
    ASSUME bag \in Recordings, everyN \in Nat \ {0}, maxFrames \in Nat,
           NEW D, Frames!InWindow \subseteq D,
           maxFrames > 0 => Cardinality(Frames!InWindow) \div everyN <= maxFrames
    PROVE  Picked(D) = Frames!Asked
<1> DEFINE W == Frames!InWindow
           n == Cardinality(W)
<1>1. IsFiniteSet(W) /\ n \in Nat
  BY WindowFacts, FS_CardinalityType
<1>2. ASSUME NEW m \in W, maxFrames > 0 PROVE Frames!Nth(m) \div everyN <= maxFrames
  <2>1. Frames!Nth(m) \in Nat /\ Frames!Nth(m) = Cardinality({k \in W : k <= m})
    BY WindowFacts
  <2>2. Frames!Nth(m) <= n
    <3>1. {k \in W : k <= m} \in SUBSET W
      OBVIOUS
    <3> HIDE DEF W
    <3> QED
      BY <1>1, <2>1, <3>1, FS_Subset
  <2>3. Frames!Nth(m) \div everyN <= n \div everyN
    BY <1>1, <2>1, <2>2, QuotientGrows
  <2>4. Frames!Nth(m) \div everyN \in Int /\ n \div everyN \in Int
    BY <1>1, <2>1, DivMod
  <2> QED
    BY <1>2, <2>3, <2>4
<1>3. Picked(D) = {m \in W : Frames!Nth(m) % everyN = 0}
  BY DEF Picked
<1> QED
  BY <1>2, <1>3 DEF Frames!Asked

\* The limit has been reached: likewise.
LEMMA AskedAtLimit ==
    ASSUME bag \in Recordings, everyN \in Nat \ {0}, maxFrames \in Nat \ {0},
           NEW D \in SUBSET Frames!Messages, NEW x \in Frames!InWindow,
           \A y \in D : y <= x,
           \A y \in Frames!Messages : y \in D \/ x < y,
           Frames!Nth(x) % everyN = 0, Frames!Nth(x) \div everyN = maxFrames
    PROVE  Picked(D) = Frames!Asked
<1> DEFINE W == Frames!InWindow
<1>1. /\ W \in SUBSET Frames!Messages /\ Frames!Messages \in SUBSET Nat
      /\ \A m \in W : Frames!Nth(m) \in Nat
      /\ \A l, m \in W : l < m => Frames!Nth(l) < Frames!Nth(m)
  BY WindowFacts, FrameMessages
<1>2. ASSUME NEW m \in W, m \in D PROVE Frames!Nth(m) \div everyN <= maxFrames
  <2>1. m <= x /\ m \in Nat /\ x \in Nat /\ x \in W
    BY <1>1, <1>2
  <2>2. Frames!Nth(m) <= Frames!Nth(x)
    <3>1. m < x => Frames!Nth(m) < Frames!Nth(x)
      BY <1>1, <2>1
    <3>2. Frames!Nth(m) \in Nat /\ Frames!Nth(x) \in Nat
      BY <1>1, <2>1
    <3> QED
      BY <2>1, <3>1, <3>2
  <2> QED
    BY <1>1, <2>1, <2>2, QuotientGrows
<1>3. ASSUME NEW m \in W, m \notin D, Frames!Nth(m) % everyN = 0
      PROVE  ~(Frames!Nth(m) \div everyN <= maxFrames)
  <2>1. x < m /\ x \in W
    BY <1>1, <1>3
  <2>2. Frames!Nth(x) < Frames!Nth(m) /\ Frames!Nth(m) \in Nat /\ Frames!Nth(x) \in Nat
    BY <1>1, <2>1
  <2>3. Frames!Nth(x) <= Frames!Nth(m) /\ Frames!Nth(x) # Frames!Nth(m)
    BY <2>2
  <2>4. maxFrames < Frames!Nth(m) \div everyN
    BY <1>3, <2>2, <2>3, QuotientGrows
  <2>5. Frames!Nth(m) \div everyN \in Int
    BY <2>2, DivMod
  <2> QED
    BY <2>4, <2>5
<1>4. \A m \in W : (Frames!Nth(m) % everyN = 0 /\ m \in D)
                 <=> (Frames!Nth(m) % everyN = 0
                      /\ (maxFrames > 0 => Frames!Nth(m) \div everyN <= maxFrames))
  BY <1>2, <1>3
<1>5. Picked(D) = {m \in W : Frames!Nth(m) % everyN = 0 /\ m \in D}
  BY DEF Picked
<1> QED
  BY <1>4, <1>5 DEF Frames!Asked

\* Nothing has been read.
LEMMA FramesStarts == FramesInit => FrameInv
<1> SUFFICES ASSUME FramesInit PROVE FrameInv
  OBVIOUS
<1>1. Frames!Init
  BY DEF FramesInit
<1>2. bad \subseteq Frames!Messages
  BY <1>1 DEF Frames!Init
<1>3. /\ pc = "preview" /\ files = <<>> /\ queue = <<>> /\ frames = <<>>
      /\ seen = 0 /\ reference = Frames!None
  BY <1>1 DEF Frames!Init
<1>4. maxFrames \in Nat /\ Len(frames) = 0
  BY <1>1, <1>3, FrameFacts DEF Frames!Init
<1>5. FrameTypes
  BY <1>1, <1>2, <1>3, <1>4 DEF Frames!Init, FrameTypes
<1> QED
  BY <1>3, <1>5 DEF FrameInv

\* What a step leaves alone.
LEMMA FramesFixed ==
    ASSUME UNCHANGED Frames!input
    PROVE  /\ Frames!Messages' = Frames!Messages /\ Frames!InWindow' = Frames!InWindow
           /\ \A m : Frames!Nth(m)' = Frames!Nth(m)
           /\ Frames!Asked' = Frames!Asked /\ Frames!NamedInOrder' = Frames!NamedInOrder
           /\ \A D : Picked(D)' = Picked(D)
           /\ bag' = bag /\ sqlite' = sqlite /\ bad' = bad /\ everyN' = everyN
           /\ start' = start /\ duration' = duration /\ maxFrames' = maxFrames
<1>1. /\ bag' = bag /\ sqlite' = sqlite /\ bad' = bad /\ everyN' = everyN
      /\ start' = start /\ duration' = duration /\ maxFrames' = maxFrames
  BY DEF Frames!input
<1>2. Frames!Messages' = Frames!Messages
  BY <1>1 DEF Frames!Messages, Frames!Range
<1>3. Frames!InWindow' = Frames!InWindow
  BY <1>1, <1>2 DEF Frames!InWindow
<1>4. \A m : Frames!Nth(m)' = Frames!Nth(m)
  BY <1>3 DEF Frames!Nth
<1>5. Frames!Asked' = Frames!Asked
  BY <1>1, <1>3, <1>4 DEF Frames!Asked
<1>6. Frames!NamedInOrder' = Frames!NamedInOrder
  BY <1>1 DEF Frames!NamedInOrder
<1>7. \A D : Picked(D)' = Picked(D)
  BY <1>1, <1>3, <1>4 DEF Picked
<1> QED
  BY <1>1, <1>2, <1>3, <1>4, <1>5, <1>6, <1>7

\* first_frame: the bag is opened, or it has no topic, or its first message is
\* unreadable.
LEMMA FramesPreview ==
    ASSUME FrameInv, Frames!Preview
    PROVE  FrameInv'
<1> DEFINE M == Frames!Messages
<1>0. UNCHANGED Frames!input
  BY DEF Frames!Preview
<1>1. /\ pc = "preview" /\ reference' = Frames!None /\ seen' = 0 /\ frames' = <<>>
      /\ files = <<>> /\ queue = <<>> /\ FrameTypes
  BY DEF Frames!Preview, FrameInv, FrameTypes
<1>2. /\ bag \in Recordings /\ sqlite \in BOOLEAN /\ maxFrames \in Nat
      /\ everyN \in Nat \ {0}
  BY <1>1, FrameFacts DEF FrameTypes
<1>3. /\ bag \in Seq(SUBSET Nat) /\ Len(bag) \in Nat /\ DOMAIN bag = 1..Len(bag)
      /\ M = UNION {bag[i] : i \in 1..Len(bag)}
      /\ \A i \in 1..Len(bag) : bag[i] \in SUBSET M /\ IsFiniteSet(bag[i])
      /\ M \in SUBSET Nat /\ IsFiniteSet(M)
  BY <1>2, FrameMessages
<1>4. CASE M = {}
  <2>1. pc' = "no_topic" /\ files' = <<>> /\ queue' = <<>>
    BY <1>1, <1>4 DEF Frames!Preview
  <2>2. FrameTypes'
    BY <1>0, <1>1, <2>1, FramesFixed DEF FrameTypes
  <2> QED
    BY <2>1, <2>2 DEF FrameInv
<1>5. CASE M # {} /\ Head(Frames!InReadingOrder) \in bad
  <2>1. pc' = "failed" /\ files' = <<>> /\ queue' = <<>>
    BY <1>1, <1>5 DEF Frames!Preview
  <2>2. FrameTypes'
    BY <1>0, <1>1, <2>1, FramesFixed DEF FrameTypes
  <2>3. ASSUME sqlite => Frames!NamedInOrder
        PROVE  Head(Frames!InReadingOrder) = Frames!Min(M)
    <3> DEFINE r == Frames!InReadingOrder
    <3>1. Ordered(r, M)
      BY <1>2, <2>3, ReadingOrder
    <3> HIDE DEF r
    <3>2. r # << >>
      <4>1. PICK i \in 1..Len(r) : TRUE
        BY <3>1, <1>5 DEF Ordered
      <4> QED
        BY <4>1
    <3>3. Head(r) \in M /\ \A x \in M : x = Head(r) \/ Head(r) < x
      BY <1>3, <3>1, <3>2, OrderedTail
    <3>4. Frames!Min(M) \in M /\ \A m \in M : Frames!Min(M) <= m
      BY <1>2, <1>5, FirstMessage
    <3> HIDE DEF M
    <3>5. Head(r) \in Nat /\ Frames!Min(M) \in Nat /\ Frames!Min(M) <= Head(r)
      BY <1>3, <3>3, <3>4
    <3>6. Frames!Min(M) = Head(r) \/ Head(r) < Frames!Min(M)
      BY <3>3, <3>4
    <3> QED
      BY <3>5, <3>6 DEF r
  <2>4. Frames!Min(M)' = Frames!Min(M)
    BY <1>0, FramesFixed DEF Frames!Min
  <2>5. (sqlite => Frames!NamedInOrder)' =>
            (bad \cap (Frames!Asked \cup {Frames!Min(M)}) # {})'
    BY <1>0, <1>5, <2>3, <2>4, FramesFixed
  <2> QED
    BY <2>1, <2>2, <2>5 DEF FrameInv
<1>6. CASE M # {} /\ Head(Frames!InReadingOrder) \notin bad
  <2>1. /\ pc' = "read" /\ files' = IF sqlite THEN bag ELSE <<>>
        /\ queue' = IF sqlite THEN <<>> ELSE Frames!Cursor(M)
    BY <1>1, <1>6 DEF Frames!Preview
  <2>2. Ordered(Frames!Cursor(M), M)
    BY <1>3, CursorOrdered
  <2>3. files' \in Seq(SUBSET M) /\ queue' \in Seq(M)
    <3>1. bag \in Seq(SUBSET M)
      BY <1>3
    <3>2. Frames!Cursor(M) \in Seq(M)
      BY <2>2 DEF Ordered
    <3> HIDE DEF M
    <3> QED
      BY <2>1, <3>1, <3>2
  <2>4. Len(frames') = 0 /\ (maxFrames > 0 => Len(frames') <= maxFrames /\ Len(frames') < maxFrames)
    BY <1>1, <1>2
  <2>5. FrameTypes'
    BY <1>0, <1>1, <2>1, <2>3, <2>4, FramesFixed DEF FrameTypes
  <2>6. ASSUME sqlite => Frames!NamedInOrder PROVE FrameOrder' /\ FrameCount'
    <3>1. FrameRest' = M
      <4>1. CASE sqlite
        <5>1. queue' = <<>> /\ files' = bag
          BY <2>1, <4>1
        <5>2. FrameRest' = UNION {bag[i] : i \in 1..Len(bag)}
          BY <5>1 DEF FrameRest
        <5> QED
          BY <5>2, <1>3
      <4>2. CASE ~sqlite
        <5>1. queue' = Frames!Cursor(M) /\ files' = <<>>
          BY <2>1, <4>2
        <5>2. FrameRest' = {queue'[i] : i \in 1..Len(queue')}
          BY <5>1 DEF FrameRest
        <5>3. \A i \in 1..Len(queue') : queue'[i] \in M
          BY <1>3, <2>2, <5>1, OrderedSeq
        <5>4. \A x \in M : \E i \in 1..Len(queue') : queue'[i] = x
          BY <2>2, <5>1 DEF Ordered
        <5> HIDE DEF M
        <5> QED
          BY <5>2, <5>3, <5>4
      <4> QED
        BY <4>1, <4>2
    <3>2. FrameDone' = {}
      BY <1>0, <3>1, FramesFixed DEF FrameDone
    <3>3. FrameOrder'
      <4>1. CASE sqlite
        <5>1. queue' = <<>> /\ files' = bag /\ Frames!NamedInOrder
          BY <2>1, <4>1, <2>6
        <5>2. Ordered(<<>>, {})
          BY DEF Ordered
        <5>3. {queue'[i] : i \in 1..Len(queue')} = {} /\ Len(queue') = 0
          BY <5>1
        <5>4. Ordered(queue', {queue'[i] : i \in 1..Len(queue')})
          BY <5>1, <5>2, <5>3
        <5>5. \A i, j \in 1..Len(files') : i < j =>
                  \A x \in files'[i], y \in files'[j] : x < y
          BY <5>1, <1>3 DEF Frames!NamedInOrder
        <5> QED
          BY <3>2, <5>3, <5>4, <5>5 DEF FrameOrder
      <4>2. CASE ~sqlite
        <5>1. queue' = Frames!Cursor(M) /\ files' = <<>>
          BY <2>1, <4>2
        <5>2. {queue'[i] : i \in 1..Len(queue')} = M
          BY <3>1, <5>1 DEF FrameRest
        <5>3. Ordered(queue', {queue'[i] : i \in 1..Len(queue')}) /\ Len(files') = 0
          BY <2>2, <5>1, <5>2
        <5> QED
          BY <3>2, <5>3 DEF FrameOrder
      <4> QED
        BY <4>1, <4>2
    <3>4. FrameCount'
      <4>1. Cardinality(Frames!InWindow \cap {}) = 0 /\ Picked({}) = {}
        BY FS_EmptySet DEF Picked
      <4>2. 0 \div everyN = 0
        BY <1>2, DivModUnique, 0 = everyN * 0 + 0
      <4>3. Ordered(<<>>, {})
        BY DEF Ordered
      <4> QED
        BY <1>0, <1>1, <2>4, <3>2, <4>1, <4>2, <4>3, FramesFixed DEF FrameCount
    <3> QED
      BY <3>3, <3>4
  <2> QED
    BY <1>0, <2>1, <2>5, <2>6, FramesFixed DEF FrameInv
<1> QED
  BY <1>4, <1>5, <1>6

\* The next file is opened.
LEMMA FramesOpen ==
    ASSUME FrameInv, Frames!OpenFile
    PROVE  FrameInv'
<1> DEFINE M == Frames!Messages
           h == Head(files)
           t == Tail(files)
<1>0. UNCHANGED Frames!input
  BY DEF Frames!OpenFile
<1>1. /\ pc = "read" /\ pc' = pc /\ queue = <<>> /\ files # <<>> /\ FrameTypes
      /\ reference' = reference /\ seen' = seen /\ frames' = frames
      /\ queue' = Frames!Cursor(h) /\ files' = t
  BY DEF Frames!OpenFile, FrameInv
<1>2. bag \in Recordings /\ files \in Seq(SUBSET M)
  BY <1>1 DEF FrameTypes
<1>3. M \in SUBSET Nat /\ IsFiniteSet(M)
  BY <1>2, FrameMessages
<1>4. /\ Len(files) \in Nat \ {0} /\ h \in SUBSET M /\ h = files[1]
      /\ t \in Seq(SUBSET M) /\ Len(t) = Len(files) - 1
      /\ \A i \in 1..Len(t) : t[i] = files[i + 1]
  <2> HIDE DEF M
  <2> QED
    BY <1>1, <1>2
<1>5. h \in SUBSET Nat /\ Ordered(Frames!Cursor(h), h)
  <2>1. IsFiniteSet(h) /\ h \in SUBSET Nat
    <3> HIDE DEF M, h
    <3> QED
      BY <1>3, <1>4, FS_Subset
  <2> HIDE DEF h
  <2> QED
    BY <2>1, CursorOrdered
<1> HIDE DEF h, t, M
<1>6. queue' \in Seq(M)
  <2>1. Frames!Cursor(h) \in Seq(h)
    BY <1>5 DEF Ordered
  <2> QED
    BY <1>1, <1>4, <2>1
<1>7. FrameTypes'
  BY <1>0, <1>1, <1>4, <1>6, FramesFixed DEF FrameTypes, M
<1>8. {queue'[i] : i \in 1..Len(queue')} = h
  <2>1. \A i \in 1..Len(queue') : queue'[i] \in h
    BY <1>1, <1>5, OrderedSeq
  <2>2. \A x \in h : \E i \in 1..Len(queue') : queue'[i] = x
    BY <1>1, <1>5 DEF Ordered
  <2> QED
    BY <2>1, <2>2
<1>9. \A i \in 1..Len(files) : i = 1 \/ (i - 1 \in 1..Len(t) /\ t[i - 1] = files[i])
  <2> TAKE i \in 1..Len(files)
  <2>1. i # 1 => i - 1 \in 1..Len(t) /\ (i - 1) + 1 = i
    BY <1>4
  <2> QED
    BY <2>1, <1>4
<1>10. \A i \in 1..Len(t) : i + 1 \in 1..Len(files) /\ 1 \in 1..Len(files) /\ 1 < i + 1
  BY <1>4
<1>11. FrameRest' = FrameRest /\ FrameDone' = FrameDone
  <2>1. FrameRest = UNION {files[i] : i \in 1..Len(files)}
    BY <1>1 DEF FrameRest
  <2>2. FrameRest' = h \cup UNION {t[i] : i \in 1..Len(t)}
    BY <1>1, <1>8 DEF FrameRest
  <2>3. \A i \in 1..Len(files) : files[i] \subseteq FrameRest'
    <3> TAKE i \in 1..Len(files)
    <3>1. i = 1 => files[i] = h
      BY <1>4
    <3> QED
      BY <3>1, <2>2, <1>9
  <2>4. h \subseteq FrameRest /\ \A i \in 1..Len(t) : t[i] \subseteq FrameRest
    <3>1. 1 \in 1..Len(files)
      BY <1>4
    <3>2. h \subseteq FrameRest
      BY <3>1, <2>1, <1>4
    <3>3. \A i \in 1..Len(t) : t[i] \subseteq FrameRest
      BY <2>1, <1>4, <1>10
    <3> QED
      BY <3>2, <3>3
  <2>5. FrameRest' = FrameRest
    BY <2>1, <2>2, <2>3, <2>4
  <2> QED
    BY <1>0, <2>5, FramesFixed DEF FrameDone
<1>12. ASSUME FrameOrder, FrameCount PROVE FrameOrder' /\ FrameCount'
  <2>1. Ordered(queue', {queue'[i] : i \in 1..Len(queue')})
    BY <1>1, <1>5, <1>8
  <2>2. ASSUME NEW i \in 1..Len(t), NEW j \in 1..Len(t), i < j, NEW x \in t[i], NEW y \in t[j]
        PROVE  x < y
    <3>1. i + 1 < j + 1 /\ x \in files[i + 1] /\ y \in files[j + 1]
      BY <1>4, <2>2
    <3>2. i + 1 \in 1..Len(files) /\ j + 1 \in 1..Len(files)
      BY <1>10
    <3>3. \A a, b \in 1..Len(files) : a < b => \A v \in files[a], w \in files[b] : v < w
      BY <1>12, Zenon DEF FrameOrder
    <3> QED
      BY <3>1, <3>2, <3>3, Zenon
  <2>3. ASSUME NEW i \in 1..Len(queue'), NEW j \in 1..Len(t), NEW y \in t[j]
        PROVE  queue'[i] < y
    <3>1. queue'[i] \in files[1]
      BY <1>4, <1>8
    <3>2. y \in files[j + 1] /\ j + 1 \in 1..Len(files) /\ 1 \in 1..Len(files) /\ 1 < j + 1
      BY <1>4, <1>10
    <3> QED
      BY <3>1, <3>2, <1>12 DEF FrameOrder
  <2>4. \A x \in FrameDone', y \in FrameRest' : x < y
    BY <1>11, <1>12 DEF FrameOrder
  <2>5. FrameOrder'
    BY <2>1, <2>2, <2>3, <2>4, <1>1 DEF FrameOrder
  <2>6. Frames!Min(Frames!Messages)' = Frames!Min(Frames!Messages)
    BY <1>0, FramesFixed DEF Frames!Min
  <2>7. FrameCount'
    BY <1>0, <1>1, <1>11, <1>12, <2>6, FramesFixed DEF FrameCount
  <2> QED
    BY <2>5, <2>7
<1> QED
  BY <1>0, <1>1, <1>7, <1>12, FramesFixed DEF FrameInv

\* The reader is at its end: all of the window has been read.
LEMMA FramesEnd ==
    ASSUME FrameInv, Frames!EndOfBag
    PROVE  FrameInv'
<1>0. UNCHANGED Frames!input
  BY DEF Frames!EndOfBag
<1>1. /\ pc = "read" /\ pc' = "done" /\ queue = <<>> /\ files = <<>> /\ FrameTypes
      /\ files' = files /\ queue' = queue /\ reference' = reference
      /\ seen' = seen /\ frames' = frames
  BY DEF Frames!EndOfBag, FrameInv
<1>2. bag \in Recordings /\ everyN \in Nat \ {0} /\ maxFrames \in Nat
  BY <1>1, FrameFacts DEF FrameTypes
<1>3. FrameTypes'
  BY <1>0, <1>1, FramesFixed DEF FrameTypes
<1>4. ASSUME FrameCount PROVE Ordered(frames, Frames!Asked)
  <2>1. FrameDone = Frames!Messages
    BY <1>1 DEF FrameDone, FrameRest
  <2>2. Frames!InWindow \subseteq FrameDone
    BY <1>2, <2>1, WindowFacts
  <2>3. Frames!InWindow \cap FrameDone = Frames!InWindow
    BY <2>2
  <2>4. maxFrames > 0 => Cardinality(Frames!InWindow) \div everyN <= maxFrames
    BY <1>1, <1>4, <2>3 DEF FrameCount, FrameTypes
  <2>5. Picked(FrameDone) = Frames!Asked
    BY <1>2, <2>2, <2>4, AskedOfAll
  <2> QED
    BY <1>4, <2>5 DEF FrameCount
<1> QED
  BY <1>0, <1>1, <1>3, <1>4, FramesFixed DEF FrameInv

\* What a message leads to.
LEMMA ReadCases ==
    ASSUME FrameTypes, Frames!ReadMessage
    PROVE  LET x == Head(queue) IN
           /\ pc = "read" /\ queue # <<>> /\ x \in Frames!Messages
           /\ queue' = Tail(queue) /\ files' = files /\ UNCHANGED Frames!input
           /\ reference' = IF reference = Frames!None THEN x ELSE reference
           /\ \/ /\ x - reference' < start
                 /\ pc' = pc /\ seen' = seen /\ frames' = frames
              \/ /\ ~(x - reference' < start) /\ Frames!Beyond(x - reference')
                 /\ pc' = "done" /\ seen' = seen /\ frames' = frames
              \/ /\ ~(x - reference' < start) /\ ~Frames!Beyond(x - reference')
                 /\ seen' = seen + 1
                 /\ \/ /\ (seen + 1) % everyN = 0 /\ x \in bad
                       /\ pc' = "failed" /\ frames' = frames
                    \/ /\ (seen + 1) % everyN # 0
                       /\ pc' = pc /\ frames' = frames
                    \/ /\ (seen + 1) % everyN = 0 /\ frames' = Append(frames, x)
                       /\ pc' = IF maxFrames > 0 /\ Len(frames') >= maxFrames
                                THEN "done" ELSE pc
<1>1. queue \in Seq(Frames!Messages) /\ queue # <<>>
  BY DEF FrameTypes, Frames!ReadMessage
<1>2. Head(queue) \in Frames!Messages
  BY <1>1
<1> QED
  BY <1>1, <1>2 DEF Frames!ReadMessage, Frames!Parsed, Frames!Full

\* The types and the limit.
LEMMA FramesReadTypes ==
    ASSUME FrameTypes, Frames!ReadMessage
    PROVE  FrameTypes'
<1> DEFINE x == Head(queue)
           M == Frames!Messages
<1>1. /\ pc = "read" /\ x \in M /\ queue # <<>>
      /\ queue' = Tail(queue) /\ files' = files /\ UNCHANGED Frames!input
      /\ reference' = IF reference = Frames!None THEN x ELSE reference
  BY ReadCases
<1>2. /\ queue \in Seq(M) /\ frames \in Seq(M) /\ seen \in Nat /\ maxFrames \in Nat
      /\ maxFrames > 0 => Len(frames) < maxFrames
  BY <1>1, FrameFacts DEF FrameTypes
<1>3. \/ pc' = pc /\ frames' = frames
      \/ pc' = "done" /\ frames' = frames
      \/ pc' = "failed" /\ frames' = frames
      \/ /\ frames' = Append(frames, x)
         /\ pc' = IF maxFrames > 0 /\ Len(frames') >= maxFrames THEN "done" ELSE pc
  BY ReadCases
<1>4. seen' = seen \/ seen' = seen + 1
  BY ReadCases
<1> HIDE DEF x, M
<1>5. queue' \in Seq(M)
  BY <1>1, <1>2
<1>6. seen' \in Nat
  BY <1>2, <1>4
<1>7. Append(frames, x) \in Seq(M) /\ Len(Append(frames, x)) = Len(frames) + 1 /\ Len(frames) \in Nat
  BY <1>1, <1>2
<1>8. /\ frames' \in Seq(M) /\ pc' \in {"read", "done", "failed"}
      /\ maxFrames > 0 => Len(frames') <= maxFrames /\ (pc' = "read" => Len(frames') < maxFrames)
  <2>1. CASE frames' = frames /\ pc' \in {"read", "done", "failed"}
    BY <1>2, <1>7, <2>1
  <2>2. CASE /\ frames' = Append(frames, x)
             /\ pc' = IF maxFrames > 0 /\ Len(frames') >= maxFrames THEN "done" ELSE pc
    <3>1. frames' \in Seq(M) /\ Len(frames') = Len(frames) + 1
      BY <1>7, <2>2
    <3>2. pc' \in {"read", "done", "failed"}
      BY <1>1, <2>2
    <3>3. maxFrames > 0 => Len(frames') <= maxFrames
      BY <1>2, <1>7, <3>1
    <3>4. maxFrames > 0 /\ pc' = "read" => Len(frames') < maxFrames
      BY <1>2, <1>7, <2>2, <3>1
    <3> QED
      BY <3>1, <3>2, <3>3, <3>4
  <2> QED
    BY <1>1, <1>3, <2>1, <2>2
<1>9. reference' \in M \cup {Frames!None}
  BY <1>1 DEF FrameTypes, M
<1> QED
  BY <1>1, <1>5, <1>6, <1>8, <1>9, FramesFixed DEF FrameTypes, M

\* The message comes before everything that is still to be read.
LEMMA FramesReadNext ==
    ASSUME FrameTypes, FrameOrder, queue # <<>>,
           queue' = Tail(queue), files' = files, UNCHANGED Frames!input
    PROVE  LET x == Head(queue) IN
           /\ x \in Frames!Messages /\ x \notin FrameDone
           /\ \A y \in FrameDone : y < x
           /\ \A y \in Frames!Messages : y \in FrameDone \/ y = x \/ x < y
           /\ FrameDone' = FrameDone \cup {x}
           /\ FrameOrder'
<1> DEFINE x == Head(queue)
           M == Frames!Messages
           Q == {queue[i] : i \in 1..Len(queue)}
           U == UNION {files[i] : i \in 1..Len(files)}
<1>1. bag \in Recordings /\ queue \in Seq(M) /\ files \in Seq(SUBSET M)
  BY DEF FrameTypes
<1>2. M \in SUBSET Nat
  BY <1>1, FrameMessages
<1>3. /\ \A i \in 1..Len(queue) : queue[i] \in M
      /\ Len(files) \in Nat /\ \A i \in 1..Len(files) : files[i] \in SUBSET M
  <2> HIDE DEF M
  <2> QED
    BY <1>1
<1>4. Q \in SUBSET Nat /\ Q \subseteq M /\ U \subseteq M
  BY <1>2, <1>3
<1>5. FrameRest = Q \cup U
  BY DEF FrameRest
<1>6. \A y \in Q, z \in U : y < z
  BY DEF FrameOrder
<1>7. Ordered(queue, Q)
  BY DEF FrameOrder
<1>8. {queue'[i] : i \in 1..Len(queue')} = Q \ {x} /\ Ordered(queue', Q \ {x}) /\ x \in Q
      /\ \A y \in Q : y = x \/ x < y
  <2> HIDE DEF Q
  <2>1. /\ Head(queue) \in Q /\ \A y \in Q : y = Head(queue) \/ Head(queue) < y
        /\ Ordered(Tail(queue), Q \ {Head(queue)})
    BY <1>4, <1>7, OrderedTail
  <2>2. Ordered(queue', Q \ {x}) /\ Q \ {x} \in SUBSET Nat
    BY <2>1, <1>4
  <2>3. \A i \in 1..Len(queue') : queue'[i] \in Q \ {x}
    BY <2>2, OrderedSeq
  <2>4. \A y \in Q \ {x} : \E i \in 1..Len(queue') : queue'[i] = y
    BY <2>2 DEF Ordered
  <2> QED
    BY <2>1, <2>2, <2>3, <2>4
<1>9. x \notin U /\ x \in Nat
  <2>1. x \in Nat
    BY <1>4, <1>8
  <2>2. x \in U => x < x
    BY <1>6, <1>8
  <2> QED
    BY <2>1, <2>2
<1>10. FrameRest' = (Q \ {x}) \cup U
  BY <1>8 DEF FrameRest
<1> HIDE DEF Q, U, x
<1>11. FrameRest' = FrameRest \ {x}
  BY <1>5, <1>9, <1>10
<1>12. x \in FrameRest /\ x \in M /\ x \notin FrameDone
  BY <1>4, <1>5, <1>8 DEF FrameDone
<1>13. M' = M
  BY FramesFixed
<1>14. FrameDone' = FrameDone \cup {x}
  BY <1>11, <1>12, <1>13 DEF FrameDone
<1>15. \A y \in FrameDone : y < x
  BY <1>12 DEF FrameOrder
<1>16. \A y \in FrameRest : y = x \/ x < y
  BY <1>5, <1>6, <1>8
<1>17. \A y \in M : y \in FrameDone \/ y = x \/ x < y
  BY <1>16 DEF FrameDone
<1>18. FrameOrder'
  <2>1. Ordered(queue', {queue'[i] : i \in 1..Len(queue')})
    BY <1>8
  <2>2. \A i, j \in 1..Len(files') : i < j => \A y \in files'[i], z \in files'[j] : y < z
    BY DEF FrameOrder
  <2>3. ASSUME NEW i \in 1..Len(queue'), NEW j \in 1..Len(files'), NEW z \in files'[j]
        PROVE  queue'[i] < z
    <3>1. queue'[i] \in Q
      BY <1>8
    <3>2. z \in U
      BY DEF U
    <3> QED
      BY <3>1, <3>2, <1>6
  <2>4. \A y \in FrameDone', z \in FrameRest' : y < z
    <3> SUFFICES ASSUME NEW y \in FrameDone \cup {x}, NEW z \in FrameRest \ {x} PROVE y < z
      BY <1>11, <1>14
    <3> QED
      BY <1>16 DEF FrameOrder
  <2> QED
    BY <2>1, <2>2, <2>3, <2>4 DEF FrameOrder
<1> QED
  BY <1>12, <1>14, <1>15, <1>17, <1>18 DEF x

\* A message is read: before the window, behind it, or in it.
LEMMA FramesRead ==
    ASSUME FrameInv, Frames!ReadMessage
    PROVE  FrameInv'
<1> DEFINE x == Head(queue)
           M == Frames!Messages
           W == Frames!InWindow
           D == FrameDone
           o == x - reference'
           n == seen + 1
<1>1. /\ pc = "read" /\ queue # <<>> /\ x \in M /\ FrameTypes
      /\ queue' = Tail(queue) /\ files' = files /\ UNCHANGED Frames!input
      /\ reference' = IF reference = Frames!None THEN x ELSE reference
  BY ReadCases DEF FrameInv
<1>2. FrameTypes'
  BY <1>1, FramesReadTypes
<1>3. /\ bag \in Recordings /\ everyN \in Nat \ {0} /\ maxFrames \in Nat
      /\ start \in Nat /\ duration \in Nat /\ seen \in Nat
  BY <1>1, FrameFacts DEF FrameTypes
<1>4. M \in SUBSET Nat
  BY <1>3, FrameMessages
<1> SUFFICES ASSUME sqlite => Frames!NamedInOrder
             PROVE  /\ pc' = "read" => FrameOrder' /\ FrameCount'
                    /\ pc' = "done" => Ordered(frames', Frames!Asked)
                    /\ pc' = "failed" =>
                          bad \cap (Frames!Asked \cup {Frames!Min(M)}) # {}
  <2>1. Frames!Min(M)' = Frames!Min(M)
    BY <1>1, FramesFixed DEF Frames!Min
  <2> QED
    BY <1>1, <1>2, <2>1, FramesFixed DEF FrameInv
<1>5. FrameOrder /\ FrameCount
  BY <1>1 DEF FrameInv
<1>6. /\ x \notin D /\ D \in SUBSET M
      /\ \A y \in D : y < x
      /\ \A y \in M : y \in D \/ y = x \/ x < y
      /\ FrameDone' = D \cup {x} /\ FrameOrder'
  BY <1>1, <1>5, FramesReadNext DEF FrameDone
<1>7. reference' = Frames!Min(M)
  <2>1. Frames!Min(M) \in M /\ \A m \in M : Frames!Min(M) <= m
    BY <1>1, <1>3, FirstMessage
  <2>2. CASE D = {}
    <3>1. reference' = x
      BY <1>1, <1>5, <2>2 DEF FrameCount
    <3>2. Frames!Min(M) = x \/ x < Frames!Min(M)
      BY <1>6, <2>1, <2>2
    <3>3. x \in Nat /\ Frames!Min(M) \in Nat /\ Frames!Min(M) <= x
      BY <1>1, <1>4, <2>1
    <3> HIDE DEF x, M
    <3> QED
      BY <3>1, <3>2, <3>3
  <2>3. CASE D # {}
    <3>1. reference = Frames!Min(M)
      BY <1>5, <2>3 DEF FrameCount
    <3>2. reference # Frames!None
      <4>1. reference \in Nat
        BY <1>4, <2>1, <3>1
      <4> QED
        BY <4>1 DEF Frames!None
    <3> QED
      BY <1>1, <3>1, <3>2
  <2> QED
    BY <2>2, <2>3
<1>8. o \in Int /\ x \in Nat /\ Frames!Min(M) \in Nat
  <2>1. Frames!Min(M) \in M
    BY <1>1, <1>3, FirstMessage
  <2>2. x \in Nat /\ Frames!Min(M) \in Nat
    BY <1>1, <1>4, <2>1
  <2> QED
    BY <1>7, <2>2
<1>9. x \in W <=> ~(o < start) /\ ~Frames!Beyond(o)
  <2>1. o = x - Frames!Min(M)
    BY <1>7
  <2>2. x \in W <=> o >= start /\ (duration > 0 => o < start + duration)
    BY <1>1, <2>1 DEF Frames!InWindow
  <2> HIDE DEF o, W
  <2>3. (o >= start <=> ~(o < start)) /\ (o < start + duration <=> ~(o >= start + duration))
    BY <1>3, <1>8
  <2> QED
    BY <2>2, <2>3 DEF Frames!Beyond
<1>10. /\ seen = Cardinality(W \cap D) /\ Len(frames) = seen \div everyN
       /\ Ordered(frames, Picked(D)) /\ Picked(D) \in SUBSET Nat
  <2>1. Picked(D) \subseteq D
    BY DEF Picked
  <2> QED
    BY <1>4, <1>5, <1>6, <2>1 DEF FrameCount
<1>11. /\ x \notin W => W \cap (D \cup {x}) = W \cap D /\ Picked(D \cup {x}) = Picked(D)
       /\ x \in W =>
             /\ Frames!Nth(x) = n /\ Cardinality(W \cap (D \cup {x})) = n
             /\ Picked(D \cup {x}) = IF n % everyN = 0 THEN Picked(D) \cup {x} ELSE Picked(D)
  <2> HIDE DEF x, D
  <2> QED
    BY <1>1, <1>3, <1>6, <1>10, WindowGrows
<1>12. ASSUME /\ seen' = Cardinality(W \cap (D \cup {x})) /\ Len(frames') = seen' \div everyN
              /\ Ordered(frames', Picked(D \cup {x}))
       PROVE  FrameCount'
  <2>1. Frames!Min(M)' = Frames!Min(M) /\ D \cup {x} # {}
    BY <1>1, FramesFixed DEF Frames!Min
  <2>2. FrameDone' = D \cup {x}
    BY <1>6
  <2>3. W' = W /\ Picked(FrameDone)' = Picked(D \cup {x}) /\ everyN' = everyN
    BY <1>1, <2>2, FramesFixed
  <2>4. reference' = IF FrameDone' = {} THEN Frames!None ELSE Frames!Min(M)'
    BY <1>7, <2>1, <2>2
  <2>5. seen' = Cardinality(W' \cap FrameDone')
    BY <1>12, <2>2, <2>3
  <2> QED
    BY <1>12, <2>3, <2>4, <2>5 DEF FrameCount
<1>13. n \in Nat /\ (n % everyN = 0 => n \div everyN = seen \div everyN + 1)
       /\ (n % everyN # 0 => n \div everyN = seen \div everyN) /\ seen \div everyN \in Nat
  <2>1. \A a \in Nat, m \in Nat \ {0} :
            /\ (a + 1) % m = 0 => (a + 1) \div m = a \div m + 1
            /\ (a + 1) % m # 0 => (a + 1) \div m = a \div m
            /\ a \div m \in Nat
    BY NextMultiple
  <2>2. /\ n % everyN = 0 => n \div everyN = seen \div everyN + 1
        /\ n % everyN # 0 => n \div everyN = seen \div everyN
        /\ seen \div everyN \in Nat
    BY <1>3, <2>1, Zenon
  <2> QED
    BY <1>3, <2>2
<1>14. CASE o < start /\ pc' = pc /\ seen' = seen /\ frames' = frames
  <2>1. x \notin W
    BY <1>9, <1>14
  <2>2. FrameCount'
    BY <1>10, <1>11, <1>12, <1>14, <2>1
  <2> QED
    BY <1>1, <1>6, <1>14, <2>2
<1>15. CASE ~(o < start) /\ Frames!Beyond(o) /\ pc' = "done" /\ frames' = frames
  <2>1. x \notin W
    BY <1>9, <1>15
  <2>2. ASSUME NEW m \in W, m \notin D PROVE FALSE
    <3>1. m \in M /\ m \in Nat /\ duration > 0 /\ m - Frames!Min(M) < start + duration
      BY <1>4, <1>15, <2>2 DEF Frames!InWindow, Frames!Beyond
    <3>2. x < m
      BY <1>6, <2>1, <2>2, <3>1
    <3>3. x - Frames!Min(M) >= start + duration
      BY <1>7, <1>15 DEF Frames!Beyond
    <3> HIDE DEF x, M
    <3> QED
      BY <1>3, <1>8, <3>1, <3>2, <3>3
  <2>3. W \subseteq D /\ W \cap D = W
    BY <2>2
  <2>4. maxFrames > 0 => Cardinality(W) \div everyN <= maxFrames
    BY <1>1, <1>10, <2>3 DEF FrameTypes
  <2>5. Picked(D) = Frames!Asked
    BY <1>3, <2>3, <2>4, AskedOfAll
  <2> QED
    BY <1>10, <1>15, <2>5
<1>16. CASE ~(o < start) /\ ~Frames!Beyond(o) /\ n % everyN = 0 /\ x \in bad /\ pc' = "failed"
  <2>1. x \in W /\ Frames!Nth(x) = n
    BY <1>9, <1>11, <1>16
  <2>2. maxFrames > 0 => n \div everyN <= maxFrames
    <3>1. maxFrames > 0 => Len(frames) < maxFrames
      BY <1>1 DEF FrameTypes
    <3> HIDE DEF n
    <3> QED
      BY <1>3, <1>10, <1>13, <1>16, <3>1
  <2>3. x \in Frames!Asked
    BY <1>16, <2>1, <2>2 DEF Frames!Asked
  <2> QED
    BY <1>16, <2>3
<1>17. CASE /\ ~(o < start) /\ ~Frames!Beyond(o) /\ n % everyN # 0 /\ seen' = n
            /\ pc' = pc /\ frames' = frames
  <2>1. x \in W
    BY <1>9, <1>17
  <2>2. FrameCount'
    BY <1>10, <1>11, <1>12, <1>13, <1>17, <2>1
  <2> QED
    BY <1>1, <1>6, <1>17, <2>2
<1>18. CASE /\ ~(o < start) /\ ~Frames!Beyond(o) /\ n % everyN = 0 /\ seen' = n
            /\ frames' = Append(frames, x)
            /\ pc' = IF maxFrames > 0 /\ Len(frames') >= maxFrames THEN "done" ELSE pc
  <2>1. x \in W
    BY <1>9, <1>18
  <2>2. Ordered(frames', Picked(D \cup {x}))
    <3>1. \A y \in Picked(D) : y < x
      BY <1>6 DEF Picked
    <3>2. Ordered(Append(frames, x), Picked(D) \cup {x})
      BY <1>8, <1>10, <3>1, OrderedAppend
    <3> QED
      BY <1>11, <1>18, <2>1, <3>2
  <2>3. Len(frames') = n \div everyN
    <3>1. Len(frames') = Len(frames) + 1
      <4>1. frames \in Seq(M)
        BY <1>1 DEF FrameTypes
      <4> HIDE DEF x, M
      <4> QED
        BY <1>18, <4>1
    <3> QED
      BY <1>10, <1>13, <1>18, <3>1
  <2>4. FrameCount'
    BY <1>11, <1>12, <1>18, <2>1, <2>2, <2>3
  <2>5. ASSUME pc' = "done" PROVE Ordered(frames', Frames!Asked)
    <3>1. maxFrames > 0 /\ Len(frames') >= maxFrames /\ Len(frames') <= maxFrames
      BY <1>1, <1>2, <1>18, <2>5, FramesFixed DEF FrameTypes
    <3>2. maxFrames \in Nat \ {0} /\ Frames!Nth(x) \div everyN = maxFrames
          /\ Frames!Nth(x) % everyN = 0
      <4>1. n \div everyN \in Nat /\ Frames!Nth(x) = n
        BY <1>11, <1>13, <1>18, <2>1
      <4>2. n \div everyN = maxFrames
        BY <1>3, <2>3, <3>1, <4>1
      <4> QED
        BY <1>3, <1>18, <3>1, <4>1, <4>2
    <3>3. D \cup {x} \in SUBSET M /\ (\A y \in D \cup {x} : y <= x)
          /\ \A y \in M : y \in D \cup {x} \/ x < y
      <4>1. \A y \in D : y \in Nat /\ y < x
        BY <1>4, <1>6
      <4>2. \A y \in D \cup {x} : y <= x
        BY <1>8, <4>1
      <4> QED
        BY <1>1, <1>6, <4>2
    <3>4. Picked(D \cup {x}) = Frames!Asked
      <4> HIDE DEF x, D
      <4> QED
        BY <1>3, <2>1, <3>2, <3>3, AskedAtLimit
    <3> QED
      BY <2>2, <3>4
  <2>6. pc' # "failed"
    BY <1>1, <1>18
  <2> QED
    BY <1>6, <2>4, <2>5, <2>6
<1> QED
  BY <1>1, <1>14, <1>15, <1>16, <1>17, <1>18, ReadCases

\* Every step of the script keeps it.
LEMMA FramesSteps == FrameInv /\ Frames!Next => FrameInv'
BY FramesPreview, FramesOpen, FramesRead, FramesEnd DEF Frames!Next

\* The smaller of two numbers.
LEMMA FramesMin ==
    ASSUME NEW a \in Nat, NEW b \in Nat
    PROVE  Frames!Min({a, b}) = IF a <= b THEN a ELSE b
<1> DEFINE m == IF a <= b THEN a ELSE b
           S == {a, b}
<1>1. m \in S /\ \A y \in S : m <= y
  OBVIOUS
<1>2. \A x \in S : (\A y \in S : x <= y) => x = m
  OBVIOUS
<1> HIDE DEF m, S
<1>3. Frames!Min(S) = m
  BY <1>1, <1>2, Zenon DEF Frames!Min
<1> QED
  BY <1>3 DEF m, S

\* All of the bag is exported: every n-th message of the reader, which is what
\* the frame rate is estimated from.
LEMMA FramesRated ==
    ASSUME bag \in Recordings, sqlite \in BOOLEAN, sqlite => Frames!NamedInOrder,
           everyN \in Nat \ {0}, start = 0, duration = 0, maxFrames = 0,
           Ordered(frames, Frames!Asked)
    PROVE  Frames!Sampled(Frames!InReadingOrder) =
               SubSeq(frames, 1, Frames!Min({Len(frames), SampleSize}))
<1> DEFINE M == Frames!Messages
           R == Frames!InReadingOrder
           k == Len(R) \div everyN
           G == [i \in 1..k |-> R[i * everyN]]
<1>1. Ordered(R, M) /\ M \in SUBSET Nat
  BY ReadingOrder, FrameMessages
<1>2. Frames!InWindow = M
  <2>1. ASSUME NEW m \in M PROVE m - Frames!Min(M) >= start
    <3>1. Frames!Min(M) \in M /\ Frames!Min(M) <= m
      BY FirstMessage
    <3>2. m \in Nat /\ Frames!Min(M) \in Nat
      BY <1>1, <3>1
    <3> HIDE DEF M
    <3> QED
      BY <3>1, <3>2
  <2> HIDE DEF M
  <2> QED
    BY <2>1 DEF Frames!InWindow, M
<1>3. Frames!Asked = {m \in M : Frames!Nth(m) % everyN = 0} /\ Frames!Asked \in SUBSET Nat
  <2>1. ~(maxFrames > 0)
    OBVIOUS
  <2>2. Frames!Asked = {m \in M : Frames!Nth(m) % everyN = 0}
    BY <1>2, <2>1, Zenon DEF Frames!Asked
  <2> QED
    BY <1>1, <2>2
<1>4. \A m \in M : Frames!Nth(m) = Cardinality({l \in M : l <= m})
  BY <1>2, WindowFacts
<1> HIDE DEF M, R
<1>5. Len(R) \in Nat /\ \A j \in 1..Len(R) : R[j] \in M
  BY <1>1, OrderedSeq
<1>6. \A j \in 1..Len(R) : Frames!Nth(R[j]) = j
  <2>1. \A j \in 1..Len(R) : Cardinality({l \in M : l <= R[j]}) = j
    <3>1. \A j \in 1..Len(R) : /\ {l \in M : l <= R[j]} = {R[i] : i \in 1..j}
                               /\ Cardinality({l \in M : l <= R[j]}) = j
      BY <1>1, OrderedRank, Zenon
    <3> QED
      BY <3>1, Zenon
  <2> QED
    BY <1>4, <1>5, <2>1
<1>7. k \in Nat /\ \A i \in 1..k : i * everyN \in 1..Len(R) /\ (i * everyN) % everyN = 0
  <2>1. k \in Int /\ Len(R) % everyN \in 0..everyN - 1 /\ Len(R) = everyN * k + (Len(R) % everyN)
    BY <1>5, DivMod
  <2> HIDE DEF k
  <2>2. k \in Nat
    <3>1. k <= -1 => everyN * k <= -everyN
      BY <2>1, Multiples
    <3>2. everyN * k \in Int
      BY <2>1
    <3> QED
      BY <1>5, <2>1, <3>1, <3>2
  <2>3. ASSUME NEW i \in 1..k PROVE i * everyN \in 1..Len(R) /\ (i * everyN) % everyN = 0
    <3>1. i \in Int /\ i >= 1 /\ k - i \in Int /\ k - i >= 0
      BY <2>2
    <3>2. everyN * i >= everyN
      BY <3>1, Multiples
    <3>3. everyN * (k - i) >= 0
      <4>1. k - i >= 1 => everyN * (k - i) >= everyN
        BY <3>1, Multiples
      <4>2. k - i = 0 => everyN * (k - i) = 0
        OBVIOUS
      <4> QED
        BY <3>1, <4>1, <4>2
    <3>4. everyN * (k - i) = everyN * k - everyN * i /\ everyN * i = i * everyN
      BY <3>1, <2>2
    <3>5. everyN * k \in Int /\ everyN * i \in Int /\ i * everyN \in Int
      BY <2>2, <3>1
    <3>6. i * everyN \in 1..Len(R)
      BY <1>5, <2>1, <3>2, <3>3, <3>4, <3>5
    <3>7. i * everyN = everyN * i + 0 /\ 0 \in 0..everyN - 1
      BY <3>4, <3>5
    <3>8. (i * everyN) % everyN = 0
      BY <3>1, <3>5, <3>7, DivModUnique
    <3> QED
      BY <3>6, <3>8
  <2> QED
    BY <2>2, <2>3
<1>8. \A i, j \in 1..k : i < j => i * everyN < j * everyN
  <2> SUFFICES ASSUME NEW i \in 1..k, NEW j \in 1..k, i < j PROVE i * everyN < j * everyN
    OBVIOUS
  <2>1. j - i \in Int /\ j - i >= 1
    BY <1>7
  <2>2. everyN * (j - i) >= everyN
    BY <2>1, Multiples
  <2>3. everyN * (j - i) = j * everyN - i * everyN /\ i * everyN \in Int /\ j * everyN \in Int
    BY <1>7
  <2> QED
    BY <2>2, <2>3
<1>9. \A q \in Int : q * everyN \in 1..Len(R) => q \in 1..k
  <2> SUFFICES ASSUME NEW q \in Int, q * everyN \in 1..Len(R) PROVE q \in 1..k
    OBVIOUS
  <2> DEFINE a == q * everyN
  <2>1. a \in Nat /\ a >= 1 /\ a <= Len(R) /\ a = everyN * q + 0 /\ a = everyN * q
    BY <1>5
  <2>2. q <= -1 => everyN * q <= -everyN
    BY Multiples
  <2>3. q >= 1
    <3>1. q = 0 => a = 0
      OBVIOUS
    <3>2. q <= -1 => a <= -1
      <4> HIDE DEF a
      <4> QED
        BY <2>1, <2>2
    <3> QED
      BY <2>1, <3>1, <3>2
  <2> HIDE DEF a, k
  <2>4. a \div everyN = q
    BY <2>1, DivModUnique
  <2>5. a \div everyN <= Len(R) \div everyN
    BY <1>5, <2>1, QuotientGrows
  <2> QED
    BY <1>7, <2>3, <2>4, <2>5 DEF k
<1>10. /\ Len(G) = k /\ DOMAIN G = 1..k /\ \A i \in 1..k : G[i] = R[i * everyN]
       /\ G \in Seq(Frames!Asked)
  <2>1. \A i \in 1..k : R[i * everyN] \in Frames!Asked
    <3> TAKE i \in 1..k
    <3> DEFINE j == i * everyN
    <3>1. j \in 1..Len(R) /\ j % everyN = 0
      BY <1>7
    <3> HIDE DEF j
    <3>2. R[j] \in M /\ Frames!Nth(R[j]) % everyN = 0
      BY <1>5, <1>6, <3>1
    <3> QED
      BY <1>3, <3>2 DEF j
  <2> HIDE DEF k
  <2> QED
    BY <1>7, <2>1
<1> HIDE DEF G
<1>11. \A x \in Frames!Asked : \E i \in 1..k : G[i] = x
  <2> TAKE x \in Frames!Asked
  <2>1. x \in M /\ Frames!Nth(x) % everyN = 0
    BY <1>3
  <2>2. PICK j \in 1..Len(R) : R[j] = x
    BY <1>1, <2>1 DEF Ordered
  <2>3. j % everyN = 0 /\ j \in Int
    BY <1>6, <2>1, <2>2
  <2>4. j \div everyN \in Int /\ j = everyN * (j \div everyN) + (j % everyN)
    BY <2>3, DivMod
  <2> DEFINE q == j \div everyN
  <2>5. q \in Int /\ q * everyN = j
    BY <2>3, <2>4
  <2> HIDE DEF q, k
  <2>6. q \in 1..k
    BY <1>9, <2>5
  <2> QED
    BY <1>10, <2>2, <2>5, <2>6
<1>12. \A i, j \in 1..k : i < j => G[i] < G[j]
  <2> SUFFICES ASSUME NEW i \in 1..k, NEW j \in 1..k, i < j PROVE G[i] < G[j]
    OBVIOUS
  <2>1. i * everyN \in 1..Len(R) /\ j * everyN \in 1..Len(R) /\ i * everyN < j * everyN
    BY <1>7, <1>8
  <2>2. \A a, b \in 1..Len(R) : a < b => R[a] < R[b]
    BY <1>1 DEF Ordered
  <2>3. R[i * everyN] < R[j * everyN]
    BY <2>1, <2>2, Zenon
  <2> QED
    BY <1>10, <2>3
<1>13. frames = G
  <2>1. Ordered(G, Frames!Asked)
    BY <1>10, <1>11, <1>12 DEF Ordered
  <2> QED
    BY <1>3, <2>1, OrderedUnique
<1> DEFINE l == Frames!Min({k, SampleSize})
<1>14. l \in Nat /\ l <= k
  <2>1. k \in Nat /\ SampleSize \in Nat
    BY <1>7, FrameFacts
  <2>2. l = IF k <= SampleSize THEN k ELSE SampleSize
    BY <2>1, FramesMin
  <2> HIDE DEF l, k
  <2> QED
    BY <2>1, <2>2
<1>15. Frames!Sampled(R) = [i \in 1..l |-> R[i * everyN]]
  BY DEF Frames!Sampled
<1> HIDE DEF l, k
<1>16. SubSeq(G, 1, l) = [i \in 1..l |-> G[i]]
  BY <1>7, <1>10, <1>14
<1>17. \A i \in 1..l : G[i] = R[i * everyN]
  BY <1>7, <1>10, <1>14
<1> QED
  BY <1>10, <1>13, <1>15, <1>16, <1>17 DEF l, R

\* What a video promises follows.
LEMMA FramesPromise ==
    FrameInv => /\ Frames!TypeOK
                /\ (sqlite => Frames!NamedInOrder) => /\ Frames!FramesExact
                                                      /\ Frames!FailsOnlyOnNeeded
                                                      /\ Frames!RateIsOfFrames
<1> SUFFICES ASSUME FrameInv
             PROVE  /\ Frames!TypeOK
                    /\ (sqlite => Frames!NamedInOrder) => /\ Frames!FramesExact
                                                          /\ Frames!FailsOnlyOnNeeded
                                                          /\ Frames!RateIsOfFrames
  OBVIOUS
<1>1. FrameTypes
  BY DEF FrameInv
<1>2. Frames!TypeOK
  <2>1. queue \in Seq(Frames!Messages) /\ frames \in Seq(Frames!Messages)
    BY <1>1 DEF FrameTypes
  <2>2. Frames!Range(queue) \cup Frames!Range(frames) \subseteq Frames!Messages
    BY <2>1 DEF Frames!Range
  <2> QED
    BY <1>1, <2>2 DEF FrameTypes, Frames!TypeOK
<1>3. bag \in Recordings /\ sqlite \in BOOLEAN /\ everyN \in Nat \ {0}
  BY <1>1, FrameFacts DEF FrameTypes
<1>4. ASSUME sqlite => Frames!NamedInOrder, pc = "done"
      PROVE  Ordered(frames, Frames!Asked)
  BY <1>4 DEF FrameInv
<1>5. Frames!Asked \in SUBSET Nat /\ IsFiniteSet(Frames!Asked)
  <2>1. Frames!Asked \in SUBSET Frames!InWindow
    BY DEF Frames!Asked
  <2>2. Frames!InWindow \in SUBSET Nat /\ IsFiniteSet(Frames!InWindow)
    BY <1>3, WindowFacts, FrameMessages
  <2> QED
    BY <2>1, <2>2, FS_Subset
<1>6. ASSUME sqlite => Frames!NamedInOrder PROVE Frames!FramesExact
  <2>1. Ordered(Frames!Cursor(Frames!Asked), Frames!Asked)
    BY <1>5, CursorOrdered
  <2>2. pc = "done" => frames = Frames!Cursor(Frames!Asked)
    BY <1>4, <1>5, <1>6, <2>1, OrderedUnique
  <2> QED
    BY <2>2 DEF Frames!FramesExact
<1>7. ASSUME sqlite => Frames!NamedInOrder PROVE Frames!FailsOnlyOnNeeded
  BY <1>7 DEF FrameInv, Frames!FailsOnlyOnNeeded
<1>8. ASSUME sqlite => Frames!NamedInOrder PROVE Frames!RateIsOfFrames
  BY <1>3, <1>4, <1>8, FramesRated DEF Frames!RateIsOfFrames
<1> QED
  BY <1>2, <1>6, <1>7, <1>8

\* A step of another kind leaves all of it alone.
LEMMA FramesStay ==
    ASSUME FrameInv, UNCHANGED Frames!vars
    PROVE  FrameInv'
<1>1. /\ UNCHANGED Frames!input /\ pc' = pc /\ files' = files /\ queue' = queue
      /\ reference' = reference /\ seen' = seen /\ frames' = frames
  BY DEF Frames!vars
<1>2. FrameRest' = FrameRest /\ FrameDone' = FrameDone
  BY <1>1, FramesFixed DEF FrameRest, FrameDone
<1>3. Frames!Min(Frames!Messages)' = Frames!Min(Frames!Messages)
  BY <1>1, FramesFixed DEF Frames!Min
<1>4. FrameTypes => FrameTypes'
  BY <1>1, FramesFixed DEF FrameTypes
<1>5. FrameOrder => FrameOrder'
  BY <1>1, <1>2 DEF FrameOrder
<1>6. FrameCount => FrameCount'
  BY <1>1, <1>2, <1>3, FramesFixed DEF FrameCount
<1> QED
  BY <1>1, <1>3, <1>4, <1>5, <1>6, FramesFixed DEF FrameInv

----------------------------------------------------------------------------
\* The scripts together

ScriptsInv ==
    /\ script = "pose" => PoseInv /\ PoseRows
    /\ script = "topics" => TopicsInv
    /\ script = "frames" => FrameInv
    /\ script = "grid" => GridInv
    /\ script = "batch" => BatchInv

\* The invariant of the script that runs holds at the start.
LEMMA ScriptsStart == Init => ScriptsInv
<1>1. PoseInit => PoseRows
  BY DEF PoseInit, Pose!Init, PoseRows, Writing
<1> QED
  BY <1>1, PoseStarts, TopicsStarts, FramesStarts, GridStarts, BatchStarts
     DEF Init, ScriptsInv, PoseInit, TopicsInit, FramesInit, GridInit, BatchInit

\* A step that changes nothing keeps it,
LEMMA ScriptsStay == ScriptsInv /\ UNCHANGED vars => ScriptsInv'
<1> SUFFICES ASSUME ScriptsInv, UNCHANGED vars PROVE ScriptsInv'
  OBVIOUS
<1> USE DEF vars, poseVars, topicVars, frameVars, gridVars, batchVars
<1>1. ASSUME PoseInv PROVE PoseInv'
  <2>1. PoseTypes' /\ PoseOrder'
    BY <1>1 DEF PoseInv, PoseTypes, PoseOrder
  <2>2. Final("csv")' = Final("csv") /\ Final("metadata")' = Final("metadata")
    BY DEF Final
  <2>3. PosePair' /\ PoseFree'
    BY <1>1, <2>2 DEF PoseInv, PosePair, PoseFree
  <2> QED
    BY <2>1, <2>3 DEF PoseInv
<1>2. ASSUME TopicsInv PROVE TopicsInv'
  BY <1>2 DEF TopicsInv, TopicsTypes, TopicsWork, TopicsOutput, Topics!Csv
<1>3. ASSUME BatchInv PROVE BatchInv'
  <2>1. \A r : /\ Batch!RowsOf(r)' = Batch!RowsOf(r) /\ Batch!Out(r)' = Batch!Out(r)
               /\ Batch!Own(r)' = Batch!Own(r) /\ Busy(r)' = Busy(r)
    BY DEF Batch!RowsOf, Batch!Out, Batch!Own, Busy
  <2>2. BatchTypes' /\ BatchAlone' /\ BatchPlan' /\ BatchRows'
    BY <1>3, <2>1 DEF BatchInv, BatchTypes, BatchAlone, BatchPlan, BatchRows
  <2>3. BatchChild' /\ BatchStaged'
    BY <1>3, <2>1 DEF BatchInv, BatchChild, BatchStaged
  <2>4. BatchFinal' /\ BatchManifest' /\ BatchFree'
    BY <1>3, <2>1 DEF BatchInv, BatchFinal, BatchManifest, BatchFree
  <2> QED
    BY <2>2, <2>3, <2>4 DEF BatchInv
<1>4. ASSUME GridInv PROVE GridInv'
  <2>1. Grid!Examined(Len(read))' = Grid!Examined(Len(read)) /\ GoodFrames' = GoodFrames
    BY DEF Grid!Examined, Grid!Good, Grid!Nearest, GoodFrames
  <2>2. \A K : KeptBy(K)' <=> KeptBy(K)
    BY <2>1 DEF KeptBy
  <2>3. GridTypes' /\ GridKept' /\ GridCount'
    BY <1>4, <2>1, <2>2 DEF GridInv, GridTypes, GridKept, GridCount
  <2>4. GridPreviews' /\ GridImage'
    BY <1>4 DEF GridInv, GridPreviews, GridImage, Grid!TooDense
  <2> QED
    BY <2>3, <2>4 DEF GridInv
<1>5. ASSUME PoseRows PROVE PoseRows'
  BY <1>5 DEF PoseRows, Pose!Extracted
<1>6. ASSUME FrameInv PROVE FrameInv'
  <2>1. UNCHANGED Frames!vars
    BY DEF Frames!vars, Frames!input
  <2> QED
    BY <1>6, <2>1, FramesStay
<1> QED
  BY <1>1, <1>2, <1>3, <1>4, <1>5, <1>6 DEF ScriptsInv

\* as does every step of the script.
LEMMA ScriptsStep == ScriptsInv /\ [Next]_vars => ScriptsInv'
<1>1. ASSUME ScriptsInv, Next PROVE ScriptsInv'
  BY <1>1, PoseLawful, PoseRowsStay, TopicsSteps, FramesSteps, GridSteps, BatchSteps
     DEF ScriptsInv, Next, PoseNext, TopicsNext, FramesNext, GridNext, BatchNext
<1> QED
  BY <1>1, ScriptsStay

\* The invariant of the script that runs holds in every state of it.
THEOREM ScriptsInvariant == Spec => []ScriptsInv
BY ScriptsStart, ScriptsStep, PTL DEF Spec

\* extract-pose-trajectory.py, whatever stopped where: the samples are those of
\* the window, no file under a final name is torn, and the CSV and its
\* description are of one run, or the newer CSV is of a run that was stopped
\* between the two replacements.
THEOREM PosesAlwaysTruthful == Spec => []PosesTruthful
<1>1. ScriptsInv => PosesTruthful
  BY PosePromise, PoseWindow DEF ScriptsInv, PosesTruthful
<1> QED
  BY <1>1, ScriptsInvariant, PTL

\* livox-bag-to-occupancy-grid.py, of any recording: the frames used are those
\* near enough to a pose, the grid is the union of what they hit, the previews
\* grow towards it, and every cell has its pixel.
THEOREM GridAlwaysTruthful == Spec => []GridTruthful
<1>1. ScriptsInv => GridTruthful
  BY GridPromise DEF ScriptsInv, GridTruthful
<1> QED
  BY <1>1, ScriptsInvariant, PTL

\* bag-images-to-video.py, of any recording in any number of files that are
\* named in the order of recording: the frames are those that window, stride
\* and limit ask for, none twice, in order, an export fails only on a message it
\* needs, and the frame rate is estimated from the frames it exports.
THEOREM FramesAlwaysTruthful == Spec => []FramesTruthful
<1>1. ScriptsInv => FramesTruthful
  BY FramesPromise DEF ScriptsInv, FramesTruthful
<1> QED
  BY <1>1, ScriptsInvariant, PTL

\* inspect-bag-topics.py: the CSV under its final name is whole, and the exit
\* code tells whether it describes all the bags.
THEOREM InspectionAlwaysTruthful == Spec => []InspectionTruthful
<1>1. ScriptsInv => InspectionTruthful
  BY TopicsPromise DEF ScriptsInv, InspectionTruthful
<1> QED
  BY <1>1, ScriptsInvariant, PTL

\* bag-images-to-video.py, of any number of batches that do not overlap, killed
\* anywhere: videos are whole under their final names, an ended batch leaves
\* nothing torn under the staging names, and the manifest says of each job
\* whether it made the video.
THEOREM VideosAlwaysTruthful == Spec => []VideosTruthful
<1>1. ScriptsInv => VideosTruthful
  BY BatchPromise DEF ScriptsInv, VideosTruthful
<1> QED
  BY <1>1, ScriptsInvariant, PTL

\* Both scripts: what an earlier run has left under a final name is replaced
\* only by a run with --overwrite, which was checked long before.
THEOREM OverwriteAlwaysRespected == Spec => OverwriteRespected
<1> DEFINE Lawful == /\ script = "pose" => Pose!ReplacesLawfully
                     /\ script = "batch" => Batch!ReplacesLawfully
<1>1. ASSUME ScriptsInv, Next PROVE Lawful
  <2>1. CASE PoseNext
    BY <1>1, <2>1, PoseLawful DEF ScriptsInv, PoseNext
  <2>2. CASE BatchNext
    BY <1>1, <2>2, BatchReplaces DEF ScriptsInv, BatchNext
  <2>3. CASE TopicsNext \/ FramesNext \/ GridNext
    BY <2>3 DEF TopicsNext, FramesNext, GridNext
  <2> QED
    BY <1>1, <2>1, <2>2, <2>3 DEF Next
<1>2. ScriptsInv /\ [Next]_vars => [Lawful]_vars
  BY <1>1
<1> QED
  BY <1>2, ScriptsInvariant, PTL DEF Spec, OverwriteRespected
=============================================================================

---------------------------- MODULE PoseLookup ----------------------------
(* Which pose a lidar frame is placed by, in                                *)
(* scripts/livox-bag-to-occupancy-grid.py: stamps is the sequence of pose   *)
(* stamps, in ascending order, and v the stamp of the frame.                *)
EXTENDS Integers, Sequences

Ascending(stamps) ==
    /\ stamps \in Seq(Int) /\ stamps # <<>>
    /\ \A i, j \in DOMAIN stamps : i <= j => stamps[i] <= stamps[j]

Distance(a, b) == IF a <= b THEN b - a ELSE a - b

\* numpy.searchsorted: the insertion point before equal stamps, from 1.
SearchSorted(stamps, v) ==
    CHOOSE i \in 1..Len(stamps) + 1 :
        /\ \A j \in 1..i - 1 : stamps[j] < v
        /\ i <= Len(stamps) => stamps[i] >= v

\* Mutant: the pose at or after the frame.
NearestPoseIndexAfter(stamps, v) ==
    LET i == SearchSorted(stamps, v) IN IF i > Len(stamps) THEN Len(stamps) ELSE i

NearestPoseIndex(stamps, v) ==
    LET i == SearchSorted(stamps, v)
    IN  IF i = 1 THEN 1
        ELSE IF i > Len(stamps) THEN Len(stamps)
        ELSE IF v - stamps[i - 1] <= stamps[i] - v THEN i - 1 ELSE i

Inside(stamps, v) == stamps[1] < v /\ v < stamps[Len(stamps)]

\* interpolate_pose: the poses it interpolates between, the same one twice at
\* or beyond the ends.
Left(stamps, v) ==
    IF Inside(stamps, v) THEN SearchSorted(stamps, v) - 1
    ELSE IF v <= stamps[1] THEN 1 ELSE Len(stamps)

Right(stamps, v) ==
    IF Inside(stamps, v) THEN SearchSorted(stamps, v) ELSE Left(stamps, v)

\* ... and the distance it returns, to the nearest pose.
PoseDelta(stamps, v) ==
    Distance(v, stamps[IF Inside(stamps, v) THEN NearestPoseIndex(stamps, v)
                       ELSE Left(stamps, v)])
=============================================================================

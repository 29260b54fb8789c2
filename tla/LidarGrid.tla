----------------------------- MODULE LidarGrid ----------------------------
(* scripts/livox-bag-to-occupancy-grid.py, what fills the staging directory *)
(* of GridCommit: process_bag reads the lidar frames in the order of the    *)
(* recording, places some of them by the nearest poses, marks the cells     *)
(* they hit and writes preview images on the way; render_grid draws the     *)
(* final image, unless it would be too large.  Which cells the points of a  *)
(* frame fall into (projection, range and height masks) is its `cells`.     *)
EXTENDS PoseLookup, FiniteSets, FiniteSetsExt, SequencesExt

CONSTANTS Poses,       \* the pose sequences, as ascending stamps
          Stamps,      \* stamps of lidar frames
          CellSets,    \* what a frame may hit, {} if no point survives
          Strides,     \* values of --every-n-lidar, all of them positive
          Limits,      \* values of --max-lidar-frames, 0 for none
          Previews,    \* values of --frame-stride, 0 for none
          MaxPoseDelta,       \* --max-pose-delta-ms
          MaxCells, MaxSide,  \* --max-grid-cells, --max-grid-side
          MaxMessages  \* bound: lidar frames in the bag

\* What the arguments and the bounds must satisfy.
GridAssumption ==
    /\ \A p \in Poses : Ascending(p)
    /\ Stamps \subseteq Int
    /\ \A set \in CellSets : set \subseteq Int \X Int /\ IsFiniteSet(set)
    /\ Strides \subseteq Nat \ {0} /\ Limits \cup Previews \subseteq Nat
    /\ {MaxPoseDelta, MaxCells, MaxSide, MaxMessages} \subseteq Nat

VARIABLES
    poses, everyN, maxFrames, stride,  \* the bag's poses and the arguments
    pc,
    read,      \* the lidar frames read from the bag (seen_lidar_frames)
    used, skipped, cells, worst, last,   \* the locals of process_bag
    previews,  \* the preview images: their number -> the cells drawn
    image      \* the final image: its black pixels, width and height

arguments == <<poses, everyN, maxFrames, stride>>
result == <<used, skipped, cells, worst, last>>
vars == <<arguments, pc, read, result, previews, image>>

NoImage == [width |-> 0, height |-> 0, black |-> {}]

Init ==
    /\ poses \in Poses /\ everyN \in Strides
    /\ maxFrames \in Limits /\ stride \in Previews
    /\ pc = "read" /\ read = <<>>
    /\ used = 0 /\ skipped = 0 /\ cells = {} /\ worst = 0 /\ last = <<>>
    /\ previews = <<>> /\ image = NoImage

----------------------------------------------------------------------------
\* render_grid

Xs(set) == {c[1] : c \in set}
Ys(set) == {c[2] : c \in set}
Extent(set) == Max(set) - Min(set) + 1

\* The grid is refused before it is allocated.
TooDense(set) ==
    /\ set # {}
    /\ \/ Extent(Xs(set)) > MaxSide \/ Extent(Ys(set)) > MaxSide
       \/ Extent(Xs(set)) * Extent(Ys(set)) > MaxCells

\* The row and column of a cell: north is up.
Pixel(set, c) == <<Max(Ys(set)) - c[2], c[1] - Min(Xs(set))>>

Rendered(set) ==
    IF set = {} THEN [NoImage EXCEPT !.width = 1, !.height = 1]
    ELSE [width |-> Extent(Xs(set)), height |-> Extent(Ys(set)),
          black |-> {Pixel(set, c) : c \in set}]

----------------------------------------------------------------------------
\* process_bag

\* (seen_lidar_frames - 1) % every_n_lidar = 0
Picked(n) == (n - 1) % everyN = 0

Full == maxFrames > 0 /\ used >= maxFrames

\* Near enough to a pose, and with a point left after the masks.
Counted(frame) == PoseDelta(poses, frame.stamp) <= MaxPoseDelta /\ frame.cells # {}

\* Mutant: the stride counts the frames that were read.
PreviewDueRead == stride > 0 /\ Len(read') % stride = 0

\* used_lidar_frames % frame_stride = 0, after the frame was counted.
PreviewDue == stride > 0 /\ used' % stride = 0

\* The next frame: passed over, the end of the loop, skipped, or used; then a
\* preview may be due, and may be refused, which ends the run.
ReadFrame ==
    /\ pc = "read" /\ Len(read) < MaxMessages
    /\ \E frame \in [stamp : Stamps, cells : CellSets] :
          /\ read' = Append(read, frame)
          /\ IF ~Picked(Len(read')) THEN UNCHANGED <<pc, result, previews>>
             ELSE IF Full THEN pc' = "render" /\ UNCHANGED <<result, previews>>
             ELSE /\ worst' = Max({worst, PoseDelta(poses, frame.stamp)})
                  /\ IF ~Counted(frame)
                     THEN /\ skipped' = skipped + 1
                          /\ UNCHANGED <<pc, used, cells, last, previews>>
                     ELSE /\ cells' = cells \cup frame.cells
                          /\ used' = used + 1
                          /\ last' = <<IF used = 0 THEN frame.stamp ELSE last[1],
                                       frame.stamp>>
                          /\ IF PreviewDue /\ TooDense(cells')
                             THEN pc' = "refused" /\ UNCHANGED previews
                             ELSE /\ previews' = IF PreviewDue
                                        THEN Append(previews, <<used', cells'>>)
                                        ELSE previews
                                  /\ UNCHANGED pc
                          /\ UNCHANGED skipped
    /\ UNCHANGED <<arguments, image>>

EndOfBag ==
    /\ pc = "read" /\ pc' = "render"
    /\ UNCHANGED <<arguments, read, result, previews, image>>

\* render_grid of the whole, or its ValueError: the run fails, and its staging
\* directory stays behind.
Render ==
    /\ pc = "render"
    /\ IF TooDense(cells) THEN pc' = "refused" /\ UNCHANGED image
       ELSE pc' = "rendered" /\ image' = Rendered(cells)
    /\ UNCHANGED <<arguments, read, result, previews>>

Next == ReadFrame \/ EndOfBag \/ Render

Spec == Init /\ [][Next]_vars

----------------------------------------------------------------------------
\* Properties

Nearest(frame) == Min({Distance(frame.stamp, poses[i]) : i \in DOMAIN poses})
Examined(n) == {i \in 1..n : i % everyN = 1 % everyN}
Good(i) == Nearest(read[i]) <= MaxPoseDelta /\ read[i].cells # {}

\* Every variable stays in its range, and the image within the limits.
TypeOK ==
    /\ pc \in {"read", "render", "rendered", "refused"}
    /\ {used, skipped, worst} \subseteq Nat /\ Len(read) <= MaxMessages
    /\ maxFrames > 0 => used <= maxFrames
    /\ image.width * image.height <= Max({MaxCells, 1})
    /\ \A p \in ToSet(previews) : ~TooDense(p[2])

\* The counters account for every frame that was looked at, up to the one at
\* which the limit ended the loop; a frame is used if and only if a point is
\* left of it and some pose of the bag is near enough, by definition and not
\* by binary search.
FramesAccountedFor ==
    LET examined == Examined(Len(read))
        good == {i \in examined : Good(i)}
        ended == maxFrames > 0 /\ Cardinality(good) > maxFrames
    IN  /\ used + skipped <= Cardinality(examined)
        /\ ~ended => used = Cardinality(good)
        /\ pc = "read" => used + skipped = Cardinality(examined)

\* The grid is the union of what the used frames hit: a frame far from every
\* pose, or behind the limit, has no part in it.  first and last stamps are
\* those of the first and last used frame, in the order of the recording.
GridIsUnionOfUsed ==
    LET good == {i \in Examined(Len(read)) : Good(i)}
        counted == {i \in good : Cardinality({j \in good : j <= i}) <= used}
    IN  /\ cells = UNION {read[i].cells : i \in counted}
        /\ used > 0 => last = <<read[Min(counted)].stamp, read[Max(counted)].stamp>>

\* The previews are numbered by the used frames they show, one for each
\* multiple of the stride, each contained in the next and in the final grid.
PreviewsGrow ==
    /\ pc # "refused" => Len(previews) = IF stride = 0 THEN 0 ELSE used \div stride
    /\ \A k \in DOMAIN previews :
          /\ previews[k][1] = k * stride
          /\ previews[k][2] \subseteq cells
          /\ k > 1 => previews[k - 1][2] \subseteq previews[k][2]

\* The final image shows exactly the cells: pixel (row, col) stands for one
\* cell, larger y above smaller y and larger x right of smaller x.
ImageShowsCells ==
    pc = "rendered" =>
        /\ Cardinality(image.black) = Cardinality(cells)
        /\ image.black \subseteq (0..image.height - 1) \X (0..image.width - 1)
        /\ \A c, d \in cells :
              LET p == Pixel(cells, c)
                  q == Pixel(cells, d)
              IN  /\ {p, q} \subseteq image.black
                  /\ c[2] - d[2] = q[1] - p[1] /\ c[1] - d[1] = p[2] - q[2]
=============================================================================

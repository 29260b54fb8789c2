--------------------------- MODULE MCDataScripts --------------------------
(* The data scripts on small recordings.                                    *)
EXTENDS DataScripts

\* Two exports over every bag of up to three messages recorded at 1, 2, 3,
\* whose header stamps are unset, in order or out of order.
MCTrajectories ==
    UNION {{[i \in 1..n |-> [header |-> h[i], bag |-> i]] :
               h \in [1..n -> {0, 1, 3}]} : n \in 1..3}

\* Recordings of up to five frames in one to three files, once not named in the
\* order of recording.
MCRecordings ==
    {<<{}, {}>>, <<{3, 4, 6, 7, 9}>>, <<{3, 4}, {}, {6, 7, 9}>>, <<{}, {3}, {5, 6, 8}>>,
     <<{3, 4}, {8}, {6}>>}

\* Pose stamps with a gap and with a repeated stamp, frames before, between
\* and after them, at equal and unequal distances.
MCPoseStamps == {<<3>>, <<2, 2, 6>>, <<1, 4, 5>>}

\* The second and third set of cells together exceed only the limit of cells,
\* the third and the fourth only the limit of a side.
MCCellSets == {{}, {<<0, 0>>, <<1, -1>>}, {<<0, 1>>}, {<<3, 1>>}}

\* Two batches and three bags, two of which map to the same video: a batch
\* that collides, one of two jobs, and one of the colliding bag alone.
MCVideoBatches == {{"a", "b"}, {"a", "c"}, {"b"}}
MCVideoOf == [b \in {"a", "b", "c"} |-> IF b = "c" THEN "second" ELSE "first"]
=============================================================================

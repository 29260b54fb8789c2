-------------------------- MODULE MCImagePipeline --------------------------
(* Frames of two chunks, the assembly timeout (3 s) and the stale age (5 s) *)
(* scaled to 2 and 3 units, over networks that lose, repeat and reorder and *)
(* networks that do not, with an agent that runs on or restarts.            *)
EXTENDS ImagePipeline

MCNetworks ==
    {[reliable |-> FALSE, delay |-> 2, frames |-> 2, sessions |-> 2, time |-> 3],
     [reliable |-> FALSE, delay |-> 2, frames |-> 3, sessions |-> 1, time |-> 3],
     [reliable |-> TRUE, delay |-> 1, frames |-> 3, sessions |-> 2, time |-> 7],
     [reliable |-> TRUE, delay |-> 1, frames |-> 2, sessions |-> 3, time |-> 4]}
MCPayloads == [session : 1..3, frame : 1..3]
MCFrameOf(p) == p.frame
MCJpeg(chunks) == chunks[0] \notin NotJpeg /\ chunks[Last] \notin NotJpeg
MCFits(chunks) == DOMAIN chunks = 0..Last => chunks[Last] \notin TooBig
MCNotJpeg == {Origin(1, 2)}
MCTooBig == {Origin(2, 2)}
=============================================================================

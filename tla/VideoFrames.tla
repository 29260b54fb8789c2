---------------------------- MODULE VideoFrames ---------------------------
(* scripts/bag-images-to-video.py, what one export of VideoBatch feeds to   *)
(* ffmpeg: the frames of a time window, every n-th of them, up to a limit.  *)
(* A ROS 1 bag is read in the order of its timestamps; a ROS 2 bag is a     *)
(* directory of sqlite files, read one after the other in the order of      *)
(* their names.  A message is its timestamp.                                *)
EXTENDS Integers, FiniteSets, FiniteSetsExt, SequencesExt

CONSTANTS Bags,       \* a bag is the sequence of its files, by name; a file is
                      \* the set of the topic's messages in it, {} if none
          Strides,    \* values of --every-n, all of them positive
          Starts,     \* values of --start-offset-sec
          Durations,  \* values of --duration-sec, 0 until the end of the bag
          Limits,     \* values of --max-frames, 0 for none
          SampleSize, \* the frames estimate_fps looks at (300)
          MaxBad      \* bound: messages that cannot be parsed

\* What the arguments and the bounds must satisfy.
FramesAssumption ==
    /\ Bags \subseteq Seq(SUBSET Nat)
    /\ \A recording \in Bags : \A i \in DOMAIN recording : IsFiniteSet(recording[i])
    /\ Strides \subseteq Nat \ {0}
    /\ Starts \cup Durations \cup Limits \subseteq Nat
    /\ SampleSize \in Nat \ {0} /\ MaxBad \in Nat

VARIABLES
    bag, sqlite, bad,   \* the bag, whether it is read file by file, and the
                        \* messages of it that cannot be parsed
    everyN, start, duration, maxFrames,   \* the arguments
    pc, files, queue,   \* files not opened yet, messages of the open one
    reference, seen, frames   \* the locals of export_bag

input == <<bag, sqlite, bad, everyN, start, duration, maxFrames>>
vars == <<input, pc, files, queue, reference, seen, frames>>

None == -1
Messages == UNION Range(bag)

\* The messages of a file, or of all files, by timestamp.
Cursor(messages) ==
    [i \in 1..Cardinality(messages) |->
        CHOOSE m \in messages : Cardinality({k \in messages : k <= m}) = i]

Init ==
    /\ bag \in Bags /\ sqlite \in BOOLEAN
    /\ bad \in {b \in SUBSET Messages : Cardinality(b) <= MaxBad}
    /\ everyN \in Strides /\ start \in Starts
    /\ duration \in Durations /\ maxFrames \in Limits
    /\ pc = "preview" /\ files = <<>> /\ queue = <<>>
    /\ reference = None /\ seen = 0 /\ frames = <<>>

\* Every message in the order of the reader.
InReadingOrder ==
    IF sqlite THEN FlattenSeq([i \in DOMAIN bag |-> Cursor(bag[i])])
    ELSE Cursor(Messages)

\* first_frame, from the whole bag and whatever the window: there is none, it
\* cannot be parsed, or the export goes on.
Preview ==
    /\ pc = "preview"
    /\ IF Messages = {} THEN pc' = "no_topic" /\ UNCHANGED <<files, queue>>
       ELSE IF Head(InReadingOrder) \in bad
            THEN pc' = "failed" /\ UNCHANGED <<files, queue>>
       ELSE /\ pc' = "read"
            /\ files' = IF sqlite THEN bag ELSE <<>>
            /\ queue' = IF sqlite THEN <<>> ELSE Cursor(Messages)
    /\ UNCHANGED <<input, reference, seen, frames>>

OpenFile ==
    /\ pc = "read" /\ queue = <<>> /\ files # <<>>
    /\ queue' = Cursor(Head(files)) /\ files' = Tail(files)
    /\ UNCHANGED <<input, pc, reference, seen, frames>>

\* Mutant: the end of the window belongs to it.
BeyondEnd(offset) == duration > 0 /\ offset > start + duration

\* end_ns is not None and rel_ns >= end_ns
Beyond(offset) == duration > 0 /\ offset >= start + duration

\* max_frames and frames >= max_frames
Full(n) == maxFrames > 0 /\ n >= maxFrames

\* The data are parsed once the message is picked.
Parsed(message) == seen' % everyN = 0 => message \notin bad

\* One message: before the window, behind it, which ends the export, or in
\* it, where every n-th is written to ffmpeg.
ReadMessage ==
    /\ pc = "read" /\ queue # <<>>
    /\ queue' = Tail(queue)
    /\ LET message == Head(queue)
       IN  /\ reference' = IF reference = None THEN message ELSE reference
           /\ LET offset == message - reference'
              IN  IF offset < start THEN UNCHANGED <<pc, seen, frames>>
                  ELSE IF Beyond(offset)
                       THEN pc' = "done" /\ UNCHANGED <<seen, frames>>
                  ELSE /\ seen' = seen + 1
                       /\ IF ~Parsed(message)
                          THEN pc' = "failed" /\ UNCHANGED frames
                          ELSE /\ frames' = IF seen' % everyN = 0
                                            THEN Append(frames, message)
                                            ELSE frames
                               /\ pc' = IF seen' % everyN = 0 /\ Full(Len(frames'))
                                        THEN "done" ELSE pc
    /\ UNCHANGED <<input, files>>

EndOfBag ==
    /\ pc = "read" /\ queue = <<>> /\ files = <<>>
    /\ pc' = "done"
    /\ UNCHANGED <<input, files, queue, reference, seen, frames>>

Next == Preview \/ OpenFile \/ ReadMessage \/ EndOfBag

Spec == Init /\ [][Next]_vars

\* The timestamps the frame rate is estimated from: every n-th of the bag.
Sampled(messages) ==
    [i \in 1..Min({Len(messages) \div everyN, SampleSize})
        |-> messages[i * everyN]]

----------------------------------------------------------------------------
\* Properties

\* What the arguments ask for, with the recording as a whole.
InWindow ==
    {m \in Messages :
        /\ m - Min(Messages) >= start
        /\ duration > 0 => m - Min(Messages) < start + duration}
Nth(m) == Cardinality({k \in InWindow : k <= m})
Asked ==
    {m \in InWindow :
        Nth(m) % everyN = 0 /\ (maxFrames > 0 => Nth(m) \div everyN <= maxFrames)}

\* The names of the files are in the order of recording.  ROS 2 numbers them
\* without leading zeros, so this ends with the tenth.
NamedInOrder ==
    \A i, j \in DOMAIN bag : i < j => \A m \in bag[i], n \in bag[j] : m < n

\* Every variable stays in its range, and the limit of frames holds.
TypeOK ==
    /\ pc \in {"preview", "read", "no_topic", "failed", "done"}
    /\ seen \in Nat /\ reference \in Messages \cup {None}
    /\ Range(queue) \cup Range(frames) \subseteq Messages
    /\ maxFrames > 0 => Len(frames) <= maxFrames

\* "Export this many seconds after --start-offset-sec": the video of a
\* successful export shows exactly what was asked for, in the order of the
\* recording, however the bag is divided into files.
FramesExact == pc = "done" => frames = Cursor(Asked)

\* An export fails only because of a message it needs: the first of the bag,
\* or one that was asked for.
FailsOnlyOnNeeded ==
    pc = "failed" => bad \cap (Asked \cup {Min(Messages)}) # {}

\* The frame rate is estimated from the very frames of the video, when all of
\* the bag is exported: the estimate and the export count alike.
RateIsOfFrames ==
    pc = "done" /\ start = 0 /\ duration = 0 /\ maxFrames = 0 =>
        Sampled(InReadingOrder) = SubSeq(frames, 1, Min({Len(frames), SampleSize}))
=============================================================================

--------------------------- MODULE MCVideoWindow --------------------------
(* A recording in three files: the one named _10, recorded last, comes      *)
(* before the one named _2, as names are compared.                          *)
EXTENDS VideoFrames

MCUnpadded == {<<{3, 4}, {8, 9}, {6}>>}
=============================================================================

--------------------------- MODULE MCSlidingWindow ---------------------------
(* SlidingWindow with a context of ten tokens and evaluations of two. *)
EXTENDS SlidingWindow

MCModes == {"off", "basic", "turn"}
MCChunks == {2}
=============================================================================

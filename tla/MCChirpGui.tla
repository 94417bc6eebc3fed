----------------------------- MODULE MCChirpGui -----------------------------
(* ChirpGui with the shortest queue for which one dropped frame and two    *)
(* displayed ones leave something in it, and one frame more than it holds. *)
EXTENDS ChirpGui

MCQueueSize == 3
MCMaxFrames == 4
=============================================================================

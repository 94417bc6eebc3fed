---------------------------- MODULE MCFieldSonar ----------------------------
(* FieldSonar with two chunks to a channel and calls numbered modulo three,*)
(* so that a frame of the last call is told from one of this call.         *)
EXTENDS FieldSonar

MCChunks == 2
MCCalls == 3
=============================================================================

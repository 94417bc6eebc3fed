--------------------------- MODULE MCEchoEmitter ---------------------------
(* EchoEmitter with chirps of three writes and up to three uploads in a    *)
(* behaviour, so that parts of two earlier uploads can meet a third.       *)
EXTENDS EchoEmitter

MCChunks == 3
MCUploads == 3
=============================================================================

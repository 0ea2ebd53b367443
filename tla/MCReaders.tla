------------------------------ MODULE MCReaders ------------------------------
(* Two rings of two slots that wrap while they are read; calls of consume  *)
(* that wait for no, one or two ends of stream, with a size_t of three     *)
(* values; selects with and without a batch size.                          *)
EXTENDS Readers

CONSTANTS m

(* logger.h: stop() announces "stoping logger".  A stop() that is over has *)
(* the Writer end, with nothing else logged.                               *)
StopStops == stop = "done" ~> pc = "ended"
==============================================================================

--------------------------- MODULE MCEventStream ---------------------------
(* TLC instance of EventStream: one stream, one poll, one API request.     *)
EXTENDS EventStream

CONSTANTS s1, c1

MCStreams == {s1}
MCCalls == {c1}
=============================================================================

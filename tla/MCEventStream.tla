--------------------------- MODULE MCEventStream ---------------------------
(***************************************************************************)
(* The small instance of EventStream: one session that is there at first   *)
(* and one that may be created.  One event is retained, so that a stream   *)
(* that falls behind by two has missed one; the operator does two things   *)
(* (open a session and turn to another, delete it, command it, open it     *)
(* again or leave), with three calls and timers under way at most, and any *)
(* one request, or the stream, may fail.                                   *)
(***************************************************************************)
EXTENDS EventStream

CONSTANTS s1, s2, none

MCSessions == {s1, s2}
MCExisting == {s1}
=============================================================================

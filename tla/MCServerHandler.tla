--------------------------- MODULE MCServerHandler ---------------------------
(* A TLC instance of ServerHandler. *)
EXTENDS ServerHandler

CONSTANTS s1, s2, w1

TwoStreams == {s1, s2}
OneWorker == {w1}
=============================================================================

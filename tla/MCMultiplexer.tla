--------------------------- MODULE MCMultiplexer ---------------------------
(* TLC instances of Multiplexer. *)
EXTENDS Multiplexer

CONSTANTS u1, s1

OneUnary == {u1}
OneStream == {s1}
NoCalls == {}

AllShapes == SUBSET {"status", "body"}
BodyOnly == {{"body"}}
=============================================================================

------------------------------ MODULE MCDemux ------------------------------
(* A TLC instance of Demux. *)
EXTENDS Demux

CONSTANTS a, b

TwoIds == {a, b}
=============================================================================

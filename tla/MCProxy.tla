------------------------------ MODULE MCProxy ------------------------------
(* A TLC instance of Proxy. *)
EXTENDS Proxy

CONSTANTS a, b

TwoIds == {a, b}
=============================================================================

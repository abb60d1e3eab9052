------------------------------- MODULE MCHttp -------------------------------
(* A TLC instance of Http. *)
EXTENDS Http

CONSTANT a

OneId == {a}
=============================================================================

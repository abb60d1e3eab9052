--------------------------- MODULE MCClientStream ---------------------------
(* TLC instances of ClientStream. *)
EXTENDS ClientStream

AllHeaders == {"good", "bad"}
=============================================================================

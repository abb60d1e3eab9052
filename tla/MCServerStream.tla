---------------------------- MODULE MCServerStream ----------------------------
(* A TLC instance of ServerStream. *)
EXTENDS ServerStream

CONSTANTS main, h1

OneHelper == {h1}
=============================================================================

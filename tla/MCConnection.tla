---------------------------- MODULE MCConnection ----------------------------
(* TLC instance of Connection. *)
EXTENDS Connection

GoodHeaders == {"good"}
=============================================================================

----------------------------- MODULE StreamSpec -----------------------------
(***************************************************************************)
(* What a stream promises to the two applications that use it: in each     *)
(* direction the messages arrive in the order they were sent, none twice   *)
(* and none skipped; the end of a direction is reported after its last     *)
(* message, and nothing is received after it.  io.EOF stands for a handler *)
(* that returned without an error and a status for one that did not.  It   *)
(* promises no more: a stream may stop delivering at any point, and one on *)
(* which the server has refused a message may be aborted, which is neither *)
(* of the two ends.                                                        *)
(***************************************************************************)
EXTENDS Naturals, Sequences

VARIABLES
    asked,          \* messages the client has sent
    heard,          \* messages the server has received
    closed,         \* the client has closed its direction
    eof,            \* the server has been told so
    replied,        \* messages the server has sent
    got,            \* messages the client has received
    result,         \* what the server's handler returned, "open" before
    verdict,        \* how the stream ended for the client, "open" before
    refused         \* the server has refused a message that came too late

vars == <<asked, heard, closed, eof, replied, got, result, verdict, refused>>

Init ==
    /\ asked = 0 /\ heard = <<>> /\ closed = "no" /\ eof = "no"
    /\ replied = 0 /\ got = <<>> /\ result = "open" /\ verdict = "open"
    /\ refused = "no"

Ask ==
    /\ closed = "no"
    /\ asked' = asked + 1
    /\ UNCHANGED <<heard, closed, eof, replied, got, result, verdict, refused>>

Hear ==
    /\ eof = "no" /\ result = "open"
    /\ Len(heard) < asked
    /\ heard' = Append(heard, Len(heard) + 1)
    /\ UNCHANGED <<asked, closed, eof, replied, got, result, verdict, refused>>

HalfClose ==
    /\ closed = "no"
    /\ closed' = "yes"
    /\ UNCHANGED <<asked, heard, eof, replied, got, result, verdict, refused>>

HearEof ==
    /\ closed = "yes" /\ result = "open"
    /\ Len(heard) = asked
    /\ eof' = "yes"
    /\ UNCHANGED <<asked, heard, closed, replied, got, result, verdict,
                   refused>>

Reply ==
    /\ result = "open"
    /\ replied' = replied + 1
    /\ UNCHANGED <<asked, heard, closed, eof, got, result, verdict, refused>>

Finish ==
    /\ result = "open"
    /\ result' \in {"OK", "Err"}
    /\ UNCHANGED <<asked, heard, closed, eof, replied, got, verdict, refused>>

\* Only a handler that has returned refuses, and only a message that it has
\* not received.
Refuse ==
    /\ result # "open" /\ Len(heard) < asked
    /\ refused' = "yes"
    /\ UNCHANGED <<asked, heard, closed, eof, replied, got, result, verdict>>

Get ==
    /\ verdict = "open"
    /\ Len(got) < replied
    /\ got' = Append(got, Len(got) + 1)
    /\ UNCHANGED <<asked, heard, closed, eof, replied, result, verdict,
                   refused>>

End(v) ==
    /\ verdict = "open"
    /\ verdict' = v
    /\ UNCHANGED <<asked, heard, closed, eof, replied, got, result, refused>>

EndOK == result = "OK" /\ Len(got) = replied /\ End("EOF")
EndErr == result = "Err" /\ Len(got) = replied /\ End("status")
EndAborted == refused = "yes" /\ End("aborted")

Next ==
    \/ Ask \/ Hear \/ HalfClose \/ HearEof \/ Reply \/ Finish \/ Refuse \/ Get
    \/ EndOK \/ EndErr \/ EndAborted

Spec == Init /\ [][Next]_vars
=============================================================================

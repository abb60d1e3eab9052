----------------------------- MODULE Connection -----------------------------
(***************************************************************************)
(* One stream from end to end: the client's goroutines, exactly as in      *)
(* ClientStream, the wires in both directions, and the server's serve      *)
(* loop, stream goroutine and write goroutine.  ClientStream leaves the    *)
(* server to its environment and ServerHandler leaves out what an Rpc      *)
(* carries; here the Rpcs themselves travel, and the whole is shown to     *)
(* implement StreamSpec.                                                   *)
(*                                                                         *)
(* A connection keeps the order of the Rpcs written to it (external).      *)
(* Headers can be decoded, and the goroutine in Header takes no part: both *)
(* are ClientStream's.  What unregistering waits for in the multiplexer is *)
(* Multiplexer's, and Stop is ServerHandler's.  The application does not   *)
(* send after a CloseSend that succeeded.                                  *)
(***************************************************************************)
EXTENDS Naturals, Sequences, FiniteSets

CONSTANTS
    MaxBodies,      \* bound: bodies the server sends
    MaxSends,       \* bound: calls of SendMsg and CloseSend
    MaxFaults,      \* bound: kinds of faults in one behaviour
    Headers         \* kinds of headers the server sends

ASSUME ConnBounds ==
    MaxBodies \in Nat /\ MaxSends \in Nat /\ MaxFaults \in Nat
ASSUME HeaderKinds == Headers \subseteq {"good", "bad"}

VARIABLES
    \* the client (ClientStream)
    loop, rpc, header, ready, loopErr, loopTrailer, sendRst, rCh, done, rErr,
    ctx, user, slot, torn, sent, ended, rst, recv, got, recvErr, send, sends,
    sendErr, head, panics,
    \* the wires
    up,             \* Rpcs on their way to the server
    down,           \* Rpcs on their way to the client
    conn,           \* live, broken, or h.ctx is done as well (stopped)
    asked,          \* bodies the client has written
    closed,         \* CloseSend has written its trailer
    faults,         \* kinds of faults so far
    \* the server
    serve,          \* where the serve loop is
    cur,            \* the Rpc it is pushing, at most one
    ch,             \* the stream's ch
    app,            \* where the stream's goroutine is
    sctx,           \* the stream's context
    out,            \* the Rpc the write goroutine holds, at most one
    heard,          \* bodies the handler's RecvMsg has returned
    eof,            \* the handler's RecvMsg has returned io.EOF
    refused         \* resetStream has been called

Client == INSTANCE ClientStream

\* Everything of the client but the wire's side of it.
ownVars == <<loop, rpc, header, ready, loopErr, loopTrailer, sendRst, rCh,
             done, rErr, ctx, user, rst, recv, got, recvErr, send, sends,
             sendErr, head, panics>>
clientVars == <<ownVars, slot, torn, sent, ended>>
wireVars == <<up, down, conn, asked, closed, faults>>
serverVars == <<serve, cur, ch, app, sctx, out, heard, eof, refused>>
vars == <<clientVars, wireVars, serverVars>>

\* What the client writes.
Body(n) == [kind |-> "body", body |-> n]
Mark(kind) == [kind |-> kind, body |-> 0]

\* What the server writes: Client!Rpc with headers that can be decoded.
Reply(n) == [Client!NoRpc EXCEPT !.body = n]
Last(status) ==
    [hdr |-> "good", body |-> 0, trailer |-> "yes", status |-> status]

\* The opening Rpc has been written, or newStream has failed.
Init ==
    /\ Client!Init
    /\ up = <<Mark("open")>> /\ down = <<>> /\ conn = "live"
    /\ asked = 0 /\ closed = "no" /\ faults = {}
    /\ serve = "read" /\ cur = <<>> /\ ch = <<>> /\ app = "none"
    /\ sctx = "live" /\ out = <<>>
    /\ heard = <<>> /\ eof = "no" /\ refused = "no"

-----------------------------------------------------------------------------
(* The client. *)

Unwritten == UNCHANGED <<wireVars, serverVars>>

ClientLoop ==
    /\ \/ Client!LoopRead \/ Client!LoopReadCtx \/ Client!LoopReadClosed
       \/ Client!LoopHeader \/ Client!LoopCheck \/ Client!LoopPushCtx
       \/ Client!LoopExit \/ Client!LoopUnregister \/ Client!LoopCancel
       \/ Client!LoopPublish
    /\ Unwritten

\* A reset that was written is on its way.
ClientReset ==
    /\ Client!LoopReset
    /\ up' = IF rst' > rst THEN Append(up, Mark("reset")) ELSE up
    /\ UNCHANGED <<down, conn, asked, closed, faults, serverVars>>

ClientRecvCall == Client!RecvCall /\ Unwritten
ClientRecv == Client!RecvProgress /\ Unwritten

ClientSendStep ==
    /\ \/ Client!SendCall /\ closed = "no"
       \/ Client!SendMarshal
       \/ Client!CloseSendCall /\ closed = "no"
    /\ Unwritten

ClientTeardown == (Client!SendUnregister \/ Client!SendCancel) /\ Unwritten

\* The write of SendMsg succeeds, or the stream is torn down.
ClientWrite ==
    /\ Client!SendWrite
    /\ \/ /\ send' = "idle"
          /\ asked' = asked + 1
          /\ up' = Append(up, Body(asked + 1))
       \/ send' # "idle" /\ UNCHANGED <<asked, up>>
    /\ UNCHANGED <<down, conn, closed, faults, serverVars>>

\* The write of CloseSend succeeds, or nothing happens.
ClientCloseSend ==
    /\ Client!CloseSend
    /\ \/ closed' = "yes" /\ up' = Append(up, Mark("trailer"))
       \/ UNCHANGED <<closed, up>>
    /\ UNCHANGED <<down, conn, asked, faults, serverVars>>

\* The caller cancels, the server's deadline passes or the connection breaks;
\* each at most once.
Fault(kind) ==
    /\ kind \notin faults /\ Cardinality(faults) < MaxFaults
    /\ faults' = faults \cup {kind}

UserCancel ==
    /\ Fault("cancel")
    /\ Client!UserCancel
    /\ UNCHANGED <<up, down, conn, asked, closed, serverVars>>

-----------------------------------------------------------------------------
(* The connection. *)

\* handleResponse: to the stream's channel when there is room, or to nobody
\* once the stream is unregistered.
Deliver ==
    /\ down # <<>>
    /\ \/ torn = "no" /\ slot = {} /\ slot' = {Head(down)}
       \/ torn = "yes" /\ UNCHANGED slot
    /\ down' = Tail(down)
    /\ UNCHANGED <<ownVars, torn, sent, ended, up, conn, asked, closed,
                   faults, serverVars>>

Breaks ==
    /\ Fault("break")
    /\ conn = "live"
    /\ conn' = "broken"
    /\ UNCHANGED <<clientVars, up, down, asked, closed, serverVars>>

\* The multiplexer's readLoop fails on a connection that is gone.
ClientDisconnected == conn # "live" /\ Client!ConnectionFails /\ Unwritten

-----------------------------------------------------------------------------
(* The serve loop and processStreamingRpc. *)

Registered == app \notin {"none", "ended"}

\* serve reads the next Rpc, of this kind.
ServeRead(kinds) ==
    /\ serve = "read"
    /\ up # <<>> /\ Head(up).kind \in kinds
    /\ up' = Tail(up)
    /\ UNCHANGED <<clientVars, conn, asked, closed, faults, out, heard, eof>>

ServeOpen ==
    /\ ServeRead({"open"})
    /\ app' = "run"
    /\ UNCHANGED <<down, serve, cur, ch, sctx, refused>>

\* Mutant of ServeReset: a reset is ignored.
ServeResetIgnored ==
    /\ ServeRead({"reset"})
    /\ UNCHANGED <<down, serve, cur, ch, app, sctx, refused>>

ServeReset ==
    /\ ServeRead({"reset"})
    /\ sctx' = IF Registered THEN "done" ELSE sctx
    /\ UNCHANGED <<down, serve, cur, ch, app, refused>>

\* From here to Push the serve loop holds h.mu.
ServePush ==
    /\ ServeRead({"body", "trailer"})
    /\ Registered
    /\ serve' = "push"
    /\ cur' = <<Head(up)>>
    /\ UNCHANGED <<down, ch, app, sctx, refused>>

Push ==
    /\ serve = "push" /\ ch = <<>>
    /\ ch' = cur
    /\ cur' = <<>>
    /\ serve' = "read"
    /\ UNCHANGED <<clientVars, wireVars, app, sctx, out, heard, eof, refused>>

\* The client's trailer, after the handler has returned.
ServeTrailer ==
    /\ ServeRead({"trailer"})
    /\ ~Registered
    /\ UNCHANGED <<down, serve, cur, ch, app, sctx, refused>>

\* A body, after the handler has returned: resetStream writes by itself, past
\* whatever the write goroutine still holds.
ServeRefuse ==
    /\ ServeRead({"body"})
    /\ ~Registered
    /\ refused' = "yes"
    /\ \/ /\ conn = "live"
          /\ down' = Append(down, Last("none"))
          /\ UNCHANGED serve
       \/ /\ conn # "live"
          /\ serve' = "exit"
          /\ UNCHANGED down
    /\ UNCHANGED <<cur, ch, app, sctx>>

\* The read or the push gives up, and Serve cancels the stream.
ServeExit ==
    /\ \/ serve = "read" /\ conn # "live"
       \/ serve = "push" /\ conn = "stopped"
    /\ serve' = "exit"
    /\ cur' = <<>>
    /\ sctx' = "done"
    /\ UNCHANGED <<clientVars, wireVars, ch, app, out, heard, eof, refused>>

-----------------------------------------------------------------------------
(* runStream and the write goroutine. *)

\* The handler's RecvMsg: a body, or io.EOF for the client's trailer.
AppRecv ==
    /\ app = "run" /\ ch # <<>>
    /\ ch' = <<>>
    /\ \/ /\ Head(ch).kind = "body"
          /\ heard' = Append(heard, Head(ch).body)
          /\ UNCHANGED eof
       \/ /\ Head(ch).kind = "trailer"
          /\ eof' = "yes"
          /\ UNCHANGED heard
    /\ UNCHANGED <<clientVars, wireVars, serve, cur, app, sctx, out, refused>>

AppGoto(step) ==
    /\ app' = step
    /\ UNCHANGED <<ownVars, slot, torn, wireVars, serve, cur, ch, heard, eof,
                   refused>>

AppSend ==
    /\ app = "run" /\ sent < MaxBodies
    /\ AppGoto("send")
    /\ UNCHANGED <<sent, ended, sctx, out>>

\* writerFunc: the write goroutine takes the Rpc, or the context is done.
AppSendOk ==
    /\ app = "send" /\ out = <<>>
    /\ AppGoto("run")
    /\ out' = <<Reply(sent + 1)>>
    /\ sent' = sent + 1
    /\ UNCHANGED <<ended, sctx>>

AppSendCtx ==
    /\ app = "send" /\ sctx = "done"
    /\ AppGoto("run")
    /\ UNCHANGED <<sent, ended, sctx, out>>

AppReturn ==
    /\ app = "run"
    /\ AppGoto("trailer")
    /\ ended' \in {"OK", "Err"}
    /\ UNCHANGED <<sent, sctx, out>>

\* Mutant of SendTrailer: waits for nobody, and is taken first.
SendTrailerFirst ==
    /\ app = "trailer"
    /\ app' = "unregister"
    /\ down' = Append(down, Last(ended))
    /\ sctx' = "done"
    /\ UNCHANGED <<clientVars, up, conn, asked, closed, faults, serve, cur, ch,
                   out, heard, eof, refused>>

\* SendTrailer and the deferred handler.cancel(); the trailer is lost if the
\* context was done first.
SendTrailer ==
    /\ app = "trailer"
    /\ AppGoto("unregister")
    /\ \/ out = <<>> /\ out' = <<Last(ended)>>
       \/ sctx = "done" /\ UNCHANGED out
    /\ sctx' = "done"
    /\ UNCHANGED <<sent, ended>>

unregisterStream ==
    /\ app = "unregister"
    /\ serve # "push"
    /\ AppGoto("ended")
    /\ UNCHANGED <<sent, ended, sctx, out>>

\* The deadline from the stream's headers passes.
StreamTimeout ==
    /\ Fault("timeout")
    /\ Registered /\ sctx = "live"
    /\ sctx' = "done"
    /\ UNCHANGED <<clientVars, up, down, conn, asked, closed, serve, cur, ch,
                   app, out, heard, eof, refused>>

WriteOk ==
    /\ out # <<>> /\ conn = "live"
    /\ down' = Append(down, Head(out))
    /\ out' = <<>>
    /\ UNCHANGED <<clientVars, up, conn, asked, closed, faults, serve, cur, ch,
                   app, sctx, heard, eof, refused>>

\* A failed write loses the Rpc and cancels h.ctx.
WriteFails ==
    /\ out # <<>> /\ conn # "live"
    /\ out' = <<>>
    /\ conn' = "stopped"
    /\ UNCHANGED <<clientVars, up, down, asked, closed, faults, serve, cur, ch,
                   app, sctx, heard, eof, refused>>

-----------------------------------------------------------------------------
Next ==
    \/ ClientLoop \/ ClientReset \/ ClientRecvCall \/ ClientRecv
    \/ ClientSendStep \/ ClientTeardown \/ ClientWrite \/ ClientCloseSend
    \/ UserCancel \/ Deliver \/ Breaks \/ ClientDisconnected
    \/ ServeOpen \/ ServeReset \/ ServePush \/ Push \/ ServeTrailer
    \/ ServeRefuse \/ ServeExit \/ AppRecv \/ AppSend \/ AppSendOk
    \/ AppSendCtx \/ AppReturn \/ SendTrailer \/ unregisterStream
    \/ StreamTimeout \/ WriteOk \/ WriteFails

Spec == Init /\ [][Next]_vars

-----------------------------------------------------------------------------
(* Properties. *)

\* How the stream ended: the handler's result, or the server's reset, which
\* is a trailer without a status.  RecvMsg reports that one as io.EOF too, so
\* the application cannot tell: see EofMeansComplete.
Verdict == IF recvErr \notin {"EOF", "status"} THEN "open"
           ELSE IF rpc.status = "none" THEN "aborted" ELSE recvErr

\* The two ends of the wire and everything between them implement StreamSpec:
\* order and completeness of both directions; the trailer that carries the
\* handler's result ends the stream after the last message and as what the
\* handler returned, and the only other trailer that does is the reset for a
\* body that reached the server too late.
Abstract == INSTANCE StreamSpec WITH
    replied <- sent,
    result <- ended,
    verdict <- Verdict

ImplementsStream == Abstract!Spec

\* Once the client's stream is over, however it ended, and the serve loop has
\* read all the client wrote, a handler that still runs has been cancelled;
\* but for a reset that could not be written, and for a failed SendMsg, which
\* may close the stream's channel before it cancels the context.
HandlerTold ==
    loop = "exit" /\ up = <<>> /\ serve = "read" /\ conn = "live"
        /\ app \in {"run", "send"}
    => sctx = "done" \/ sendErr = "yes" \/ (sendRst = "yes" /\ rst = 0)

\* Once the handler is over and all the server wrote has been read, a client
\* that still waits for a reply missed the trailer because the stream's own
\* deadline passed at the server.
ClientTold ==
    app = "ended" /\ out = <<>> /\ down = <<>> /\ conn = "live"
        /\ loop = "read" /\ slot = {} /\ torn = "no"
    => "timeout" \in faults

\* RecvMsg's doc: it "returns io.EOF when the stream completes successfully.
\* On any other error, the stream is aborted and the error contains the RPC
\* status".  So io.EOF means a handler that returned without an error, and
\* all of its messages.  A reset that overtakes them is io.EOF too.
EofMeansComplete == recvErr = "EOF" => ended = "OK" /\ Len(got) = sent

\* The client's SendMsg: "On error, SendMsg aborts the stream".  So once the
\* client's stream is over after a failed SendMsg and the serve loop has read
\* all the client wrote, the handler does not go on with a live context; but
\* for a reset that could not be written.  It may, if readLoop sees the closed
\* channel before the cancelled context.
FailedSendAborts ==
    sendErr = "yes" /\ loop = "exit" /\ up = <<>> /\ serve = "read"
        /\ conn = "live" /\ app \in {"run", "send"}
    => sctx = "done" \/ (sendRst = "yes" /\ rst = 0)

\* README.md: "Stopping is always indicated -- in both directions -- by
\* presence of the `trailer`".  So once the handler is over and all the
\* server wrote has been read, no client is left waiting.  One is if the
\* deadline passed at the server.
StopIsIndicated ==
    ~(/\ app = "ended" /\ out = <<>> /\ down = <<>> /\ conn = "live"
      /\ loop = "read" /\ slot = {} /\ torn = "no")

\* Neither end waits for an end of the stream that the other knows of.
BothTold == HandlerTold /\ ClientTold
=============================================================================

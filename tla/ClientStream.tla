---------------------------- MODULE ClientStream ----------------------------
(***************************************************************************)
(* One client stream (clientStream): its readLoop, and the goroutines of   *)
(* the application that call RecvMsg, SendMsg or CloseSend, and Header.    *)
(*                                                                         *)
(* readLoop holds the `protected' lock through its whole exit (close rCh,  *)
(* send a reset, unregister, cancel, publish); every other critical        *)
(* section is one step.  The multiplexer's side of the stream is a one-    *)
(* slot channel that is closed when the stream is unregistered or the      *)
(* connection fails (see Multiplexer).  The server may be any that follows *)
(* the protocol: bodies in order, then one last Rpc, and nothing more.     *)
(***************************************************************************)
EXTENDS Naturals, Sequences

CONSTANTS
    MaxBodies,      \* bound: bodies the server sends
    MaxSends,       \* bound: calls of SendMsg and CloseSend
    Headers         \* kinds of headers the server sends: "good", "bad"

ASSUME StreamBounds == MaxBodies \in Nat /\ MaxSends \in Nat
ASSUME HeaderKinds == Headers \subseteq {"good", "bad"}

VARIABLES
    loop,           \* where readLoop is
    rpc,            \* the Rpc readLoop is handling
    header,         \* cs.header
    ready,          \* the ready wait group has been released
    loopErr,        \* readLoop's local rErr
    loopTrailer,    \* readLoop's local trailer
    sendRst,        \* the argument of the teardown in readLoop's exit
    rCh,            \* cs.rCh: open or closed
    done,           \* cs.protected.done
    rErr,           \* cs.protected.rErr
    ctx,            \* cs.ctx: live or done
    user,           \* the caller's own context: live or cancelled
    slot,           \* the multiplexer's channel for this stream
    torn,           \* that channel is closed
    sent,           \* bodies the server has sent before its last Rpc
    ended,          \* status on the server's last Rpc, "open" before it
    rst,            \* resets written to the server
    recv,           \* where the receiving goroutine is
    got,            \* bodies RecvMsg has returned
    recvErr,        \* last error RecvMsg returned
    send,           \* where the sending goroutine is
    sends,          \* calls the sender has begun
    sendErr,        \* SendMsg has failed to marshal or write
    head,           \* where the goroutine in Header is
    panics          \* assertion failures

loopVars == <<loop, rpc, header, ready, loopErr, loopTrailer, sendRst, rCh,
              done, rErr, rst>>
ctxVars == <<ctx, user>>
netVars == <<slot, torn, sent, ended>>
recvVars == <<recv, got, recvErr, panics>>
sendVars == <<send, sends, sendErr>>
vars == <<loopVars, ctxVars, netVars, recvVars, sendVars, head>>

\* status is that of the last Rpc: "none" on a reset, which has a trailer
\* and no status.  A regular end without a status counts as "OK".
Statuses == {"none", "OK", "Err"}
Rpc == [hdr : {"good", "bad"}, body : 0..MaxBodies, trailer : {"no", "yes"},
        status : Statuses]
NoRpc == [hdr |-> "good", body |-> 0, trailer |-> "no", status |-> "none"]

Errors == {"nil", "EOF", "status", "ctxErr", "connErr", "codec"}

\* The types of the stream's fields and of its goroutines' positions.
TypeOK ==
    /\ loop \in {"read", "header", "check", "push", "lock", "rst",
                 "unregister", "cancel", "publish", "exit"}
    /\ rpc \in Rpc
    /\ header \in {"nil", "set"}
    /\ ready \in {"no", "yes"}
    /\ loopErr \in Errors /\ rErr \in Errors
    /\ loopTrailer \in {"nil", "set"}
    /\ sendRst \in {"no", "yes"}
    /\ rCh \in {"open", "closed"}
    /\ done \in {"no", "yes"}
    /\ ctx \in {"live", "done"} /\ user \in {"live", "cancelled"}
    /\ slot \subseteq Rpc
    /\ torn \in {"no", "yes"}
    /\ sent \in 0..MaxBodies
    /\ ended \in {"open"} \cup Statuses
    /\ rst \in Nat
    /\ recv \in {"idle", "select", "closed"}
    /\ got \in Seq(0..MaxBodies)
    /\ recvErr \in Errors \cup {"none"}
    /\ send \in {"idle", "marshal", "write", "closeSend", "unregister",
                 "cancel"}
    /\ sends \in 0..MaxSends
    /\ sendErr \in {"no", "yes"}
    /\ head \in {"wait", "returned"}
    /\ panics \in {"none", "assertion"}

Init ==
    /\ loop = "read" /\ rpc = NoRpc
    /\ header = "nil" /\ ready = "no"
    /\ loopErr = "nil" /\ loopTrailer = "nil" /\ sendRst = "no"
    /\ rCh = "open" /\ done = "no" /\ rErr = "nil" /\ rst = 0
    /\ ctx = "live" /\ user = "live"
    /\ slot = {} /\ torn = "no" /\ sent = 0 /\ ended = "open"
    /\ recv = "idle" /\ got = <<>> /\ recvErr = "none" /\ panics = "none"
    /\ send = "idle" /\ sends = 0 /\ sendErr = "no"
    /\ head = "wait"

\* Mutant of Unlocked: readLoop's exit does not hold the lock.
UnlockedAlways == TRUE

\* cs.protected can be taken.
Unlocked == loop \notin {"rst", "unregister", "cancel", "publish"}

-----------------------------------------------------------------------------
(* The server and the connection, through the multiplexer's channel. *)

ServerSends(r) ==
    /\ ended = "open" /\ torn = "no" /\ slot = {}
    /\ slot' = {r}
    /\ UNCHANGED <<torn, loopVars, ctxVars, recvVars, sendVars, head>>

\* SendMsg.
ServerBody ==
    /\ sent < MaxBodies
    /\ \E h \in Headers :
           ServerSends([NoRpc EXCEPT !.hdr = h, !.body = sent + 1])
    /\ sent' = sent + 1
    /\ UNCHANGED ended

\* SendHeader: an Rpc with neither body nor trailer.
ServerHeader ==
    /\ \E h \in Headers : ServerSends([NoRpc EXCEPT !.hdr = h])
    /\ header = "nil" /\ sent = 0
    /\ UNCHANGED <<sent, ended>>

\* SendTrailer, which sends no body, or a server that makes use of the body
\* the protocol allows on the last Rpc.
ServerLast ==
    /\ \E h \in Headers, s \in {"OK", "Err"}, b \in {0, sent + 1} :
           /\ b <= MaxBodies
           /\ ServerSends([hdr |-> h, body |-> b, trailer |-> "yes",
                           status |-> s])
           /\ ended' = s
    /\ UNCHANGED sent

\* resetStream: a trailer, no headers and no status.
ServerResets ==
    /\ ServerSends([NoRpc EXCEPT !.trailer = "yes"])
    /\ ended' = "none"
    /\ UNCHANGED sent

\* The multiplexer's closeError closes the channel.
ConnectionFails ==
    /\ torn = "no"
    /\ torn' = "yes"
    /\ UNCHANGED <<slot, sent, ended, loopVars, ctxVars, recvVars, sendVars,
                   head>>

\* The caller cancels, or its deadline passes.
UserCancel ==
    /\ user = "live"
    /\ user' = "cancelled"
    /\ ctx' = "done"
    /\ UNCHANGED <<loopVars, netVars, recvVars, sendVars, head>>

-----------------------------------------------------------------------------
(* readLoop. *)

LoopRead ==
    /\ loop = "read"
    /\ slot # {}
    /\ rpc' \in slot
    /\ slot' = {}
    /\ loop' = IF header = "nil" THEN "header" ELSE "check"
    /\ UNCHANGED <<header, ready, loopErr, loopTrailer, sendRst, rCh, done,
                   rErr, rst, ctxVars, torn, sent, ended, recvVars, sendVars,
                   head>>

\* Mutant of onReady: an error releases nobody.
onReadyHeaderOnly(hdr) ==
    /\ Unlocked
    /\ IF header = "nil" /\ hdr = "set" THEN header' = hdr /\ ready' = "yes"
                                        ELSE UNCHANGED <<header, ready>>

\* onReady: the first header, or error, releases those waiting in Header.
onReady(hdr) ==
    /\ Unlocked
    /\ IF header = "nil" THEN header' = hdr /\ ready' = "yes"
                         ELSE UNCHANGED <<header, ready>>

LoopReadErr(err) ==
    /\ loop = "read"
    /\ loopErr' = err
    /\ onReady("nil")
    /\ loop' = "lock"
    /\ UNCHANGED <<rpc, loopTrailer, sendRst, rCh, done, rErr, rst, ctxVars,
                   netVars, recvVars, sendVars, head>>

LoopReadCtx == ctx = "done" /\ LoopReadErr("ctxErr")
LoopReadClosed == torn = "yes" /\ slot = {} /\ LoopReadErr("connErr")

\* Headers that cannot be decoded end the loop with rErr still nil.
LoopHeader ==
    /\ loop = "header"
    /\ \/ /\ rpc.hdr = "bad"
          /\ loop' = "lock"
          /\ UNCHANGED <<header, ready>>
       \/ /\ rpc.hdr = "good"
          /\ onReady("set")
          /\ loop' = "check"
    /\ UNCHANGED <<rpc, loopErr, loopTrailer, sendRst, rCh, done, rErr, rst,
                   ctxVars, netVars, recvVars, sendVars, head>>

\* Mutant of errorIfDone: the status is not converted to an error.
errorIfDoneRaw(r) == r.status

\* Mutant of errorIfDone: the status is ignored.
errorIfDoneIgnored(r) == "EOF"

\* An absent status reads as code OK.
errorIfDone(r) == IF r.status = "Err" THEN "status" ELSE "EOF"

LoopCheck ==
    /\ loop = "check"
    /\ \/ /\ rpc.trailer = "yes"
          /\ loopTrailer' = "set"
          /\ loopErr' = errorIfDone(rpc)
          /\ loop' = "lock"
       \/ /\ rpc.trailer = "no"
          /\ loop' = IF rpc.body = 0 THEN "read" ELSE "push"
          /\ UNCHANGED <<loopTrailer, loopErr>>
    /\ UNCHANGED <<rpc, header, ready, sendRst, rCh, done, rErr, rst, ctxVars,
                   netVars, recvVars, sendVars, head>>

\* Mutant of LoopPushCtx: the send on rCh is not a select.
LoopPushBlocks == FALSE /\ UNCHANGED vars

LoopPushCtx ==
    /\ loop = "push"
    /\ ctx = "done"
    /\ loopErr' = "ctxErr"
    /\ loop' = "lock"
    /\ UNCHANGED <<rpc, header, ready, loopTrailer, sendRst, rCh, done, rErr,
                   rst, ctxVars, netVars, recvVars, sendVars, head>>

\* Mutant of MustReset: a completed stream is reset too.
MustResetAlways == ctx = "done"

\* Whether the server must be told that the stream is abandoned.
MustReset == loopTrailer = "nil" /\ ctx = "done"

\* The deferred exit: take the lock, close rCh, decide on the reset.
LoopExit ==
    /\ loop = "lock"
    /\ rCh' = "closed"
    /\ sendRst' = IF MustReset THEN "yes" ELSE "no"
    /\ loop' = IF MustReset THEN "rst" ELSE "unregister"
    /\ UNCHANGED <<rpc, header, ready, loopErr, loopTrailer, done, rErr, rst,
                   ctxVars, netVars, recvVars, sendVars, head>>

\* Write the reset; a failed write is only logged.
LoopReset ==
    /\ loop = "rst"
    /\ rst' \in {rst, rst + 1}
    /\ loop' = "unregister"
    /\ UNCHANGED <<rpc, header, ready, loopErr, loopTrailer, sendRst, rCh,
                   done, rErr, ctxVars, netVars, recvVars, sendVars, head>>

LoopUnregister ==
    /\ loop = "unregister"
    /\ torn' = "yes"
    /\ loop' = "cancel"
    /\ UNCHANGED <<rpc, header, ready, loopErr, loopTrailer, sendRst, rCh,
                   done, rErr, rst, ctxVars, slot, sent, ended, recvVars,
                   sendVars, head>>

LoopCancel ==
    /\ loop = "cancel"
    /\ ctx' = "done"
    /\ loop' = "publish"
    /\ UNCHANGED <<rpc, header, ready, loopErr, loopTrailer, sendRst, rCh,
                   done, rErr, rst, user, netVars, recvVars, sendVars, head>>

LoopPublish ==
    /\ loop = "publish"
    /\ done' = "yes"
    /\ rErr' = loopErr
    /\ loop' = "exit"
    /\ UNCHANGED <<rpc, header, ready, loopErr, loopTrailer, sendRst, rCh,
                   rst, ctxVars, netVars, recvVars, sendVars, head>>

-----------------------------------------------------------------------------
(* RecvMsg. *)

RecvReturns(err) == recv' = "idle" /\ recvErr' = err

RecvCall ==
    /\ recv = "idle"
    /\ Unlocked
    /\ \/ done = "yes" /\ RecvReturns(rErr)
       \/ done = "no" /\ recv' = "select" /\ UNCHANGED recvErr
    /\ UNCHANGED <<got, panics, loopVars, ctxVars, netVars, sendVars, head>>

RecvCtx ==
    /\ recv = "select"
    /\ ctx = "done"
    /\ RecvReturns("ctxErr")
    /\ UNCHANGED <<got, panics, loopVars, ctxVars, netVars, sendVars, head>>

\* Mutant of RecvBody: readLoop drops the body when it cannot hand it over.
RecvBodyOrDrop ==
    /\ loop = "push"
    /\ got' = IF recv = "select" THEN Append(got, rpc.body) ELSE got
    /\ recv' = "idle"
    /\ loop' = "read"
    /\ UNCHANGED <<recvErr, panics, rpc, header, ready, loopErr, loopTrailer,
                   sendRst, rCh, done, rErr, rst, ctxVars, netVars, sendVars,
                   head>>

\* readLoop and RecvMsg meet on the unbuffered rCh.  A body that cannot be
\* unmarshalled is an error of this RecvMsg only.
RecvBody ==
    /\ recv = "select"
    /\ loop = "push"
    /\ got' = Append(got, rpc.body)
    /\ recvErr' \in {recvErr, "codec"}
    /\ recv' = "idle"
    /\ loop' = "read"
    /\ UNCHANGED <<panics, rpc, header, ready, loopErr, loopTrailer,
                   sendRst, rCh, done, rErr, rst, ctxVars, netVars, sendVars,
                   head>>

RecvFindsClosed ==
    /\ recv = "select"
    /\ rCh = "closed"
    /\ recv' = "closed"
    /\ UNCHANGED <<got, recvErr, panics, loopVars, ctxVars, netVars, sendVars,
                   head>>

\* rCh is closed: done must be set, or RecvMsg panics.
RecvAfterClose ==
    /\ recv = "closed"
    /\ Unlocked
    /\ panics' = IF done = "yes" THEN panics ELSE "assertion"
    /\ RecvReturns(rErr)
    /\ UNCHANGED <<got, loopVars, ctxVars, netVars, sendVars, head>>

-----------------------------------------------------------------------------
(* SendMsg and CloseSend, called by one goroutine. *)

SendStep(step) == send' = step /\ UNCHANGED <<sends, sendErr>>

\* Calls teardown(false), and returns the error.
SendFails ==
    /\ send' = "unregister"
    /\ sendErr' = "yes"
    /\ UNCHANGED sends

\* A finished stream's error is returned at once.
SendCall ==
    /\ send = "idle" /\ sends < MaxSends
    /\ Unlocked
    /\ send' = IF done = "yes" THEN "idle" ELSE "marshal"
    /\ sends' = sends + 1
    /\ UNCHANGED <<sendErr, loopVars, ctxVars, netVars, recvVars, head>>

SendMarshal ==
    /\ send = "marshal"
    /\ SendStep("write") \/ SendFails
    /\ UNCHANGED <<loopVars, ctxVars, netVars, recvVars, head>>

SendWrite ==
    /\ send = "write"
    /\ SendStep("idle") \/ SendFails
    /\ UNCHANGED <<loopVars, ctxVars, netVars, recvVars, head>>

\* teardown(false) of a failed SendMsg: unregister, then cancel.
SendUnregister ==
    /\ send = "unregister"
    /\ torn' = "yes"
    /\ SendStep("cancel")
    /\ UNCHANGED <<slot, sent, ended, loopVars, ctxVars, recvVars, head>>

SendCancel ==
    /\ send = "cancel"
    /\ ctx' = "done"
    /\ SendStep("idle")
    /\ UNCHANGED <<user, loopVars, netVars, recvVars, head>>

CloseSendCall ==
    /\ send = "idle" /\ sends < MaxSends
    /\ send' = "closeSend"
    /\ sends' = sends + 1
    /\ UNCHANGED <<sendErr, loopVars, ctxVars, netVars, recvVars, head>>

\* CloseSend writes, returns the error if there is one, and does nothing else.
CloseSend ==
    /\ send = "closeSend"
    /\ SendStep("idle")
    /\ UNCHANGED <<loopVars, ctxVars, netVars, recvVars, head>>

-----------------------------------------------------------------------------
\* Header waits for ready, then takes the lock.
Header ==
    /\ head = "wait"
    /\ ready = "yes"
    /\ Unlocked
    /\ head' = "returned"
    /\ UNCHANGED <<loopVars, ctxVars, netVars, recvVars, sendVars>>

LoopProgress ==
    LoopRead \/ LoopReadCtx \/ LoopReadClosed \/ LoopHeader \/ LoopCheck
        \/ LoopPushCtx \/ LoopExit \/ LoopReset \/ LoopUnregister
        \/ LoopCancel \/ LoopPublish

RecvProgress == RecvCtx \/ RecvBody \/ RecvFindsClosed \/ RecvAfterClose

SendProgress ==
    SendMarshal \/ SendWrite \/ SendUnregister \/ SendCancel \/ CloseSend

Environment ==
    ServerBody \/ ServerHeader \/ ServerLast \/ ServerResets
        \/ ConnectionFails \/ UserCancel

Next ==
    LoopProgress \/ RecvCall \/ RecvProgress \/ SendCall \/ CloseSendCall
        \/ SendProgress \/ Header \/ Environment

Spec == Init /\ [][Next]_vars

\* Goroutines that can run do, and the write of a reset, which has a deadline,
\* returns.  The application may stop calling RecvMsg, a SendMsg may block,
\* and nothing is assumed of the server, the connection or the caller.  That
\* unregistering gets the multiplexer's mutex is assumed here: Multiplexer's
\* TeardownCompletes says when it does not.
FairSpec ==
    /\ Spec
    /\ WF_vars(LoopProgress)
    /\ WF_vars(RecvProgress)
    /\ WF_vars(SendUnregister \/ SendCancel)
    /\ WF_vars(Header)

-----------------------------------------------------------------------------
(* Properties. *)

\* RecvMsg's "cs.rCh was closed but cs.done == false!" is unreachable: done
\* is published before the lock taken ahead of close(rCh) is released.
NoAssertion == panics = "none"

\* The application receives the server's bodies in order and without gaps,
\* and has received all that were sent ahead of the last Rpc once RecvMsg has
\* returned io.EOF or the status of that Rpc.
AllBodiesBeforeEnd ==
    /\ \A i \in 1..Len(got) : got[i] = i
    /\ recvErr \in {"EOF", "status"} => Len(got) >= sent

\* README.md has the body of a client stream's reply, and optionally of other
\* streams', on the same Rpc as the trailer: when RecvMsg has reported the end
\* that Rpc stands for, its body has been received too.  readLoop drops it.
LastBodyReceived ==
    recvErr \in {"EOF", "status"} /\ rpc.body # 0 => Len(got) = rpc.body

\* The server is sent a reset at most once, never after readLoop has seen its
\* last Rpc, and only if the caller cancelled or a send failed: readLoop's own
\* cancel() comes too late to make it reset a stream that ended by itself.
ResetOnlyIfAbandoned ==
    rst # 0 => /\ rst = 1 /\ loopTrailer = "nil"
               /\ user = "cancelled" \/ sendErr = "yes"

\* However the caller cancels, while a body is being handed over or a read is
\* under way, the server's last Rpc is seen or a reset is attempted, unless
\* readLoop was already on its way out.
CancelTellsServer ==
    (user = "cancelled" /\ loop \in {"read", "header", "check", "push"})
        ~> (loopTrailer = "set" \/ sendRst = "yes")

\* No RecvMsg stays blocked on a finished stream: one that is waiting when
\* rCh is closed or the context is done returns.
RecvUnblocks == (recv # "idle" /\ (rCh = "closed" \/ ctx = "done"))
                    ~> recv = "idle"

\* RecvMsg takes neither success nor failure out of thin air: io.EOF is not
\* reported before the server's last Rpc nor for one with an error, a status
\* only for one with an error; and once readLoop has met a regular end, what it
\* publishes is that end, whatever became of the context meanwhile.
EndIsServers ==
    /\ recvErr = "EOF" => ended \notin {"open", "Err"}
    /\ recvErr = "status" => ended = "Err"
    /\ done = "yes" /\ loopTrailer = "set" =>
           /\ ended = "OK" => rErr = "EOF"
           /\ ended = "Err" => rErr = "status"

\* RecvMsg's doc: it "blocks until it receives a message into m or the stream
\* is done"; and readLoop's: errors are held and "will be yielded on the next
\* RecvMsg".  So it does not return nil without a message.  It does after
\* undecodable headers.
EndHasError == recvErr # "nil"

\* RecvMsg's doc: it "returns io.EOF when the stream completes successfully".
\* So a stream whose end readLoop has met is not reported as cancelled when
\* neither its caller cancelled it nor a send failed.  It can be: RecvMsg's
\* select sees readLoop's own cancel().
CompletedNotCancelled ==
    recvErr = "ctxErr" /\ loopTrailer = "set" =>
        user = "cancelled" \/ sendErr = "yes"

\* Header returns once readLoop is over, with the first headers or with the
\* error that came instead of them, unless those headers were undecodable.
HeaderUnblocks ==
    (loop = "exit" /\ (header = "set" \/ rpc.hdr = "good"))
        ~> head = "returned"

\* Header's comment: it is "unblocked once we receive our first headers".  So
\* whatever those headers are, it returns when readLoop is over.  It does not
\* if they were undecodable.
HeaderReturns == loop = "exit" ~> head = "returned"

\* Nobody is left waiting on a stream that is over.
CallsUnblock == RecvUnblocks /\ HeaderUnblocks
=============================================================================

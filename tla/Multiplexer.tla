---------------------------- MODULE Multiplexer ----------------------------
(***************************************************************************)
(* The client's RpcMultiplexer: many calls share one connection.  A call   *)
(* takes an id, registers a channel for it in `handlers', writes its       *)
(* request and waits on the channel; one read loop takes replies off the   *)
(* connection and hands each to the channel registered under its id.       *)
(*                                                                         *)
(* `mutex' guards handlers and rErr.  Every critical section is one step,  *)
(* except handleResponse, which sends on the call's channel (capacity 1)   *)
(* with the mutex held: there the lock is held from LookupHandler to       *)
(* Deliver, and the mutex is free exactly when loop # "deliver".           *)
(*                                                                         *)
(* The connection and the server behind it are external: a reply to a      *)
(* request that was written arrives at most once, in the order sent.       *)
(***************************************************************************)
EXTENDS Naturals, Sequences

CONSTANTS
    Unary,          \* calls made by CallUnaryMethod
    Streams,        \* calls made by newStream over NewStreamReadWriter
    MaxReplies,     \* bound: replies the server sends on one stream
    Shapes          \* which of status and body a unary reply carries

ASSUME DisjointCalls == Unary \cap Streams = {}
ASSUME BoundedReplies == MaxReplies \in Nat
ASSUME ReplyShapes == Shapes \subseteq SUBSET {"status", "body"}

Calls == Unary \cup Streams

VARIABLES
    pc,             \* where each call is in its function
    callId,         \* streamId of each call, 0 before it has one
    streamCounter,  \* rm.streamCounter
    handlers,       \* rm.handlers: id -> the call whose channel it is
    respChan,       \* content of each call's channel: NoRpc or one reply
    closed,         \* calls whose channel has been closed
    cancelled,      \* calls whose context is done
    written,        \* calls whose request reached the server
    sent,           \* replies the server has sent to each call
    recvd,          \* replies each call has taken from its channel
    result,         \* what each call returned
    loop,           \* where the goroutine of NewRpcMultiplexer is
    hand,           \* the reply readLoop is handling
    rErr,           \* rm.rErr
    muxDone,        \* "yes" once rm.ctx is cancelled
    panics          \* channel panics raised so far

callVars == <<pc, callId, written, recvd, result, cancelled>>
chanVars == <<handlers, respChan, closed, panics>>
loopVars == <<loop, hand, sent, rErr, muxDone>>
vars == <<callVars, chanVars, loopVars, streamCounter>>

\* A reply: the call it answers, the id on the wire, its number among the
\* replies to that call, and its parts.
Rpc == [call : Calls, id : Nat, n : Nat, has : SUBSET {"status", "body"}]
NoRpc == [n |-> 0]

Steps == {"start", "alloc", "register", "write", "wait", "unregister",
          "openErr", "open", "readErr", "teardown", "failed", "done"}
Results == {"none", "rErr", "writeErr", "ctxErr", "chanClosed",
            "status", "body", "malformed", "end"}

\* The types of the calls' locals, rm's fields and the channels.
TypeOK ==
    /\ pc \in [Calls -> Steps]
    /\ callId \in [Calls -> Nat]
    /\ streamCounter \in Nat
    /\ DOMAIN handlers \subseteq Nat
    /\ \A i \in DOMAIN handlers : handlers[i] \in Calls
    /\ respChan \in [Calls -> Rpc \cup {NoRpc}]
    /\ closed \subseteq Calls
    /\ cancelled \subseteq Calls
    /\ written \subseteq Calls
    /\ sent \in [Calls -> Nat]
    /\ recvd \in [Calls -> Seq(Rpc)]
    /\ result \in [Calls -> Results]
    /\ loop \in {"read", "handle", "deliver", "closing", "stopped"}
    /\ hand \in Rpc \cup {NoRpc}
    /\ rErr \in {"nil", "err"}
    /\ muxDone \in {"no", "yes"}
    /\ panics \subseteq {"close", "send"}

Init ==
    /\ pc = [c \in Calls |-> "start"]
    /\ callId = [c \in Calls |-> 0]
    /\ streamCounter = 0
    /\ handlers = [i \in {} |-> 0]
    /\ respChan = [c \in Calls |-> NoRpc]
    /\ closed = {}
    /\ cancelled = {}
    /\ written = {}
    /\ sent = [c \in Calls |-> 0]
    /\ recvd = [c \in Calls |-> <<>>]
    /\ result = [c \in Calls |-> "none"]
    /\ loop = "read"
    /\ hand = NoRpc
    /\ rErr = "nil"
    /\ muxDone = "no"
    /\ panics = {}

-----------------------------------------------------------------------------
(* Shared pieces. *)

\* rm.mutex can be taken: only handleResponse holds it from step to step.
Unlocked == loop # "deliver"

Goto(c, step) == pc' = [pc EXCEPT ![c] = step]

\* The function returns (or will, once its deferred calls are done) with res.
Returns(c, step, res) ==
    /\ Goto(c, step)
    /\ result' = [result EXCEPT ![c] = res]

\* Mutant of DropHandlers: closes without deleting the entries.
DropHandlersKeepsEntries(I) ==
    LET J == I \cap DOMAIN handlers
        dropped == {handlers[i] : i \in J}
    IN  /\ closed' = closed \cup dropped
        /\ handlers' = handlers
        /\ panics' = panics \cup
                        (IF dropped \cap closed # {} THEN {"close"} ELSE {})
        /\ UNCHANGED respChan

\* Closes the channels registered under the ids in I and deletes their
\* entries; closing a closed channel panics.
DropHandlers(I) ==
    LET J == I \cap DOMAIN handlers
        dropped == {handlers[i] : i \in J}
    IN  /\ closed' = closed \cup dropped
        /\ handlers' = [i \in DOMAIN handlers \ J |-> handlers[i]]
        /\ panics' = panics \cup
                        (IF dropped \cap closed # {} THEN {"close"} ELSE {})
        /\ UNCHANGED respChan

\* Mutant of unregisterHandler: the entry is left behind on return.
unregisterHandlerLeaks(c) == Unlocked /\ UNCHANGED chanVars

unregisterHandler(c) == Unlocked /\ DropHandlers({callId[c]})

-----------------------------------------------------------------------------
(* Both kinds of call: check for a dead connection, take an id, register,  *)
(* write the first Rpc.                                                    *)

CheckDone(c) ==
    /\ pc[c] = "start"
    /\ Unlocked
    /\ \/ rErr = "nil" /\ Goto(c, "alloc") /\ UNCHANGED result
       \/ rErr # "nil" /\ Returns(c, "done", "rErr")
    /\ UNCHANGED <<callId, written, recvd, cancelled, chanVars, loopVars,
                   streamCounter>>

AllocId(c) ==
    /\ pc[c] = "alloc"
    /\ streamCounter' = streamCounter + 1
    /\ callId' = [callId EXCEPT ![c] = streamCounter + 1]
    /\ Goto(c, "register")
    /\ UNCHANGED <<written, recvd, result, cancelled, chanVars, loopVars>>

registerHandler(c) ==
    /\ pc[c] = "register"
    /\ Unlocked
    /\ handlers' = [i \in DOMAIN handlers \cup {callId[c]} |->
                        IF i = callId[c] THEN c ELSE handlers[i]]
    /\ Goto(c, "write")
    /\ UNCHANGED <<callId, written, recvd, result, cancelled, respChan, closed,
                   panics, loopVars, streamCounter>>

WriteOk(c) ==
    /\ pc[c] = "write"
    /\ written' = written \cup {c}
    /\ Goto(c, IF c \in Unary THEN "wait" ELSE "open")
    /\ UNCHANGED <<callId, recvd, result, cancelled, chanVars, loopVars,
                   streamCounter>>

\* A failed write may have delivered the request.  A stream's Write then
\* looks up rErr before it returns.
WriteFails(c) ==
    /\ pc[c] = "write"
    /\ written' \in {written, written \cup {c}}
    /\ Returns(c, IF c \in Unary THEN "unregister" ELSE "openErr", "writeErr")
    /\ UNCHANGED <<callId, recvd, cancelled, chanVars, loopVars, streamCounter>>

\* The caller's context is done: cancelled, or past its deadline.
Cancel(c) ==
    /\ pc[c] # "done"
    /\ c \notin cancelled
    /\ cancelled' = cancelled \cup {c}
    /\ UNCHANGED <<pc, callId, written, recvd, result, chanVars, loopVars,
                   streamCounter>>

-----------------------------------------------------------------------------
(* CallUnaryMethod's select, and its deferred unregisterHandler. *)

\* Mutant of Outcome: a reply with neither status nor body is a nil result.
OutcomeNil(rpc) ==
    IF "status" \in rpc.has THEN "status"
    ELSE IF "body" \in rpc.has THEN "body" ELSE "nil"

\* A status wins over a body; a reply with neither is malformed.
Outcome(rpc) ==
    IF "status" \in rpc.has THEN "status"
    ELSE IF "body" \in rpc.has THEN "body" ELSE "malformed"

\* Takes the reply in c's channel.
Take(c) ==
    /\ respChan[c] # NoRpc
    /\ recvd' = [recvd EXCEPT ![c] = Append(@, respChan[c])]
    /\ respChan' = [respChan EXCEPT ![c] = NoRpc]
    /\ UNCHANGED <<handlers, closed, panics>>

\* A receive finds the channel closed and drained.
FindsClosed(c) == c \in closed /\ respChan[c] = NoRpc

UnaryReply(c) ==
    /\ pc[c] = "wait"
    /\ Take(c)
    /\ Returns(c, "unregister", Outcome(respChan[c]))
    /\ UNCHANGED <<callId, written, cancelled, loopVars, streamCounter>>

UnaryClosed(c) ==
    /\ pc[c] = "wait"
    /\ FindsClosed(c)
    /\ Returns(c, "unregister", "chanClosed")
    /\ UNCHANGED <<callId, written, recvd, cancelled, chanVars, loopVars,
                   streamCounter>>

UnaryCtxDone(c) ==
    /\ pc[c] = "wait"
    /\ c \in cancelled
    /\ Returns(c, "unregister", "ctxErr")
    /\ UNCHANGED <<callId, written, recvd, cancelled, chanVars, loopVars,
                   streamCounter>>

UnaryReturn(c) ==
    /\ pc[c] = "unregister"
    /\ unregisterHandler(c)
    /\ Goto(c, "done")
    /\ UNCHANGED <<callId, written, recvd, result, cancelled, loopVars,
                   streamCounter>>

-----------------------------------------------------------------------------
(* A stream over NewStreamReadWriter: the client stream reads until an      *)
(* error or the last reply, then calls teardown.                            *)

StreamRead(c) ==
    /\ pc[c] = "open"
    /\ Take(c)
    /\ UNCHANGED <<pc, callId, written, result, cancelled, loopVars,
                   streamCounter>>

\* The stream's Read finds its channel closed; it looks up rErr next.
StreamReadClosed(c) ==
    /\ pc[c] = "open"
    /\ FindsClosed(c)
    /\ Returns(c, "readErr", "chanClosed")
    /\ UNCHANGED <<callId, written, recvd, cancelled, chanVars, loopVars,
                   streamCounter>>

\* The context is done, seen by Read or while the reply is passed on.
StreamCtxDone(c) ==
    /\ pc[c] = "open"
    /\ c \in cancelled
    /\ Returns(c, "teardown", "ctxErr")
    /\ UNCHANGED <<callId, written, recvd, cancelled, chanVars, loopVars,
                   streamCounter>>

\* The reply just read ended the stream.
StreamEnd(c) ==
    /\ pc[c] = "open"
    /\ recvd[c] # <<>>
    /\ Returns(c, "teardown", "end")
    /\ UNCHANGED <<callId, written, recvd, cancelled, chanVars, loopVars,
                   streamCounter>>

\* After a failed open or a closed channel: rErr, if set, replaces the error.
\* newStream returns a failed open without calling teardown.
readErrorIfDone(c) ==
    /\ pc[c] \in {"openErr", "readErr"}
    /\ Unlocked
    /\ Returns(c, IF pc[c] = "openErr" THEN "failed" ELSE "teardown",
                  IF rErr # "nil" THEN "rErr" ELSE result[c])
    /\ UNCHANGED <<callId, written, recvd, cancelled, chanVars, loopVars,
                   streamCounter>>

\* SendMsg cannot marshal or write: it tears down while the reader goes on.
SenderTeardown(c) ==
    /\ pc[c] = "open"
    /\ unregisterHandler(c)
    /\ UNCHANGED <<callVars, loopVars, streamCounter>>

Teardown(c) ==
    /\ pc[c] = "teardown"
    /\ unregisterHandler(c)
    /\ Goto(c, "done")
    /\ UNCHANGED <<callId, written, recvd, result, cancelled, loopVars,
                   streamCounter>>

-----------------------------------------------------------------------------
(* readLoop, handleResponse and closeError. *)

\* Read returns the server's next reply to c: one to a unary call.  What a
\* stream's reply carries is nothing to the multiplexer.
ReadRpc(c) ==
    /\ loop = "read"
    /\ c \in written
    /\ sent[c] < (IF c \in Unary THEN 1 ELSE MaxReplies)
    /\ sent' = [sent EXCEPT ![c] = @ + 1]
    /\ \E has \in IF c \in Unary THEN Shapes ELSE {{"body"}} :
           hand' = [call |-> c, id |-> callId[c], n |-> sent[c] + 1,
                    has |-> has]
    /\ loop' = "handle"
    /\ UNCHANGED <<callVars, chanVars, rErr, muxDone, streamCounter>>

\* handleResponse takes the mutex and looks the id up; unknown ids are
\* dropped, and the mutex released.
LookupHandler ==
    /\ loop = "handle"
    /\ \/ hand.id \in DOMAIN handlers /\ loop' = "deliver" /\ UNCHANGED hand
       \/ hand.id \notin DOMAIN handlers /\ loop' = "read" /\ hand' = NoRpc
    /\ UNCHANGED <<callVars, chanVars, sent, rErr, muxDone, streamCounter>>

\* Mutant of SendTo: drops the reply when the channel is full.
SendToOrDrop(d) ==
    /\ respChan' = IF respChan[d] = NoRpc
                   THEN [respChan EXCEPT ![d] = hand] ELSE respChan
    /\ UNCHANGED panics

\* ch <- rpc on d's channel: blocks while it is full, panics if it is closed.
SendTo(d) ==
    /\ respChan[d] = NoRpc \/ d \in closed
    /\ IF d \in closed
       THEN panics' = panics \cup {"send"} /\ UNCHANGED respChan
       ELSE respChan' = [respChan EXCEPT ![d] = hand] /\ UNCHANGED panics

\* The send of handleResponse, and its deferred Unlock.
Deliver ==
    /\ loop = "deliver"
    /\ SendTo(handlers[hand.id])
    /\ loop' = "read"
    /\ hand' = NoRpc
    /\ UNCHANGED <<callVars, handlers, closed, sent, rErr, muxDone,
                   streamCounter>>

\* Read fails because the connection is gone.
ReadFails ==
    /\ loop = "read"
    /\ loop' = "closing"
    /\ UNCHANGED <<callVars, chanVars, hand, sent, rErr, muxDone, streamCounter>>

\* Read fails because rm.ctx, which it was given, is done.
ReadCancelled == muxDone = "yes" /\ ReadFails

\* Mutant of CloseError: records the error but closes no channel.
CloseErrorSilent ==
    /\ loop = "closing"
    /\ rErr' = "err"
    /\ muxDone' = "yes"
    /\ loop' = "stopped"
    /\ UNCHANGED <<callVars, chanVars, hand, sent, streamCounter>>

\* closeError(err), err # nil.
CloseError ==
    /\ loop = "closing"
    /\ DropHandlers(DOMAIN handlers)
    /\ rErr' = "err"
    /\ muxDone' = "yes"
    /\ loop' = "stopped"
    /\ UNCHANGED <<callVars, hand, sent, streamCounter>>

\* Close(): closeError(nil) only cancels rm.ctx.
Close ==
    /\ Unlocked
    /\ muxDone = "no"
    /\ muxDone' = "yes"
    /\ UNCHANGED <<callVars, chanVars, loop, hand, sent, rErr, streamCounter>>

-----------------------------------------------------------------------------
\* Steps the runtime takes by itself once they are possible.
UnaryProgress(c) ==
    CheckDone(c) \/ AllocId(c) \/ registerHandler(c) \/ WriteOk(c)
        \/ WriteFails(c) \/ UnaryReply(c) \/ UnaryClosed(c) \/ UnaryCtxDone(c)
        \/ UnaryReturn(c)

StreamProgress(c) ==
    CheckDone(c) \/ AllocId(c) \/ registerHandler(c) \/ WriteOk(c)
        \/ WriteFails(c) \/ readErrorIfDone(c) \/ StreamReadClosed(c)
        \/ StreamCtxDone(c) \/ Teardown(c)

LoopProgress ==
    LookupHandler \/ Deliver \/ ReadCancelled \/ CloseError

Next ==
    \/ \E c \in Unary : UnaryProgress(c)
    \/ \E c \in Streams : StreamProgress(c)
    \/ \E c \in Streams : StreamRead(c) \/ StreamEnd(c) \/ SenderTeardown(c)
    \/ \E c \in Calls : Cancel(c) \/ ReadRpc(c)
    \/ LoopProgress \/ ReadFails \/ Close

Spec == Init /\ [][Next]_vars

\* Goroutines that can run do.  Nothing makes the application read a stream,
\* the server reply, the connection fail or a caller give up.
FairSpec ==
    /\ Spec
    /\ \A c \in Unary : WF_vars(UnaryProgress(c))
    /\ \A c \in Streams : WF_vars(StreamProgress(c))
    /\ WF_vars(LoopProgress)

-----------------------------------------------------------------------------
(* Properties. *)

\* No channel is closed twice and none is sent on after it was closed,
\* although unregisterHandler, teardown (called by the sender and the reader
\* of a stream), closeError and handleResponse all race for the same channel.
NoPanic == panics = {}

\* A call only ever takes replies to its own request, in the order the server
\* sent them, and none of them is missing in between, whatever calls share
\* the connection and however replies interleave with registrations.
InOrder ==
    \A c \in Calls : \A i \in 1..Len(recvd[c]) :
        recvd[c][i].call = c /\ recvd[c][i].n = i

InChan(c) == IF respChan[c] = NoRpc THEN 0 ELSE 1
InHand(c) == IF hand # NoRpc /\ hand.call = c THEN 1 ELSE 0

\* As long as a call is registered, every reply the server sent to it is
\* still there: taken, in its channel, or in readLoop's hand.
NothingLost ==
    \A c \in Calls : callId[c] \in DOMAIN handlers =>
        sent[c] = Len(recvd[c]) + InChan(c) + InHand(c)

\* "respChan closed" is reported to a unary caller only after the connection
\* failed: no other call's return or teardown closes its channel.
ClosedMeansFailed ==
    \A c \in Unary : result[c] = "chanClosed" => rErr # "nil"

\* A call that has returned leaves no handler behind, on whichever path it
\* returned; streams whose open failed are the exception (they stay).
HandlersReleased ==
    \A c \in Calls : pc[c] = "done" => callId[c] \notin DOMAIN handlers

\* handleResponse waits, with the mutex, for a full channel to be read.
Stuck == loop = "deliver" /\ respChan[handlers[hand.id]] # NoRpc

\* A registered unary call whose reply is in its channel, whose context is
\* done, or whose connection is failing returns, whatever the read loop and
\* the other calls do, unless a stream that is not read holds up the mutex.
UnaryReturns ==
    \A c \in Unary :
        (/\ pc[c] = "wait" /\ callId[c] \in DOMAIN handlers
         /\ respChan[c] # NoRpc \/ c \in cancelled \/ loop = "closing")
            ~> (pc[c] = "done" \/ Stuck)

\* A teardown closes its stream's channel, also while replies, the sender's
\* teardown and closeError race with it, unless handleResponse is held up for
\* ever, with the mutex, by a stream nobody reads: one whose reader is itself
\* in teardown, or one whose open failed and left its handler behind.
TeardownCompletes ==
    \A c \in Streams :
        [](pc[c] = "teardown" => <>(c \in closed) \/ <>[]Stuck)

\* multiplexer_test.go:176: a unary call that is waiting for its reply when
\* the connection has failed returns.
DisconnectReturns ==
    \A c \in Unary : (loop = "stopped" /\ pc[c] = "wait") ~> pc[c] = "done"
=============================================================================

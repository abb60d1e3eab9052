---------------------------- MODULE ServerHandler ----------------------------
(***************************************************************************)
(* Server.Serve on one connection (handler): the serve loop that reads     *)
(* Rpcs and dispatches them, the pool of unary workers, the goroutine that *)
(* owns writes, one goroutine per open stream, and the shutdown that       *)
(* cancels the streams and waits for them.                                 *)
(*                                                                         *)
(* h.mu guards `streams'.  Its critical sections are one step, except that *)
(* the serve loop keeps it while it pushes an Rpc to a stream and while it *)
(* writes a reset.  writeChan and unaryRpcChan are unbuffered: a send and  *)
(* its receive are one step.  A stream's ch and done have capacity one.    *)
(*                                                                         *)
(* External: the connection, the peer (which may send any Rpc at any time) *)
(* and the application's handlers.                                         *)
(***************************************************************************)
EXTENDS Naturals

CONSTANTS
    Ids,            \* stream ids the peer uses
    Workers,        \* unary workers (numRpcWorkers)
    MaxReads        \* bound: Rpcs the peer sends

ASSUME ReadBound == MaxReads \in Nat

VARIABLES
    serve,          \* where the serve loop is
    msg,            \* the streaming Rpc it is processing
    hctx,           \* h.ctx: live or done
    cctx,           \* clientCtx, the argument of Serve
    streams,        \* ids in h.streams
    ch,             \* number of Rpcs in each stream's ch
    signalled,      \* streams whose done channel holds its token
    sdone,          \* streams whose context is done
    app,            \* where each stream's goroutine is
    worker,         \* where each unary worker is
    writer,         \* where the write goroutine is
    waiting,        \* the stream cancelAndWaitForStreams waits for
    reads,          \* Rpcs the peer has sent
    resetDue        \* streams whose reset the peer has sent, not yet read

loopVars == <<serve, msg, waiting, reads, resetDue>>
ctxVars == <<hctx, cctx>>
streamVars == <<streams, ch, signalled, sdone, app>>
poolVars == <<worker, writer>>
vars == <<loopVars, ctxVars, streamVars, poolVars>>

Kinds == {"open", "badOpen", "body", "trailer", "reset"}
Active == {"run", "send", "trailer", "unregister"}

\* The types of the handler's fields; a stream's ch holds at most one Rpc.
TypeOK ==
    /\ serve \in {"read", "dispatch", "lock", "push", "reset", "exit", "pick",
                  "wait", "returned"}
    /\ msg \in [id : Ids, kind : Kinds] \cup {<<>>}
    /\ hctx \in {"live", "done"} /\ cctx \in {"live", "done"}
    /\ streams \subseteq Ids
    /\ ch \in [Ids -> 0..1]
    /\ signalled \subseteq Ids /\ sdone \subseteq Ids
    /\ app \in [Ids -> Active \cup {"none", "ended"}]
    /\ worker \in [Workers -> {"idle", "run", "reply", "exited"}]
    /\ writer \in {"idle", "write", "exited"}
    /\ waiting \in SUBSET Ids
    /\ reads \in 0..MaxReads
    /\ resetDue \subseteq Ids

Init ==
    /\ serve = "read" /\ msg = <<>>
    /\ hctx = "live" /\ cctx = "live"
    /\ streams = {} /\ ch = [id \in Ids |-> 0] /\ signalled = {} /\ sdone = {}
    /\ app = [id \in Ids |-> "none"]
    /\ worker = [w \in Workers |-> "idle"]
    /\ writer = "idle"
    /\ waiting = {} /\ reads = 0
    /\ resetDue = {}

-----------------------------------------------------------------------------
(* The serve loop. *)

\* h.mu can be taken.
Unlocked == serve \notin {"push", "reset"}

Goto(step) == serve' = step

\* A step of the loop that touches nothing but where it is.
JustGoto(step) ==
    /\ Goto(step)
    /\ UNCHANGED <<msg, waiting, reads, resetDue, ctxVars,
                   streamVars, poolVars>>

ReadFails == serve = "read" /\ JustGoto("exit")
ReadCancelled == hctx = "done" /\ ReadFails

\* An Rpc without a usable header, for another server, or for an unknown
\* service or method is ignored.
ReadIgnored ==
    /\ serve = "read" /\ reads < MaxReads
    /\ reads' = reads + 1
    /\ UNCHANGED <<serve, msg, waiting, resetDue, ctxVars,
                   streamVars, poolVars>>

ReadUnary ==
    /\ serve = "read" /\ reads < MaxReads
    /\ reads' = reads + 1
    /\ Goto("dispatch")
    /\ UNCHANGED <<msg, waiting, resetDue, ctxVars,
                   streamVars, poolVars>>

\* unaryRpcChan <- args, taken by an idle worker.
Dispatch(w) ==
    /\ serve = "dispatch" /\ worker[w] = "idle"
    /\ worker' = [worker EXCEPT ![w] = "run"]
    /\ Goto("read")
    /\ UNCHANGED <<msg, waiting, reads, resetDue, ctxVars,
                   streamVars, writer>>

DispatchCancelled ==
    serve = "dispatch" /\ hctx = "done" /\ JustGoto("exit")

ReadStream(id, kind) ==
    /\ serve = "read" /\ reads < MaxReads
    /\ id \notin resetDue
    /\ reads' = reads + 1
    /\ msg' = [id |-> id, kind |-> kind]
    /\ Goto("lock")
    /\ UNCHANGED <<waiting, resetDue, ctxVars, streamVars,
                   poolVars>>

\* The peer sends a reset; the serve loop will read it in its turn.
PeerResets(id) ==
    /\ reads < MaxReads
    /\ id \notin resetDue
    /\ reads' = reads + 1
    /\ resetDue' = resetDue \cup {id}
    /\ UNCHANGED <<serve, msg, waiting, ctxVars, streamVars,
                   poolVars>>

ReadReset(id) ==
    /\ serve = "read"
    /\ id \in resetDue
    /\ resetDue' = resetDue \ {id}
    /\ msg' = [id |-> id, kind |-> "reset"]
    /\ Goto("lock")
    /\ UNCHANGED <<waiting, reads, ctxVars, streamVars,
                   poolVars>>

-----------------------------------------------------------------------------
(* processStreamingRpc, entered with serve = "lock". *)

\* Mutant of StreamReset: forgets the stream at once.
StreamResetForgets ==
    /\ serve = "lock" /\ msg.kind = "reset"
    /\ sdone' = sdone \cup ({msg.id} \cap streams)
    /\ streams' = streams \ {msg.id}
    /\ Goto("read")
    /\ UNCHANGED <<msg, waiting, reads, resetDue, ctxVars,
                   ch, signalled, app, poolVars>>


\* A reset cancels the stream's context; for an unknown id it is ignored.
StreamReset ==
    /\ serve = "lock" /\ msg.kind = "reset"
    /\ sdone' = sdone \cup ({msg.id} \cap streams)
    /\ Goto("read")
    /\ UNCHANGED <<msg, waiting, reads, resetDue, ctxVars,
                   streams, ch, signalled, app, poolVars>>

\* Any other Rpc of a known stream is pushed to it, with h.mu held.
StreamPush ==
    /\ serve = "lock" /\ msg.kind # "reset" /\ msg.id \in streams
    /\ JustGoto("push")

\* Mutant of PushOk: the capacity of ch is not respected.
PushOkOverflows ==
    /\ serve = "push"
    /\ ch' = [ch EXCEPT ![msg.id] = @ + 1]
    /\ Goto("read")
    /\ UNCHANGED <<msg, waiting, reads, resetDue, ctxVars,
                   streams, signalled, sdone, app, poolVars>>

PushOk ==
    /\ serve = "push" /\ ch[msg.id] = 0
    /\ ch' = [ch EXCEPT ![msg.id] = @ + 1]
    /\ Goto("read")
    /\ UNCHANGED <<msg, waiting, reads, resetDue, ctxVars,
                   streams, signalled, sdone, app, poolVars>>

\* Mutant of PushCancelled: the push watches clientCtx only.
PushCancelledByClient ==
    serve = "push" /\ cctx = "done" /\ JustGoto("exit")

PushCancelled ==
    serve = "push" /\ (cctx = "done" \/ hctx = "done") /\ JustGoto("exit")

\* A trailer for a stream that is not there.
StreamTrailer ==
    /\ serve = "lock" /\ msg.kind = "trailer" /\ msg.id \notin streams
    /\ JustGoto("read")

\* A body, or undecodable headers, for a stream that is not there.
StreamReject ==
    /\ serve = "lock" /\ msg.kind \in {"body", "badOpen"}
    /\ msg.id \notin streams
    /\ JustGoto("reset")

\* resetStream writes to the connection itself, with h.mu held.
ResetOk == serve = "reset" /\ JustGoto("read")
ResetFails == serve = "reset" /\ JustGoto("exit")

\* Mutant of StreamOpen: a stream id keeps its done channel when reused.
StreamOpenKeepsDone ==
    /\ serve = "lock" /\ msg.kind = "open" /\ msg.id \notin streams
    /\ streams' = streams \cup {msg.id}
    /\ ch' = [ch EXCEPT ![msg.id] = 0]
    /\ sdone' = IF cctx = "done" THEN sdone \cup {msg.id}
                                 ELSE sdone \ {msg.id}
    /\ app' = [app EXCEPT ![msg.id] = "run"]
    /\ Goto("read")
    /\ UNCHANGED <<msg, waiting, reads, resetDue, ctxVars, signalled,
                   poolVars>>

\* The first Rpc of a stream: register it, with fresh channels and a context
\* derived from clientCtx, and start its goroutine.
StreamOpen ==
    /\ serve = "lock" /\ msg.kind = "open" /\ msg.id \notin streams
    /\ streams' = streams \cup {msg.id}
    /\ ch' = [ch EXCEPT ![msg.id] = 0]
    /\ signalled' = signalled \ {msg.id}
    /\ sdone' = IF cctx = "done" THEN sdone \cup {msg.id}
                                 ELSE sdone \ {msg.id}
    /\ app' = [app EXCEPT ![msg.id] = "run"]
    /\ Goto("read")
    /\ UNCHANGED <<msg, waiting, reads, resetDue, ctxVars, poolVars>>

-----------------------------------------------------------------------------
(* The end of serve, and cancelAndWaitForStreams. *)

\* serve returns: its deferred calls cancel h.ctx.
ServeExit ==
    /\ serve = "exit"
    /\ hctx' = "done"
    /\ Goto("pick")
    /\ UNCHANGED <<msg, waiting, reads, resetDue, cctx,
                   streamVars, poolVars>>

\* Take any registered stream, cancel it, and wait for its done.
PickStream(id) ==
    /\ serve = "pick" /\ id \in streams
    /\ sdone' = sdone \cup {id}
    /\ waiting' = {id}
    /\ Goto("wait")
    /\ UNCHANGED <<msg, reads, resetDue, ctxVars, streams,
                   ch, signalled, app, poolVars>>

\* Mutant of StreamDone: waits for one stream only.
StreamDoneOnce ==
    /\ serve = "wait" /\ waiting \subseteq signalled
    /\ signalled' = signalled \ waiting
    /\ waiting' = {}
    /\ Goto("returned")
    /\ UNCHANGED <<msg, reads, resetDue, ctxVars, streams,
                   ch, sdone, app, poolVars>>

StreamDone ==
    /\ serve = "wait" /\ waiting \subseteq signalled
    /\ signalled' = signalled \ waiting
    /\ waiting' = {}
    /\ Goto("pick")
    /\ UNCHANGED <<msg, reads, resetDue, ctxVars, streams,
                   ch, sdone, app, poolVars>>

ServeReturns == serve = "pick" /\ streams = {} /\ JustGoto("returned")

-----------------------------------------------------------------------------
(* A stream's goroutine (runStream), over its application handler. *)

AppStep(id, step) ==
    /\ app' = [app EXCEPT ![id] = step]
    /\ UNCHANGED <<streams, ch, signalled, loopVars, ctxVars>>

\* RecvMsg takes an Rpc from ch, or fails because the context is done.
AppRecv(id) ==
    /\ app[id] = "run" /\ ch[id] > 0
    /\ ch' = [ch EXCEPT ![id] = @ - 1]
    /\ UNCHANGED <<streams, signalled, sdone, app, loopVars, ctxVars, poolVars>>

\* SendMsg or SendHeader: hand an Rpc to the write goroutine.
AppSend(id) == app[id] = "run" /\ AppStep(id, "send")
                   /\ UNCHANGED <<sdone, poolVars>>

\* The handler returns; SendTrailer follows.
AppReturn(id) == app[id] = "run" /\ AppStep(id, "trailer")
                     /\ UNCHANGED <<sdone, poolVars>>

\* writerFunc: the write goroutine takes the Rpc, or the context is done.
\* After the trailer, the deferred handler.cancel() ends the context.
SendDone(id) ==
    /\ app[id] = "send"
    /\ AppStep(id, "run")
    /\ UNCHANGED sdone

TrailerDone(id) ==
    /\ app[id] = "trailer"
    /\ AppStep(id, "unregister")
    /\ sdone' = sdone \cup {id}

HandToWriter ==
    /\ writer = "idle"
    /\ writer' = "write"

StreamWrite(id) ==
    (SendDone(id) \/ TrailerDone(id)) /\ HandToWriter /\ UNCHANGED worker

StreamWriteCancelled(id) ==
    id \in sdone /\ (SendDone(id) \/ TrailerDone(id)) /\ UNCHANGED poolVars

unregisterStream(id) ==
    /\ app[id] = "unregister"
    /\ Unlocked
    /\ id \notin signalled
    /\ signalled' = signalled \cup {id}
    /\ streams' = streams \ {id}
    /\ app' = [app EXCEPT ![id] = "ended"]
    /\ UNCHANGED <<ch, sdone, loopVars, ctxVars, poolVars>>

\* The deadline from the stream's GRPC-Timeout header passes.
StreamTimeout(id) ==
    /\ id \in streams /\ id \notin sdone
    /\ sdone' = sdone \cup {id}
    /\ UNCHANGED <<streams, ch, signalled, app, loopVars, ctxVars, poolVars>>

-----------------------------------------------------------------------------
(* Unary workers and the write goroutine. *)

\* processUnaryRpc runs the application's method and builds the reply.
processUnaryRpc(w) ==
    /\ worker[w] = "run"
    /\ worker' = [worker EXCEPT ![w] = "reply"]
    /\ UNCHANGED <<loopVars, ctxVars, streamVars, writer>>

\* h.writeChan <- reply, with no other case.
WorkerReply(w) ==
    /\ worker[w] = "reply"
    /\ worker' = [worker EXCEPT ![w] = "idle"]
    /\ HandToWriter
    /\ UNCHANGED <<loopVars, ctxVars, streamVars>>

WorkerExit(w) ==
    /\ worker[w] = "idle" /\ hctx = "done"
    /\ worker' = [worker EXCEPT ![w] = "exited"]
    /\ UNCHANGED <<loopVars, ctxVars, streamVars, writer>>

\* Mutant of WriteOk: the goroutine returns after its first write.
WriteOkOnce ==
    /\ writer = "write"
    /\ writer' = "exited"
    /\ UNCHANGED <<loopVars, ctxVars, streamVars, worker>>

WriteOk ==
    /\ writer = "write"
    /\ writer' = "idle"
    /\ UNCHANGED <<loopVars, ctxVars, streamVars, worker>>

\* A failed write cancels h.ctx.
WriteFails ==
    /\ writer = "write"
    /\ writer' = "idle"
    /\ hctx' = "done"
    /\ UNCHANGED <<loopVars, cctx, streamVars, worker>>

WriterExit ==
    /\ writer = "idle" /\ hctx = "done"
    /\ writer' = "exited"
    /\ UNCHANGED <<loopVars, ctxVars, streamVars, worker>>

\* Server.Stop cancels the parent of h.ctx.
Stop ==
    /\ hctx = "live"
    /\ hctx' = "done"
    /\ UNCHANGED <<loopVars, cctx, streamVars, poolVars>>

\* The context given to Serve is done, and with it every stream's.
ClientCtxDone ==
    /\ cctx = "live"
    /\ cctx' = "done"
    /\ sdone' = sdone \cup streams
    /\ UNCHANGED <<loopVars, hctx, streams, ch, signalled, app, poolVars>>

-----------------------------------------------------------------------------
ServeProgress ==
    \/ ReadCancelled \/ DispatchCancelled \/ PushOk \/ PushCancelled
    \/ StreamReset \/ StreamPush \/ StreamTrailer \/ StreamReject \/ StreamOpen
    \/ ServeExit \/ StreamDone \/ ServeReturns
    \/ \E w \in Workers : Dispatch(w)
    \/ \E id \in Ids : ReadReset(id) \/ PickStream(id)

ResetWrite == ResetOk \/ ResetFails
Write == WriteOk \/ WriteFails

StreamProgress(id) ==
    StreamWrite(id) \/ StreamWriteCancelled(id) \/ unregisterStream(id)

AppUnary(w) == processUnaryRpc(w)

WorkerProgress(w) == WorkerReply(w) \/ WorkerExit(w)

Next ==
    \/ ServeProgress \/ ResetWrite \/ Write \/ WriterExit
    \/ ReadFails \/ ReadIgnored \/ ReadUnary \/ Stop \/ ClientCtxDone
    \/ \E id \in Ids :
           \/ \E kind \in Kinds \ {"reset"} : ReadStream(id, kind)
           \/ PeerResets(id) \/ StreamTimeout(id)
           \/ AppRecv(id) \/ AppSend(id) \/ AppReturn(id)
           \/ StreamProgress(id)
    \/ \E w \in Workers : AppUnary(w) \/ WorkerProgress(w)

Spec == Init /\ [][Next]_vars

\* Goroutines that can run do.  A write to the connection returns once h.ctx,
\* which it was given, is done, and a stream's handler returns once its
\* context is done; otherwise both may block for ever.
FairSpec ==
    /\ Spec
    /\ WF_vars(ServeProgress) /\ WF_vars(WriterExit)
    /\ WF_vars(hctx = "done" /\ ResetWrite) /\ WF_vars(hctx = "done" /\ Write)
    /\ \A id \in Ids : /\ WF_vars(StreamProgress(id))
                       /\ SF_vars(id \in sdone /\ AppReturn(id))
    /\ \A w \in Workers : WF_vars(WorkerProgress(w))

-----------------------------------------------------------------------------
(* Properties. *)

\* The table of streams and the running goroutines agree, so an id never has
\* two handlers, although resets, deadlines, early returns and reuse of the
\* id race with unregisterStream.
OneHandlerPerId == streams = {id \in Ids : app[id] \in Active}

\* When Serve returns, no stream handler is left running.
ReturnedMeansStopped ==
    serve = "returned" => \A id \in Ids : app[id] \notin Active

\* unregisterStream, which sends on done with h.mu held, never finds it full:
\* neither after the wait for another stream nor when an id is reused.
DoneNeverBlocks ==
    \A id \in Ids : app[id] = "unregister" => id \notin signalled

\* Stop, a failed write and a failed read all make Serve return, from any
\* point: blocked on a full stream, on busy workers, on a write or on a
\* stream that is itself blocked.
StopReturns == (hctx = "done" \/ serve = "exit") ~> serve = "returned"

\* The connection takes every write, unary methods return, and senders on a Go
\* channel are served in turn.
Flowing ==
    /\ WF_vars(Write)
    /\ \A w \in Workers : SF_vars(WorkerReply(w)) /\ WF_vars(AppUnary(w))

\* While replies flow, every unary request that reached a worker is answered,
\* however the streams compete for the write goroutine, unless the connection
\* is being shut down.
UnaryAnswered ==
    Flowing => \A w \in Workers :
                   worker[w] = "run" ~> (worker[w] = "idle" \/ hctx = "done")

=============================================================================

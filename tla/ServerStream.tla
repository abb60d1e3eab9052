---------------------------- MODULE ServerStream ----------------------------
(***************************************************************************)
(* One serverStream as its handler uses it: the handler's goroutine, any   *)
(* goroutines it started (which may outlive it), a goroutine in RecvMsg,   *)
(* and the runStream that calls SendTrailer when the handler returns.      *)
(*                                                                         *)
(* Every method but RecvMsg takes the `protected' lock and keeps it while  *)
(* its Rpc waits to be handed to the write goroutine.  `wire' is what the  *)
(* write goroutine was handed, in that order.  Metadata items are numbers, *)
(* a fresh one for every call; a body is the number of its SendMsg.        *)
(***************************************************************************)
EXTENDS Naturals, Sequences

CONSTANTS
    Main,           \* the handler's goroutine, then runStream
    Helpers,        \* goroutines the handler started
    MaxCalls,       \* bound: calls made by all goroutines
    MaxIn           \* bound: Rpcs pushed to the stream

ASSUME CallBounds == MaxCalls \in Nat /\ MaxIn \in Nat
ASSUME MainIsNotHelper == Main \notin Helpers

VARIABLES
    op,             \* the call each goroutine is in: its name and its item
    at,             \* "idle", "call" (waiting for the lock) or "write"
    rpc,            \* the Rpc the lock's holder is writing
    headers,        \* items in protected.headers
    headersSent,    \* protected.headersSent
    trailers,       \* items in protected.trailers
    trailersSent,   \* protected.trailersSent
    result,         \* what the handler returned: "none" until it has
    ctx,            \* the stream's context: live or done
    wire,           \* Rpcs handed to the write goroutine
    accepted,       \* items whose SetHeader or SendHeader returned nil
    lost,           \* items on a body or a trailer whose write failed
    calls,          \* calls made so far
    ch,             \* Rpcs pushed to the stream and not yet received
    pushed,         \* Rpcs ever pushed
    recv            \* where the goroutine in RecvMsg is, or its last result

goVars == <<op, at, rpc, calls>>
mdVars == <<headers, headersSent, trailers, trailersSent, accepted,
            lost>>
inVars == <<ch, pushed, recv>>
vars == <<goVars, mdVars, inVars, result, ctx, wire>>

Goroutines == {Main} \cup Helpers
Ops == {"SetHeader", "SendHeader", "SetTrailer", "SendMsg"}
Results == {"nil", "status", "okStatus"}    \* okStatus: an error of code OK
Codes == {"none", "OK", "Internal", "status"}
Items == 1..MaxCalls
Incoming == {"body", "trailer"}

Rpc == [kind : {"header", "body", "trailer"}, headers : SUBSET Items,
        item : 0..MaxCalls, code : Codes, trailers : SUBSET Items]
NoRpc == [kind |-> "header", headers |-> {}, item |-> 0, code |-> "none",
          trailers |-> {}]
NoOp == [name |-> "none", item |-> 0]

\* The types of the stream's fields and of what it writes.
TypeOK ==
    /\ op \in [Goroutines -> [name : Ops \cup {"none", "SendTrailer"},
                              item : 0..MaxCalls]]
    /\ at \in [Goroutines -> {"idle", "call", "write"}]
    /\ rpc \in Rpc
    /\ headers \subseteq Items /\ trailers \subseteq Items
    /\ headersSent \in BOOLEAN /\ trailersSent \in BOOLEAN
    /\ result \in Results \cup {"none"}
    /\ ctx \in {"live", "done"}
    /\ wire \in Seq(Rpc)
    /\ accepted \subseteq Items /\ lost \subseteq Items
    /\ calls \in 0..MaxCalls
    /\ ch \in Seq(Incoming) /\ Len(ch) <= 1
    /\ pushed \in 0..MaxIn
    /\ recv \in {"wait", "nil", "err"}

Init ==
    /\ op = [g \in Goroutines |-> NoOp]
    /\ at = [g \in Goroutines |-> "idle"]
    /\ rpc = NoRpc
    /\ headers = {} /\ headersSent = FALSE
    /\ trailers = {} /\ trailersSent = FALSE
    /\ result = "none" /\ ctx = "live"
    /\ wire = <<>> /\ accepted = {} /\ lost = {} /\ calls = 0
    /\ ch = <<>> /\ pushed = 0 /\ recv = "nil"

-----------------------------------------------------------------------------
(* The application's calls, and the handler's return. *)

\* protected can be taken.
Unlocked == \A g \in Goroutines : at[g] # "write"

Call(g, name) ==
    /\ at[g] = "idle" /\ calls < MaxCalls
    /\ g = Main => result = "none"
    /\ calls' = calls + 1
    /\ op' = [op EXCEPT ![g] = [name |-> name, item |-> calls + 1]]
    /\ at' = [at EXCEPT ![g] = "call"]
    /\ UNCHANGED <<rpc, mdVars, inVars, result, ctx, wire>>

\* The handler returns r; runStream calls SendTrailer(r).
HandlerReturns(r) ==
    /\ at[Main] = "idle" /\ result = "none"
    /\ result' = r
    /\ op' = [op EXCEPT ![Main] = [name |-> "SendTrailer", item |-> 0]]
    /\ at' = [at EXCEPT ![Main] = "call"]
    /\ UNCHANGED <<rpc, calls, mdVars, inVars, ctx, wire>>

\* The call's critical section begins.
Locked(g, name) == at[g] = "call" /\ op[g].name = name /\ Unlocked

Returns(g) ==
    /\ at' = [at EXCEPT ![g] = "idle"]
    /\ op' = [op EXCEPT ![g] = NoOp]

Writes(g, r) ==
    /\ at' = [at EXCEPT ![g] = "write"]
    /\ rpc' = r

-----------------------------------------------------------------------------
(* serverStream's methods, up to their write. *)

setHeader(g) ==
    /\ ~headersSent
    /\ \/ Locked(g, "SetHeader") /\ Returns(g)
          /\ accepted' = accepted \cup {op[g].item} /\ UNCHANGED rpc
       \/ Locked(g, "SendHeader") /\ UNCHANGED <<op, accepted>>
          /\ Writes(g, [NoRpc EXCEPT !.headers = headers \cup {op[g].item},
                                     !.item = op[g].item])
    /\ headers' = headers \cup {op[g].item}
    /\ UNCHANGED <<calls, headersSent, trailers, trailersSent, lost, inVars,
                   result, ctx, wire>>

\* "headers already sent", "stream closed for writing".
Refused(g) ==
    /\ \/ headersSent /\ (Locked(g, "SetHeader") \/ Locked(g, "SendHeader"))
       \/ trailersSent /\ (Locked(g, "SetTrailer") \/ Locked(g, "SendTrailer"))
    /\ Returns(g)
    /\ UNCHANGED <<rpc, calls, mdVars, inVars, result, ctx, wire>>

SetTrailer(g) ==
    /\ Locked(g, "SetTrailer") /\ ~trailersSent
    /\ trailers' = trailers \cup {op[g].item}
    /\ Returns(g)
    /\ UNCHANGED <<rpc, calls, headers, headersSent, trailersSent, accepted,
                   lost, inVars, result, ctx, wire>>

\* What the first Rpc with a body or a trailer carries.
PendingHeaders == IF headersSent THEN {} ELSE headers

\* Marks the headers as sent before the write, and trailersSent is not looked
\* at.  A message that cannot be marshalled is refused and changes nothing.
SendMsg(g) ==
    /\ Locked(g, "SendMsg")
    /\ \/ /\ Writes(g, [NoRpc EXCEPT !.kind = "body", !.item = op[g].item,
                                     !.headers = PendingHeaders])
          /\ headersSent' = TRUE
          /\ UNCHANGED op
       \/ Returns(g) /\ UNCHANGED <<rpc, headersSent>>
    /\ UNCHANGED <<calls, headers, trailers, trailersSent, accepted, lost,
                   inVars, result, ctx, wire>>

\* The status of the trailer: an error never has code OK.
trailerCode(r) ==
    CASE r = "nil" -> "OK" [] r = "status" -> "status"
      [] r = "okStatus" -> "Internal"

\* Mutant of SendTrailer: pending headers are not sent with it.
SendTrailerBare(g) ==
    /\ Locked(g, "SendTrailer") /\ ~trailersSent
    /\ trailersSent' = TRUE
    /\ Writes(g, [NoRpc EXCEPT !.kind = "trailer", !.code = trailerCode(result),
                               !.trailers = trailers])
    /\ UNCHANGED <<op, calls, headers, headersSent, trailers, accepted, lost,
                   inVars, result, ctx, wire>>

SendTrailer(g) ==
    /\ Locked(g, "SendTrailer") /\ ~trailersSent
    /\ trailersSent' = TRUE /\ headersSent' = TRUE
    /\ Writes(g, [NoRpc EXCEPT !.kind = "trailer", !.code = trailerCode(result),
                               !.trailers = trailers,
                               !.headers = PendingHeaders])
    /\ UNCHANGED <<op, calls, headers, trailers, accepted, lost, inVars, result,
                   ctx, wire>>

-----------------------------------------------------------------------------
(* ss.rw.Write (runStream's writerFunc), and the return that releases the  *)
(* lock.                                                                   *)

WriteOk(g) ==
    /\ at[g] = "write"
    /\ wire' = Append(wire, rpc)
    /\ headersSent' = (headersSent \/ rpc.kind = "header")
    /\ accepted' = IF rpc.kind = "header" THEN accepted \cup {rpc.item}
                                          ELSE accepted
    /\ Returns(g)
    /\ UNCHANGED <<rpc, calls, headers, trailers, trailersSent, lost, inVars,
                   result, ctx>>

\* Headers of a failed SendHeader stay pending, others are gone.
WriteCtx(g) ==
    /\ at[g] = "write" /\ ctx = "done"
    /\ Returns(g)
    /\ lost' = IF rpc.kind = "header" THEN lost ELSE lost \cup rpc.headers
    /\ UNCHANGED <<rpc, calls, headers, headersSent, trailers, trailersSent,
                   accepted, inVars, result, ctx, wire>>

\* The deferred handler.cancel(), after SendTrailer, whatever it returned.
HandlerCancel ==
    /\ result # "none" /\ at[Main] = "idle"
    /\ ctx = "live"
    /\ ctx' = "done"
    /\ UNCHANGED <<goVars, mdVars, inVars, result, wire>>

\* A reset, a deadline, or the end of the connection.
CtxDone ==
    /\ ctx = "live"
    /\ ctx' = "done"
    /\ UNCHANGED <<goVars, mdVars, inVars, result, wire>>

-----------------------------------------------------------------------------
(* RecvMsg, which does not take the lock. *)

\* The serve loop pushes an Rpc of the client.
Push(r) ==
    /\ pushed < MaxIn /\ ch = <<>>
    /\ ch' = <<r>>
    /\ pushed' = pushed + 1
    /\ UNCHANGED <<recv, goVars, mdVars, result, ctx, wire>>

RecvCall ==
    /\ recv # "wait"
    /\ recv' = "wait"
    /\ UNCHANGED <<ch, pushed, goVars, mdVars, result, ctx, wire>>

\* Mutant of RecvMsg: it takes the lock that a blocked SendMsg holds.
RecvMsgLocks ==
    /\ recv = "wait" /\ Unlocked
    /\ \/ /\ ch # <<>>
          /\ recv' = "nil"
          /\ ch' = Tail(ch)
       \/ ctx = "done" /\ recv' = "err" /\ UNCHANGED ch
    /\ UNCHANGED <<pushed, goVars, mdVars, result, ctx, wire>>

\* A trailer is io.EOF or, with a status that is not OK, that status.
RecvMsg ==
    /\ recv = "wait"
    /\ \/ /\ ch # <<>>
          /\ recv' = IF Head(ch) = "body" THEN "nil" ELSE "err"
          /\ ch' = Tail(ch)
       \/ ctx = "done" /\ recv' = "err" /\ UNCHANGED ch
    /\ UNCHANGED <<pushed, goVars, mdVars, result, ctx, wire>>

-----------------------------------------------------------------------------
Method(g) ==
    setHeader(g) \/ Refused(g) \/ SetTrailer(g) \/ SendMsg(g) \/ SendTrailer(g)

Next ==
    \/ \E g \in Goroutines :
           \/ \E name \in Ops : Call(g, name)
           \/ Method(g) \/ WriteOk(g) \/ WriteCtx(g)
    \/ \E r \in Results : HandlerReturns(r)
    \/ \E r \in Incoming : Push(r)
    \/ RecvCall \/ RecvMsg \/ HandlerCancel \/ CtxDone

Spec == Init /\ [][Next]_vars

\* A mutex is given to each of those who wait for it, a write ends once the
\* context is done, and runStream's defers run.  Nothing else is assumed of
\* the write goroutine.
FairSpec ==
    /\ Spec
    /\ WF_vars(RecvMsg) /\ WF_vars(HandlerCancel)
    /\ \A g \in Goroutines : SF_vars(Method(g)) /\ WF_vars(WriteCtx(g))

-----------------------------------------------------------------------------
(* Properties. *)

Trailers == {i \in DOMAIN wire : wire[i].kind = "trailer"}

\* The header items a handler was told were accepted reach the client, all of
\* them, on the first Rpc it sees, be it a header, a body or the trailer,
\* although setHeader, SendMsg and SendTrailer of several goroutines race and
\* each may be the one that sends them.  Only those on a body or a trailer
\* whose write failed are lost.
HeadersOnFirst ==
    wire # <<>> => accepted \subseteq wire[1].headers \cup lost

\* Headers are never sent twice: no Rpc but one carries an item, and a lone
\* header Rpc is only ever the first.
HeadersOnce ==
    /\ \A i, j \in DOMAIN wire :
           wire[i].headers # {} /\ wire[j].headers # {} => i = j
    /\ \A i \in DOMAIN wire : wire[i].kind = "header" => i = 1

\* There is one trailer at most, with all the metadata SetTrailer ever took,
\* and no headers come after it, whatever the goroutines that outlive the
\* handler call.
OneTrailer ==
    \A i \in Trailers :
        /\ result # "none"
        /\ wire[i].trailers = trailers
        /\ \A j \in DOMAIN wire : j > i => wire[j].kind = "body"

\* A handler that failed is never reported as OK, not even when its error
\* claims the code OK.
FailureReported ==
    \A i \in Trailers : wire[i].code = "OK" <=> result = "nil"

\* What a client sees of a stream is well formed: the headers first and once,
\* one trailer, its code true to what the handler returned.
RepliesWellFormed ==
    HeadersOnFirst /\ HeadersOnce /\ OneTrailer /\ FailureReported

\* SendTrailer's doc: "On completion, the stream is considered closed for
\* writing".  So no Rpc follows the trailer.  One can, from a goroutine that
\* outlives the handler: SendMsg does not look at trailersSent.
NothingAfterTrailer == \A i \in Trailers : i = Len(wire)

\* RecvMsg gets the client's Rpcs while a SendMsg of another goroutine is
\* blocked for ever in its write: only so can a bidirectional stream flow.
RecvWhileSending == (recv = "wait" /\ ch # <<>>) ~> recv # "wait"

\* Once the context is done, or the handler has returned and SendTrailer with
\* it, every call returns: nobody is left holding the lock in a write, or
\* waiting for it, not even a goroutine that outlives its handler.
CallsEnd ==
    \A g \in Goroutines :
        (/\ ctx = "done" \/ (result # "none" /\ at[Main] = "idle")
         /\ at[g] # "idle") ~> at[g] = "idle"

\* No call of a stream waits for ever on another one's lock or write.
CallsReturn == RecvWhileSending /\ CallsEnd
=============================================================================

-------------------------- MODULE ConnectionProofs --------------------------
(***************************************************************************)
(* Connection, for any number of bodies, sends and faults: the types, that *)
(* the two ends of a stream and everything between them implement          *)
(* StreamSpec, and that neither end waits for what the other knows.        *)
(*                                                                         *)
(* The client is ClientStream, so what ClientStreamProofs shows of its     *)
(* steps is cited here and not shown again.                                *)
(***************************************************************************)
EXTENDS Connection, TLAPS

Stream == INSTANCE ClientStreamProofs

Requests == [kind : {"open", "body", "trailer", "reset"}, body : Nat]
Kinds == {"cancel", "break", "timeout"}

\* The types of the wires and of the server; the client's are ClientStream's.
WireTypes ==
    /\ up \in Seq(Requests) /\ down \in Seq(Stream!Rpc)
    /\ conn \in {"live", "broken", "stopped"}
    /\ asked \in Nat /\ closed \in {"no", "yes"} /\ faults \subseteq Kinds
    /\ serve \in {"read", "push", "exit"}
    /\ cur \in Seq(Requests) /\ ch \in Seq(Requests)
    /\ app \in {"none", "run", "send", "trailer", "unregister", "ended"}
    /\ sctx \in {"live", "done"}
    /\ out \in Seq(Stream!Rpc)
    /\ heard \in Seq(Nat)
    /\ eof \in {"no", "yes"} /\ refused \in {"no", "yes"}

TypeOK == Stream!TypeOK /\ WireTypes

ClientOK == Stream!LockOK /\ Stream!ResetOK

-----------------------------------------------------------------------------
(* Queues of numbered bodies, with other Rpcs between them. *)

\* The bodies in q are lo + 1, ..., hi, in this order.
Run(q, lo, hi) ==
    /\ \A i, j \in DOMAIN q :
           i < j /\ q[i].body # 0 /\ q[j].body # 0 => q[i].body < q[j].body
    /\ \A i \in DOMAIN q :
           q[i].body # 0 => lo < q[i].body /\ q[i].body <= hi
    /\ \A n \in Nat :
           lo < n /\ n <= hi => \E i \in DOMAIN q : q[i].body = n

\* Bodies in a queue of one place.
Held(q) == IF q # <<>> /\ q[1].body # 0 THEN 1 ELSE 0

-----------------------------------------------------------------------------
(* The invariant. *)

HasEnded == app \in {"unregister", "ended"}

\* The handler's life, the opening Rpc and the queues of one place.
ServerOK ==
    /\ ended = "open" <=> app \in {"none", "run", "send"}
    /\ ended # "none"
    /\ app = "send" => sent < MaxBodies
    /\ app = "none" => up # <<>> /\ up[1].kind = "open"
    /\ \A i \in DOMAIN up : up[i].kind = "open" => i = 1 /\ app = "none"
    /\ cur = <<>> <=> serve # "push"
    /\ Len(cur) <= 1 /\ Len(ch) <= 1
    /\ \/ out = <<>>
       \/ out = <<Reply(sent)>> /\ sent # 0
       \/ out = <<Last(ended)>> /\ HasEnded

\* Bodies that have reached the server's queues or its handler.
Arrived == Len(heard) + Held(ch) + Held(cur)

\* What the client wrote: nothing but resets follows its trailer.
WrittenOK ==
    /\ send \in {"marshal", "write", "closeSend"} => closed = "no"
    /\ \A i \in DOMAIN up : up[i].kind = "body" <=> up[i].body # 0
    /\ \A i \in DOMAIN up : up[i].kind = "trailer" =>
           closed = "yes" /\ \A j \in DOMAIN up : j > i => up[j].body = 0
    /\ \A q \in {cur, ch} :
           q # <<>> => /\ q[1].kind \in {"body", "trailer"}
                       /\ q[1].kind = "body" <=> q[1].body # 0
                       /\ q[1].kind = "trailer" => closed = "yes"

\* The bodies on the wire are those that did not arrive; some are lost only
\* once the handler has returned or the serve loop has ended.
RequestsOK ==
    \E lo \in Nat :
        /\ Run(up, lo, asked) /\ Len(heard) <= lo /\ lo <= asked
        /\ ended = "open" => Arrived <= lo
        /\ ended = "open" /\ serve # "exit" => lo = Arrived

\* While the handler runs its queues hold the next bodies, or the end.
QueuesOK ==
    ended = "open" =>
        /\ Held(ch) = 1 => ch[1].body = Len(heard) + 1
        /\ Held(cur) = 1 => cur[1].body = Arrived
        /\ cur # <<>> /\ cur[1].kind = "trailer" => Arrived = asked
        /\ ch # <<>> /\ ch[1].kind = "trailer" => Len(heard) = asked
        /\ eof = "yes" => closed = "yes" /\ Len(heard) = asked

UpOK == WrittenOK /\ RequestsOK /\ QueuesOK

\* What an Rpc of the server can be: a body, its handler's status, or a
\* refusal.
Genuine(r) ==
    /\ r.hdr = "good"
    /\ r.trailer = "yes" <=> r.body = 0
    /\ r.status # "none" => r.trailer = "yes" /\ r.status = ended
    /\ r.trailer = "yes" => HasEnded
    /\ r.trailer = "yes" /\ r.status = "none" => refused = "yes"

Handling == loop \in {"header", "check"}

\* Bodies that readLoop and its channel hold.
LoopBody == IF loop \in {"header", "check", "push"} /\ rpc.body # 0
            THEN 1 ELSE 0
SlotBody == IF \E r \in slot : r.body # 0 THEN 1 ELSE 0
Received == Len(got) + LoopBody + SlotBody
Final(r) == r.status # "none"

\* Replies are what the server sent.
RepliesOK ==
    /\ rpc.hdr = "good"
    /\ \A i \in DOMAIN down : Genuine(down[i])
    /\ \A r \in slot : Genuine(r)
    /\ \A r, q \in slot : r = q
    /\ Handling => Genuine(rpc)
    /\ loop = "push" => rpc.body # 0 /\ rpc.trailer = "no"
    /\ loopTrailer = "set" => HasEnded

\* After the handler's status there are no bodies.
LastOK ==
    \A i \in DOMAIN down : Final(down[i]) =>
        out = <<>> /\ \A j \in DOMAIN down : j > i => down[j].body = 0

\* While readLoop reads, it holds the next body, and the stream's channel the
\* one after; or the handler's status, when nothing is missing.
ReceivedOK ==
    Stream!Reading =>
        /\ Received <= sent
        /\ LoopBody = 1 => rpc.body = Len(got) + 1
        /\ \A r \in slot : r.body # 0 =>
               r.body = Len(got) + LoopBody + 1
        /\ \A r \in slot : Final(r) => Len(got) + LoopBody = sent
        /\ Handling /\ Final(rpc) => Len(got) = sent

\* The bodies on the wire follow those received, and none is missing if the
\* connection is live, or if it was when the handler's status was written.
Whole == conn = "live" \/ \E i \in DOMAIN down : Final(down[i])

WireOK ==
    Stream!Reading /\ torn = "no" =>
        \E hi \in Nat :
            /\ Run(down, Received, hi) /\ Received <= hi
            /\ hi + Held(out) <= sent
            /\ Whole => hi + Held(out) = sent

DownOK == LastOK /\ ReceivedOK /\ WireOK

\* An error that RecvMsg may report comes from the last Rpc: the reset of a
\* stream on which a body was refused, or the handler's result with nothing
\* missing before it.
Truthful(err) ==
    /\ err = "EOF" =>
           \/ rpc.status = "none" /\ refused = "yes"
           \/ rpc.status # "none" /\ ended = "OK" /\ Len(got) = sent
    /\ err = "status" =>
           rpc.status # "none" /\ ended = "Err" /\ Len(got) = sent

VerdictOK ==
    /\ Truthful(loopErr)
    /\ loopErr \in {"EOF", "status"} => loopTrailer = "set"
    /\ rErr = IF done = "yes" THEN loopErr ELSE "nil"
    /\ recvErr \in {"EOF", "status"} =>
           recv = "idle" /\ done = "yes" /\ recvErr = rErr

\* What ends the client's side without a trailer.
TornOK ==
    /\ torn = "yes" => \/ conn # "live" \/ sendErr = "yes"
                       \/ loop \in {"cancel", "publish", "exit"}
    /\ loop = "lock" /\ loopTrailer = "nil" => ctx = "done" \/ torn = "yes"
    /\ loop \in {"rst", "unregister", "cancel", "publish", "exit"}
           /\ loopTrailer = "nil" /\ conn = "live" /\ sendErr = "no"
           => sendRst = "yes"

\* What ends the handler's context before its trailer is sent.
CancelledOK ==
    /\ \A i \in DOMAIN up : up[i].kind = "reset" => rst # 0
    /\ rst # 0 => \/ \E i \in DOMAIN up : up[i].kind = "reset"
                  \/ sctx = "done" \/ app = "ended"
    /\ sctx = "done" /\ ~HasEnded =>
           "timeout" \in faults \/ conn # "live" \/ rst # 0

\* A trailer is on its way to readLoop.
Trailing ==
    \/ out # <<>> /\ out[1].trailer = "yes"
    \/ \E i \in DOMAIN down : down[i].trailer = "yes"
    \/ \E r \in slot : r.trailer = "yes"
    \/ Handling /\ rpc.trailer = "yes"

TrailingOK ==
    HasEnded /\ Stream!Reading /\ torn = "no" /\ conn = "live" =>
        "timeout" \in faults \/ Trailing

EndsOK == TornOK /\ CancelledOK /\ TrailingOK

IInv ==
    /\ TypeOK /\ ClientOK /\ ServerOK /\ UpOK /\ RepliesOK /\ DownOK
    /\ VerdictOK /\ EndsOK

-----------------------------------------------------------------------------
(* Queues. *)

\* Sequences after an Append, by index.
LEMMA AppendFacts ==
    ASSUME NEW S, NEW q \in Seq(S), NEW r \in S
    PROVE  /\ Append(q, r) \in Seq(S) /\ Append(q, r) # <<>>
           /\ Len(q) \in Nat /\ DOMAIN q = 1..Len(q)
           /\ DOMAIN Append(q, r) = 1..(Len(q) + 1)
           /\ Append(q, r)[Len(q) + 1] = r
           /\ \A i \in DOMAIN q : Append(q, r)[i] = q[i]
  OBVIOUS

\* An element after an Append is an old one or the new one.
LEMMA AppendEach ==
    ASSUME NEW S, NEW q \in Seq(S), NEW r \in S,
           NEW i \in DOMAIN Append(q, r)
    PROVE  \/ i \in DOMAIN q /\ Append(q, r)[i] = q[i]
           \/ i = Len(q) + 1 /\ Append(q, r)[i] = r
  OBVIOUS

\* Sequences without their head, by index.
LEMMA TailFacts ==
    ASSUME NEW S, NEW q \in Seq(S), q # <<>>
    PROVE  /\ Tail(q) \in Seq(S) /\ Head(q) = q[1] /\ q[1] \in S
           /\ Len(q) \in Nat \ {0} /\ DOMAIN q = 1..Len(q) /\ 1 \in DOMAIN q
           /\ DOMAIN Tail(q) = 1..(Len(q) - 1)
           /\ \A i \in DOMAIN Tail(q) : i + 1 \in DOMAIN q /\ Tail(q)[i] = q[i + 1]
           /\ \A i \in DOMAIN q : i # 1 =>
                  i - 1 \in DOMAIN Tail(q) /\ Tail(q)[i - 1] = q[i]
  OBVIOUS

\* What is appended without a body leaves the bodies as they are, and the next
\* body extends them by one.
LEMMA RunAppend ==
    ASSUME NEW S, \A r \in S : r.body \in Nat, NEW q \in Seq(S), NEW r \in S,
           NEW lo \in Nat, NEW hi \in Nat, lo <= hi, Run(q, lo, hi)
    PROVE  /\ r.body = 0 => Run(Append(q, r), lo, hi)
           /\ r.body = hi + 1 => Run(Append(q, r), lo, hi + 1)
<1> DEFINE p == Append(q, r)
<1>1. /\ Len(q) \in Nat /\ DOMAIN q = 1..Len(q) /\ DOMAIN p = 1..(Len(q) + 1)
      /\ p[Len(q) + 1] = r /\ \A i \in DOMAIN q : p[i] = q[i] /\ q[i] \in S
  BY AppendFacts
<1> HIDE DEF p
<1>2. CASE r.body = 0
  <2>1. \A i \in DOMAIN p : p[i].body # 0 => i \in DOMAIN q
    BY <1>1, <1>2
  <2>2. \A i \in DOMAIN q : i \in DOMAIN p /\ p[i].body = q[i].body
    BY <1>1
  <2>3. Run(p, lo, hi)
    BY <2>1, <2>2 DEF Run
  <2>4. QED
    BY <1>2, <2>3 DEF p
<1>3. CASE r.body = hi + 1
  <2>1. \A i \in DOMAIN p : i \in DOMAIN q \/ i = Len(q) + 1
    BY <1>1
  <2>2. \A i \in DOMAIN q : /\ i \in DOMAIN p /\ p[i].body = q[i].body
                            /\ p[i].body \in Nat /\ i < Len(q) + 1
    BY <1>1
  <2>3. Len(q) + 1 \in DOMAIN p /\ p[Len(q) + 1].body = hi + 1
    BY <1>1, <1>3
  <2>4. ASSUME NEW i \in DOMAIN p, NEW j \in DOMAIN p, i < j,
               p[i].body # 0, p[j].body # 0
        PROVE  p[i].body < p[j].body
    <3>1. i \in DOMAIN q
      BY <1>1, <2>4
    <3>2. CASE j \in DOMAIN q
      BY <2>2, <2>4, <3>1, <3>2 DEF Run
    <3>3. CASE j = Len(q) + 1
      BY <2>2, <2>3, <2>4, <3>1, <3>3 DEF Run
    <3>4. QED
      BY <2>1, <3>2, <3>3
  <2>5. ASSUME NEW i \in DOMAIN p, p[i].body # 0
        PROVE  lo < p[i].body /\ p[i].body <= hi + 1
    BY <2>1, <2>2, <2>3, <2>5 DEF Run
  <2>6. ASSUME NEW n \in Nat, lo < n, n <= hi + 1
        PROVE  \E i \in DOMAIN p : p[i].body = n
    <3>1. CASE n = hi + 1
      BY <2>3, <3>1
    <3>2. CASE n <= hi
      <4>1. PICK i \in DOMAIN q : q[i].body = n
        BY <2>6, <3>2 DEF Run
      <4>2. QED
        BY <2>2, <4>1
    <3>3. QED
      BY <2>6, <3>1, <3>2
  <2>7. Run(p, lo, hi + 1)
    BY <2>4, <2>5, <2>6 DEF Run
  <2>8. QED
    BY <1>3, <2>7 DEF p
<1>4. QED
  BY <1>2, <1>3 DEF p

\* The first body to leave is the first of them.
LEMMA RunTail ==
    ASSUME NEW S, \A r \in S : r.body \in Nat, NEW q \in Seq(S), q # <<>>,
           NEW lo \in Nat, NEW hi \in Nat, Run(q, lo, hi)
    PROVE  /\ q[1].body = 0 => Run(Tail(q), lo, hi)
           /\ q[1].body # 0 => /\ q[1].body = lo + 1 /\ lo + 1 <= hi
                               /\ Run(Tail(q), lo + 1, hi)
<1> DEFINE p == Tail(q)
<1>1. /\ q[1] \in S /\ Len(q) \in Nat \ {0} /\ DOMAIN q = 1..Len(q)
      /\ 1 \in DOMAIN q /\ DOMAIN p = 1..(Len(q) - 1)
      /\ \A i \in DOMAIN p : i + 1 \in DOMAIN q /\ p[i] = q[i + 1]
      /\ \A i \in DOMAIN q : i # 1 => i - 1 \in DOMAIN p /\ p[i - 1] = q[i]
      /\ \A i \in DOMAIN q : q[i] \in S
  BY TailFacts
<1> HIDE DEF p
<1>2. ASSUME NEW i \in DOMAIN p, NEW j \in DOMAIN p, i < j,
             p[i].body # 0, p[j].body # 0
      PROVE  p[i].body < p[j].body
  <2>1. i + 1 < j + 1
    BY <1>1, <1>2
  <2>2. QED
    BY <1>1, <1>2, <2>1 DEF Run
<1>3. CASE q[1].body = 0
  <2>1. ASSUME NEW n \in Nat, lo < n, n <= hi
        PROVE  \E i \in DOMAIN p : p[i].body = n
    <3>1. PICK i \in DOMAIN q : q[i].body = n
      BY <2>1 DEF Run
    <3>2. i # 1
      BY <1>3, <2>1, <3>1
    <3>3. QED
      BY <1>1, <3>1, <3>2
  <2>2. Run(p, lo, hi)
    BY <1>1, <1>2, <2>1 DEF Run
  <2>3. QED
    BY <1>3, <2>2 DEF p
<1>4. CASE q[1].body # 0
  <2>1. lo < q[1].body /\ q[1].body <= hi /\ q[1].body \in Nat
    BY <1>1, <1>4 DEF Run
  <2>2. PICK k \in DOMAIN q : q[k].body = lo + 1
    BY <2>1 DEF Run
  <2>3. q[1].body = lo + 1
    <3>1. CASE k = 1
      BY <2>2, <3>1
    <3>2. CASE k # 1
      <4>1. 1 < k
        BY <1>1, <3>2
      <4>2. q[k].body # 0
        BY <2>2
      <4>3. q[1].body < q[k].body
        BY <1>1, <1>4, <4>1, <4>2 DEF Run
      <4>4. QED
        BY <2>1, <2>2, <4>3
    <3>3. QED
      BY <3>1, <3>2
  <2>4. ASSUME NEW i \in DOMAIN p, p[i].body # 0
        PROVE  lo + 1 < p[i].body /\ p[i].body <= hi
    <3>1. i + 1 \in DOMAIN q /\ p[i] = q[i + 1] /\ 1 < i + 1
      BY <1>1
    <3>2. QED
      BY <1>1, <1>4, <2>3, <2>4, <3>1 DEF Run
  <2>5. ASSUME NEW n \in Nat, lo + 1 < n, n <= hi
        PROVE  \E i \in DOMAIN p : p[i].body = n
    <3>1. PICK i \in DOMAIN q : q[i].body = n
      BY <2>5 DEF Run
    <3>2. i # 1
      BY <2>3, <2>5, <3>1
    <3>3. QED
      BY <1>1, <3>1, <3>2
  <2>6. Run(p, lo + 1, hi)
    BY <1>2, <2>4, <2>5 DEF Run
  <2>7. QED
    BY <1>4, <2>1, <2>3, <2>6 DEF p
<1>5. QED
  BY <1>3, <1>4 DEF p

\* A run without bodies is empty.
LEMMA RunEmpty ==
    ASSUME NEW q, NEW lo \in Nat, NEW hi \in Nat, Run(q, lo, hi), lo <= hi,
           \A i \in DOMAIN q : q[i].body = 0
    PROVE  lo = hi
<1>1. SUFFICES ASSUME lo < hi PROVE FALSE
  OBVIOUS
<1>2. \E i \in DOMAIN q : q[i].body = lo + 1
  BY <1>1 DEF Run
<1>3. QED
  BY <1>2

-----------------------------------------------------------------------------
(* The client's steps are those of ClientStream. *)

ClientActs ==
    \/ ClientLoop \/ ClientReset \/ ClientRecvCall \/ ClientRecv
    \/ ClientSendStep \/ ClientTeardown \/ ClientWrite \/ ClientCloseSend
    \/ UserCancel \/ ClientDisconnected

\* Whatever the client does here is a step that ClientStream takes.
LEMMA ClientIsStream == ClientActs => Stream!Next
<1> USE DEF Client!loopVars, Stream!loopVars, Client!ctxVars, Stream!ctxVars,
   Client!netVars, Stream!netVars, Client!recvVars, Stream!recvVars,
   Client!sendVars, Stream!sendVars
<1>1. Client!LoopRead => Stream!LoopRead
  BY DEF Client!LoopRead, Stream!LoopRead
<1>2. Client!LoopReadCtx => Stream!LoopReadCtx
  BY DEF Client!LoopReadCtx, Stream!LoopReadCtx, Client!LoopReadErr,
     Stream!LoopReadErr, Client!onReady, Stream!onReady, Client!Unlocked,
     Stream!Unlocked
<1>3. Client!LoopReadClosed => Stream!LoopReadClosed
  BY DEF Client!LoopReadClosed, Stream!LoopReadClosed, Client!LoopReadErr,
     Stream!LoopReadErr, Client!onReady, Stream!onReady, Client!Unlocked,
     Stream!Unlocked
<1>4. Client!LoopHeader => Stream!LoopHeader
  BY DEF Client!LoopHeader, Stream!LoopHeader, Client!onReady, Stream!onReady,
     Client!Unlocked, Stream!Unlocked
<1>5. Client!LoopCheck => Stream!LoopCheck
  BY DEF Client!LoopCheck, Stream!LoopCheck, Client!errorIfDone,
     Stream!errorIfDone
<1>6. Client!LoopPushCtx => Stream!LoopPushCtx
  BY DEF Client!LoopPushCtx, Stream!LoopPushCtx
<1>7. Client!LoopExit => Stream!LoopExit
  BY DEF Client!LoopExit, Stream!LoopExit, Client!MustReset, Stream!MustReset
<1>8. Client!LoopUnregister => Stream!LoopUnregister
  BY DEF Client!LoopUnregister, Stream!LoopUnregister
<1>9. Client!LoopCancel => Stream!LoopCancel
  BY DEF Client!LoopCancel, Stream!LoopCancel
<1>10. Client!LoopPublish => Stream!LoopPublish
  BY DEF Client!LoopPublish, Stream!LoopPublish
<1>11. Client!LoopReset => Stream!LoopReset
  BY DEF Client!LoopReset, Stream!LoopReset
<1>12. Client!RecvCall => Stream!RecvCall
  BY DEF Client!RecvCall, Stream!RecvCall, Client!Unlocked, Stream!Unlocked,
     Client!RecvReturns, Stream!RecvReturns
<1>13. Client!RecvCtx => Stream!RecvCtx
  BY DEF Client!RecvCtx, Stream!RecvCtx, Client!RecvReturns,
     Stream!RecvReturns
<1>14. Client!RecvBody => Stream!RecvBody
  BY DEF Client!RecvBody, Stream!RecvBody
<1>15. Client!RecvFindsClosed => Stream!RecvFindsClosed
  BY DEF Client!RecvFindsClosed, Stream!RecvFindsClosed
<1>16. Client!RecvAfterClose => Stream!RecvAfterClose
  BY DEF Client!RecvAfterClose, Stream!RecvAfterClose, Client!Unlocked,
     Stream!Unlocked, Client!RecvReturns, Stream!RecvReturns
<1>17. Client!SendCall => Stream!SendCall
  BY DEF Client!SendCall, Stream!SendCall, Client!Unlocked, Stream!Unlocked
<1>18. Client!SendMarshal => Stream!SendMarshal
  BY DEF Client!SendMarshal, Stream!SendMarshal, Client!SendStep,
     Stream!SendStep, Client!SendFails, Stream!SendFails
<1>19. Client!SendWrite => Stream!SendWrite
  BY DEF Client!SendWrite, Stream!SendWrite, Client!SendStep, Stream!SendStep,
     Client!SendFails, Stream!SendFails
<1>20. Client!SendUnregister => Stream!SendUnregister
  BY DEF Client!SendUnregister, Stream!SendUnregister, Client!SendStep,
     Stream!SendStep
<1>21. Client!SendCancel => Stream!SendCancel
  BY DEF Client!SendCancel, Stream!SendCancel, Client!SendStep,
     Stream!SendStep
<1>22. Client!CloseSendCall => Stream!CloseSendCall
  BY DEF Client!CloseSendCall, Stream!CloseSendCall
<1>23. Client!CloseSend => Stream!CloseSend
  BY DEF Client!CloseSend, Stream!CloseSend, Client!SendStep, Stream!SendStep
<1>24. Client!ConnectionFails => Stream!ConnectionFails
  BY DEF Client!ConnectionFails, Stream!ConnectionFails
<1>25. Client!UserCancel => Stream!UserCancel
  BY DEF Client!UserCancel, Stream!UserCancel
<1>26. QED
  BY <1>1, <1>2, <1>3, <1>4, <1>5, <1>6, <1>7, <1>8, <1>9, <1>10, <1>11,
     <1>12, <1>13, <1>14, <1>15, <1>16, <1>17, <1>18, <1>19, <1>20, <1>21,
     <1>22, <1>23, <1>24, <1>25 DEF ClientActs, ClientLoop, ClientReset,
     ClientRecvCall, ClientRecv, ClientSendStep, ClientTeardown, ClientWrite,
     ClientCloseSend, UserCancel, ClientDisconnected, Client!RecvProgress,
     Stream!Next, Stream!LoopProgress, Stream!RecvProgress,
     Stream!SendProgress, Stream!Environment

loopFootVars == <<user, sent, ended, rst, recv, got, recvErr, send, sends,
   sendErr>>

\* What a step of readLoop leaves alone.
LEMMA LoopFoot ==
    ClientLoop =>
        UNCHANGED loopFootVars /\ Unwritten
<1>1. Client!LoopRead => UNCHANGED loopFootVars
  BY DEF Client!LoopRead, Client!ctxVars, Client!recvVars, Client!sendVars,
     loopFootVars
<1>2. Client!LoopReadCtx => UNCHANGED loopFootVars
  BY DEF Client!LoopReadCtx, Client!LoopReadErr, Client!onReady,
     Client!ctxVars, Client!netVars, Client!recvVars, Client!sendVars,
     Client!Unlocked, loopFootVars
<1>3. Client!LoopReadClosed => UNCHANGED loopFootVars
  BY DEF Client!LoopReadClosed, Client!LoopReadErr, Client!onReady,
     Client!ctxVars, Client!netVars, Client!recvVars, Client!sendVars,
     Client!Unlocked, loopFootVars
<1>4. Client!LoopHeader => UNCHANGED loopFootVars
  BY DEF Client!LoopHeader, Client!onReady, Client!ctxVars, Client!netVars,
     Client!recvVars, Client!sendVars, Client!Unlocked, loopFootVars
<1>5. Client!LoopCheck => UNCHANGED loopFootVars
  BY DEF Client!LoopCheck, Client!errorIfDone, Client!ctxVars, Client!netVars,
     Client!recvVars, Client!sendVars, loopFootVars
<1>6. Client!LoopPushCtx => UNCHANGED loopFootVars
  BY DEF Client!LoopPushCtx, Client!ctxVars, Client!netVars, Client!recvVars,
     Client!sendVars, loopFootVars
<1>7. Client!LoopExit => UNCHANGED loopFootVars
  BY DEF Client!LoopExit, Client!MustReset, Client!ctxVars, Client!netVars,
     Client!recvVars, Client!sendVars, loopFootVars
<1>8. Client!LoopUnregister => UNCHANGED loopFootVars
  BY DEF Client!LoopUnregister, Client!ctxVars, Client!recvVars,
     Client!sendVars, loopFootVars
<1>9. Client!LoopCancel => UNCHANGED loopFootVars
  BY DEF Client!LoopCancel, Client!netVars, Client!recvVars, Client!sendVars,
     loopFootVars
<1>10. Client!LoopPublish => UNCHANGED loopFootVars
  BY DEF Client!LoopPublish, Client!ctxVars, Client!netVars, Client!recvVars,
     Client!sendVars, loopFootVars
<1>11. QED
  BY <1>1, <1>2, <1>3, <1>4, <1>5, <1>6, <1>7, <1>8, <1>9, <1>10 DEF
     ClientLoop

recvFootVars == <<rpc, header, loopErr, loopTrailer, sendRst, rCh, done, rErr,
   rst, ctx, user, slot, torn, sent, ended, send, sends, sendErr>>

\* What RecvMsg leaves alone.
LEMMA RecvFoot ==
    ClientRecv =>
        UNCHANGED recvFootVars /\ Unwritten
<1>1. Client!RecvCtx => UNCHANGED recvFootVars
  BY DEF Client!RecvCtx, Client!RecvReturns, Client!loopVars, Client!ctxVars,
     Client!netVars, Client!sendVars, recvFootVars
<1>2. Client!RecvBody => UNCHANGED recvFootVars
  BY DEF Client!RecvBody, Client!ctxVars, Client!netVars, Client!sendVars,
     recvFootVars
<1>3. Client!RecvFindsClosed => UNCHANGED recvFootVars
  BY DEF Client!RecvFindsClosed, Client!loopVars, Client!ctxVars,
     Client!netVars, Client!sendVars, recvFootVars
<1>4. Client!RecvAfterClose => UNCHANGED recvFootVars
  BY DEF Client!RecvAfterClose, Client!Unlocked, Client!RecvReturns,
     Client!loopVars, Client!ctxVars, Client!netVars, Client!sendVars,
     recvFootVars
<1>5. QED
  BY <1>1, <1>2, <1>3, <1>4 DEF ClientRecv, Client!RecvProgress

sendFootVars == <<loop, rpc, header, loopErr, loopTrailer, sendRst, rCh, done,
   rErr, rst, user, slot, sent, ended, recv, got, recvErr>>

\* What a send that writes nothing leaves alone.
LEMMA SendFoot ==
    ClientSendStep \/ ClientTeardown =>
        UNCHANGED sendFootVars /\ Unwritten
<1>1. Client!SendCall => UNCHANGED sendFootVars
  BY DEF Client!SendCall, Client!Unlocked, Client!loopVars, Client!ctxVars,
     Client!netVars, Client!recvVars, sendFootVars
<1>2. Client!SendMarshal => UNCHANGED sendFootVars
  BY DEF Client!SendMarshal, Client!SendStep, Client!SendFails,
     Client!loopVars, Client!ctxVars, Client!netVars, Client!recvVars,
     sendFootVars
<1>3. Client!CloseSendCall => UNCHANGED sendFootVars
  BY DEF Client!CloseSendCall, Client!loopVars, Client!ctxVars,
     Client!netVars, Client!recvVars, sendFootVars
<1>4. Client!SendUnregister => UNCHANGED sendFootVars
  BY DEF Client!SendUnregister, Client!SendStep, Client!loopVars,
     Client!ctxVars, Client!recvVars, sendFootVars
<1>5. Client!SendCancel => UNCHANGED sendFootVars
  BY DEF Client!SendCancel, Client!SendStep, Client!loopVars, Client!netVars,
     Client!recvVars, sendFootVars
<1>6. QED
  BY <1>1, <1>2, <1>3, <1>4, <1>5 DEF ClientSendStep, ClientTeardown

-----------------------------------------------------------------------------
(* Types, and the client's lock and resets. *)

\* What a reply is.
LEMMA ReplyIs ==
    ASSUME NEW n \in 0..MaxBodies
    PROVE  /\ Reply(n) \in Stream!Rpc
           /\ Reply(n).hdr = "good" /\ Reply(n).body = n
           /\ Reply(n).trailer = "no" /\ Reply(n).status = "none"
  BY DEF Reply, Client!NoRpc, Stream!Rpc, Stream!Statuses

\* What a trailer is.
LEMMA LastIs ==
    ASSUME NEW s \in Stream!Statuses
    PROVE  /\ Last(s) \in Stream!Rpc
           /\ Last(s).hdr = "good" /\ Last(s).body = 0
           /\ Last(s).trailer = "yes" /\ Last(s).status = s
<1>1. 0 \in 0..MaxBodies
  BY ConnBounds
<1>2. QED
  BY <1>1 DEF Last, Stream!Rpc

\* The client's steps keep what ClientStreamProofs shows of them.
LEMMA ClientStep ==
    TypeOK /\ ClientOK /\ ClientActs /\ WireTypes' => (TypeOK /\ ClientOK)'
<1> SUFFICES ASSUME TypeOK, ClientOK, ClientActs, WireTypes'
             PROVE  (TypeOK /\ ClientOK)'
  OBVIOUS
<1>1. Stream!Next
  BY ClientIsStream
<1>2. Stream!TypeOK'
  BY <1>1, Stream!TypeStep, ConnBounds, HeaderKinds DEF TypeOK
<1>3. Stream!LockOK'
  BY <1>1, Stream!LockStep, ConnBounds, HeaderKinds DEF ClientOK
<1>4. Stream!ResetOK'
  BY <1>1, Stream!ResetStep, ConnBounds, HeaderKinds DEF ClientOK, TypeOK
<1>5. QED
  BY <1>2, <1>3, <1>4 DEF TypeOK, ClientOK

\* So do the steps of others, which only touch its channel.
LEMMA ClientFrame ==
    /\ TypeOK /\ ClientOK /\ WireTypes' /\ UNCHANGED <<ownVars, torn>>
    /\ slot' \subseteq Stream!Rpc /\ sent' \in 0..MaxBodies
    /\ ended' \in {"open"} \cup Stream!Statuses
    => (TypeOK /\ ClientOK)'
  BY DEF ownVars, TypeOK, ClientOK, Stream!TypeOK, Stream!LockOK,
     Stream!NoAssertion, Stream!ResetOK, Stream!ResetOnlyIfAbandoned

\* Or do not.
LEMMA ClientSame ==
    TypeOK /\ ClientOK /\ WireTypes' /\ UNCHANGED clientVars
    => (TypeOK /\ ClientOK)'
  BY ClientFrame DEF clientVars, TypeOK, Stream!TypeOK

\* The types of the queues.
LEMMA QueueTypes ==
    ASSUME TypeOK
    PROVE  /\ up \in Seq(Requests) /\ cur \in Seq(Requests) /\ ch \in Seq(Requests)
           /\ down \in Seq(Stream!Rpc) /\ out \in Seq(Stream!Rpc)
           /\ heard \in Seq(Nat) /\ got \in Seq(0..MaxBodies)
           /\ asked \in Nat /\ sent \in Nat
           /\ \A r \in Requests : r.body \in Nat
           /\ \A r \in Stream!Rpc : r.body \in Nat
  BY ConnBounds DEF TypeOK, WireTypes, Requests, Stream!TypeOK, Stream!Rpc

\* Every step keeps the types, the client's lock and what allows its resets.
LEMMA TypeStep == IInv /\ [Next]_vars => (TypeOK /\ ClientOK)'
<1> SUFFICES ASSUME TypeOK, ClientOK, ServerOK, [Next]_vars
             PROVE  (TypeOK /\ ClientOK)'
  BY DEF IInv
<1>u. up \in Seq(Requests)
  BY QueueTypes
<1>0. /\ up \in Seq(Requests) /\ ch \in Seq(Requests)
      /\ down \in Seq(Stream!Rpc) /\ out \in Seq(Stream!Rpc)
      /\ heard \in Seq(Nat) /\ WireTypes /\ sent \in 0..MaxBodies
      /\ ended \in {"open"} \cup Stream!Statuses /\ slot \subseteq Stream!Rpc
  BY QueueTypes DEF TypeOK, Stream!TypeOK
<1>1. ASSUME ClientLoop PROVE (TypeOK /\ ClientOK)'
  <2>1. WireTypes'
    BY <1>0, <1>1, LoopFoot DEF Unwritten, wireVars, serverVars, WireTypes
  <2>2. QED
    BY <1>1, <2>1, ClientStep DEF ClientActs
<1>2. ASSUME ClientReset PROVE (TypeOK /\ ClientOK)'
  <2>1. Mark("reset") \in Requests
    BY DEF Mark, Requests
  <2>2. up' = up \/ up' = Append(up, Mark("reset"))
    BY <1>2 DEF ClientReset
  <2>3. up' \in Seq(Requests)
    BY <1>u, <2>1, <2>2
  <2>4. WireTypes'
    BY <1>0, <1>2, <2>3 DEF ClientReset, serverVars, WireTypes
  <2>5. QED
    BY <1>2, <2>4, ClientStep DEF ClientActs
<1>3. ASSUME ClientRecvCall PROVE (TypeOK /\ ClientOK)'
  <2>1. WireTypes'
    BY <1>0, <1>3 DEF ClientRecvCall, Unwritten, wireVars, serverVars,
       WireTypes
  <2>2. QED
    BY <1>3, <2>1, ClientStep DEF ClientActs
<1>4. ASSUME ClientRecv PROVE (TypeOK /\ ClientOK)'
  <2>1. WireTypes'
    BY <1>0, <1>4, RecvFoot DEF Unwritten, wireVars, serverVars, WireTypes
  <2>2. QED
    BY <1>4, <2>1, ClientStep DEF ClientActs
<1>5. ASSUME ClientSendStep PROVE (TypeOK /\ ClientOK)'
  <2>1. WireTypes'
    BY <1>0, <1>5, SendFoot DEF Unwritten, wireVars, serverVars, WireTypes
  <2>2. QED
    BY <1>5, <2>1, ClientStep DEF ClientActs
<1>6. ASSUME ClientTeardown PROVE (TypeOK /\ ClientOK)'
  <2>1. WireTypes'
    BY <1>0, <1>6, SendFoot DEF Unwritten, wireVars, serverVars, WireTypes
  <2>2. QED
    BY <1>6, <2>1, ClientStep DEF ClientActs
<1>7. ASSUME ClientWrite PROVE (TypeOK /\ ClientOK)'
  <2>1. /\ asked' \in Nat /\ Body(asked + 1) \in Requests
        /\ up' = up \/ up' = Append(up, Body(asked + 1))
    BY <1>0, <1>7 DEF ClientWrite, Body, Requests, WireTypes
  <2>2. up' \in Seq(Requests)
    BY <1>u, <2>1
  <2>3. WireTypes'
    BY <1>0, <1>7, <2>1, <2>2 DEF ClientWrite, serverVars, WireTypes
  <2>4. QED
    BY <1>7, <2>3, ClientStep DEF ClientActs
<1>8. ASSUME ClientCloseSend PROVE (TypeOK /\ ClientOK)'
  <2>1. /\ closed' \in {"no", "yes"} /\ Mark("trailer") \in Requests
        /\ up' = up \/ up' = Append(up, Mark("trailer"))
    BY <1>0, <1>8 DEF ClientCloseSend, Mark, Requests, WireTypes
  <2>2. up' \in Seq(Requests)
    BY <1>u, <2>1
  <2>3. WireTypes'
    BY <1>0, <1>8, <2>1, <2>2 DEF ClientCloseSend, serverVars, WireTypes
  <2>4. QED
    BY <1>8, <2>3, ClientStep DEF ClientActs
<1>9. ASSUME UserCancel PROVE (TypeOK /\ ClientOK)'
  <2>1. WireTypes'
    BY <1>0, <1>9 DEF UserCancel, Fault, serverVars, WireTypes, Kinds
  <2>2. QED
    BY <1>9, <2>1, ClientStep DEF ClientActs
<1>10. ASSUME Deliver PROVE (TypeOK /\ ClientOK)'
  <2>1. down # <<>> /\ down \in Seq(Stream!Rpc)
    BY <1>0, <1>10 DEF Deliver
  <2>2. Tail(down) \in Seq(Stream!Rpc) /\ Head(down) \in Stream!Rpc
    BY <2>1
  <2>3. slot' \subseteq Stream!Rpc
    BY <1>0, <1>10, <2>2 DEF Deliver
  <2>4. WireTypes'
    BY <1>0, <1>10, <2>1, <2>2, <2>3 DEF Deliver, ownVars, serverVars,
       WireTypes
  <2>5. QED
    BY <1>0, <1>10, <2>1, <2>2, <2>3, <2>4, ClientFrame DEF Deliver, ownVars,
       serverVars, clientVars
<1>11. ASSUME Breaks PROVE (TypeOK /\ ClientOK)'
  <2>1. WireTypes'
    BY <1>0, <1>11 DEF Breaks, Fault, clientVars, serverVars, ownVars,
       WireTypes,
       Kinds
  <2>2. QED
    BY <1>0, <1>11, <2>1, ClientSame DEF Breaks, Fault, clientVars, serverVars,
       ownVars
<1>12. ASSUME ClientDisconnected PROVE (TypeOK /\ ClientOK)'
  <2>1. WireTypes'
    BY <1>0, <1>12 DEF ClientDisconnected, Unwritten, wireVars, serverVars,
       WireTypes
  <2>2. QED
    BY <1>12, <2>1, ClientStep DEF ClientActs
<1>13. ASSUME ServeOpen PROVE (TypeOK /\ ClientOK)'
  <2>1. up # <<>> /\ up' = Tail(up)
    BY <1>13 DEF ServeOpen, ServeRead
  <2>2. Tail(up) \in Seq(Requests) /\ Head(up) \in Requests
    BY <2>1, <1>0
  <2>3. WireTypes'
    BY <1>0, <1>13, <2>1, <2>2 DEF ServeOpen, ServeRead, clientVars, ownVars,
       WireTypes
  <2>4. QED
    BY <1>0, <1>13, <2>1, <2>2, <2>3, ClientSame DEF ServeOpen, ServeRead,
       clientVars, ownVars
<1>14. ASSUME ServeReset PROVE (TypeOK /\ ClientOK)'
  <2>1. up # <<>> /\ up' = Tail(up)
    BY <1>14 DEF ServeReset, ServeRead
  <2>2. Tail(up) \in Seq(Requests) /\ Head(up) \in Requests
    BY <2>1, <1>0
  <2>3. WireTypes'
    BY <1>0, <1>14, <2>1, <2>2 DEF ServeReset, ServeRead, Registered,
       clientVars,
       ownVars, WireTypes
  <2>4. QED
    BY <1>0, <1>14, <2>1, <2>2, <2>3, ClientSame DEF ServeReset, ServeRead,
       Registered, clientVars, ownVars
<1>15. ASSUME ServePush PROVE (TypeOK /\ ClientOK)'
  <2>1. up # <<>> /\ up' = Tail(up)
    BY <1>15 DEF ServePush, ServeRead
  <2>2. Tail(up) \in Seq(Requests) /\ Head(up) \in Requests
    BY <2>1, <1>0
  <2>3. WireTypes'
    BY <1>0, <1>15, <2>1, <2>2 DEF ServePush, ServeRead, Registered,
       clientVars,
       ownVars, WireTypes
  <2>4. QED
    BY <1>0, <1>15, <2>1, <2>2, <2>3, ClientSame DEF ServePush, ServeRead,
       Registered, clientVars, ownVars
<1>16. ASSUME Push PROVE (TypeOK /\ ClientOK)'
  <2>1. WireTypes'
    BY <1>0, <1>16 DEF Push, clientVars, wireVars, ownVars, WireTypes
  <2>2. QED
    BY <1>0, <1>16, <2>1, ClientSame DEF Push, clientVars, wireVars, ownVars
<1>17. ASSUME ServeTrailer PROVE (TypeOK /\ ClientOK)'
  <2>1. up # <<>> /\ up' = Tail(up)
    BY <1>17 DEF ServeTrailer, ServeRead
  <2>2. Tail(up) \in Seq(Requests) /\ Head(up) \in Requests
    BY <2>1, <1>0
  <2>3. WireTypes'
    BY <1>0, <1>17, <2>1, <2>2 DEF ServeTrailer, ServeRead, Registered,
       clientVars, ownVars, WireTypes
  <2>4. QED
    BY <1>0, <1>17, <2>1, <2>2, <2>3, ClientSame DEF ServeTrailer, ServeRead,
       Registered, clientVars, ownVars
<1>18. ASSUME ServeRefuse PROVE (TypeOK /\ ClientOK)'
  <2>1. up # <<>> /\ up' = Tail(up)
    BY <1>18 DEF ServeRefuse, ServeRead
  <2>2. Tail(up) \in Seq(Requests) /\ Head(up) \in Requests
    BY <2>1, <1>0
  <2>3. /\ Last("none") \in Stream!Rpc /\ down \in Seq(Stream!Rpc)
        /\ Append(down, Last("none")) \in Seq(Stream!Rpc)
    BY <1>0, LastIs DEF Stream!Statuses
  <2>4. WireTypes'
    BY <1>0, <1>18, <2>1, <2>2, <2>3 DEF ServeRefuse, ServeRead, Registered,
       clientVars, ownVars, WireTypes
  <2>5. QED
    BY <1>0, <1>18, <2>1, <2>2, <2>3, <2>4, ClientSame DEF ServeRefuse,
       ServeRead, Registered, clientVars, ownVars
<1>19. ASSUME ServeExit PROVE (TypeOK /\ ClientOK)'
  <2>1. WireTypes'
    BY <1>0, <1>19 DEF ServeExit, clientVars, wireVars, ownVars, WireTypes
  <2>2. QED
    BY <1>0, <1>19, <2>1, ClientSame DEF ServeExit, clientVars, wireVars,
       ownVars
<1>20. ASSUME AppRecv PROVE (TypeOK /\ ClientOK)'
  <2>1. ch # <<>> /\ ch \in Seq(Requests) /\ heard \in Seq(Nat)
    BY <1>20, <1>0 DEF AppRecv
  <2>2. Head(ch) \in Requests
    BY <2>1
  <2>3. Head(ch).body \in Nat
    BY <2>2 DEF Requests
  <2>4. Append(heard, Head(ch).body) \in Seq(Nat)
    BY <2>1, <2>3
  <2>5. heard' \in Seq(Nat) /\ eof' \in {"no", "yes"}
    BY <1>0, <1>20, <2>4 DEF AppRecv, WireTypes
  <2>6. ch' \in Seq(Requests)
    BY <1>20 DEF AppRecv
  <2>7. WireTypes'
    BY <1>0, <1>20, <2>1, <2>2, <2>3, <2>4, <2>5, <2>6 DEF AppRecv, clientVars,
       wireVars, ownVars, WireTypes
  <2>8. QED
    BY <1>0, <1>20, <2>1, <2>2, <2>3, <2>4, <2>5, <2>6, <2>7, ClientSame DEF
       AppRecv, clientVars, wireVars, ownVars
<1>21. ASSUME AppSend PROVE (TypeOK /\ ClientOK)'
  <2>1. WireTypes'
    BY <1>0, <1>21 DEF AppSend, AppGoto, ownVars, wireVars, WireTypes
  <2>2. QED
    BY <1>0, <1>21, <2>1, ClientSame DEF AppSend, AppGoto, ownVars, wireVars,
       clientVars
<1>22. ASSUME AppSendOk PROVE (TypeOK /\ ClientOK)'
  <2>1. sent + 1 \in 0..MaxBodies
    BY <1>0, <1>22, ConnBounds DEF AppSendOk, ServerOK
  <2>2. Reply(sent + 1) \in Stream!Rpc
    BY <2>1, ReplyIs
  <2>3. WireTypes'
    BY <1>0, <1>22, <2>1, <2>2 DEF AppSendOk, AppGoto, ownVars, wireVars,
       WireTypes
  <2>4. QED
    BY <1>0, <1>22, <2>1, <2>2, <2>3, ClientFrame DEF AppSendOk, AppGoto,
       ownVars, wireVars, clientVars
<1>23. ASSUME AppSendCtx PROVE (TypeOK /\ ClientOK)'
  <2>1. WireTypes'
    BY <1>0, <1>23 DEF AppSendCtx, AppGoto, ownVars, wireVars, WireTypes
  <2>2. QED
    BY <1>0, <1>23, <2>1, ClientSame DEF AppSendCtx, AppGoto, ownVars,
       wireVars,
       clientVars
<1>24. ASSUME AppReturn PROVE (TypeOK /\ ClientOK)'
  <2>1. ended' \in {"open"} \cup Stream!Statuses
    BY <1>0, <1>24 DEF AppReturn, Stream!Statuses
  <2>2. WireTypes'
    BY <1>0, <1>24, <2>1 DEF AppReturn, AppGoto, ownVars, wireVars, WireTypes
  <2>3. QED
    BY <1>0, <1>24, <2>1, <2>2, ClientFrame DEF AppReturn, AppGoto, ownVars,
       wireVars, clientVars
<1>25. ASSUME SendTrailer PROVE (TypeOK /\ ClientOK)'
  <2>1. Last(ended) \in Stream!Rpc
    BY <1>0, <1>25, LastIs DEF SendTrailer, ServerOK
  <2>2. out' = <<Last(ended)>> \/ out' = out
    BY <1>25 DEF SendTrailer
  <2>3. <<Last(ended)>> \in Seq(Stream!Rpc) /\ out \in Seq(Stream!Rpc)
    BY <1>0, <2>1
  <2>4. out' \in Seq(Stream!Rpc)
    BY <2>2, <2>3
  <2>5. app' = "unregister" /\ sctx' = "done"
    BY <1>25 DEF SendTrailer, AppGoto
  <2>6. WireTypes'
    BY <1>0, <1>25, <2>1, <2>2, <2>3, <2>4, <2>5 DEF SendTrailer, AppGoto,
       ownVars, wireVars, WireTypes
  <2>7. QED
    BY <1>0, <1>25, <2>1, <2>2, <2>3, <2>4, <2>5, <2>6, ClientSame DEF
       SendTrailer, AppGoto, ownVars, wireVars, clientVars
<1>26. ASSUME unregisterStream PROVE (TypeOK /\ ClientOK)'
  <2>1. WireTypes'
    BY <1>0, <1>26 DEF unregisterStream, AppGoto, ownVars, wireVars, WireTypes
  <2>2. QED
    BY <1>0, <1>26, <2>1, ClientSame DEF unregisterStream, AppGoto, ownVars,
       wireVars, clientVars
<1>27. ASSUME StreamTimeout PROVE (TypeOK /\ ClientOK)'
  <2>1. WireTypes'
    BY <1>0, <1>27 DEF StreamTimeout, Fault, Registered, clientVars, ownVars,
       WireTypes, Kinds
  <2>2. QED
    BY <1>0, <1>27, <2>1, ClientSame DEF StreamTimeout, Fault, Registered,
       clientVars, ownVars
<1>28. ASSUME WriteOk PROVE (TypeOK /\ ClientOK)'
  <2>1. out # <<>> /\ out \in Seq(Stream!Rpc) /\ down \in Seq(Stream!Rpc)
    BY <1>0, <1>28 DEF WriteOk
  <2>2. Append(down, Head(out)) \in Seq(Stream!Rpc)
    BY <2>1
  <2>3. WireTypes'
    BY <1>0, <1>28, <2>1, <2>2 DEF WriteOk, clientVars, ownVars, WireTypes
  <2>4. QED
    BY <1>0, <1>28, <2>1, <2>2, <2>3, ClientSame DEF WriteOk, clientVars,
       ownVars
<1>29. ASSUME WriteFails PROVE (TypeOK /\ ClientOK)'
  <2>1. WireTypes'
    BY <1>0, <1>29 DEF WriteFails, clientVars, ownVars, WireTypes
  <2>2. QED
    BY <1>0, <1>29, <2>1, ClientSame DEF WriteFails, clientVars, ownVars
<1>30. CASE UNCHANGED vars
  <2>1. WireTypes'
    BY <1>0, <1>30 DEF vars, wireVars, serverVars, WireTypes
  <2>2. QED
    BY <1>30, <2>1, ClientSame DEF vars
<1>31. QED
  BY <1>1, <1>2, <1>3, <1>4, <1>5, <1>6, <1>7, <1>8, <1>9, <1>10, <1>11,
     <1>12, <1>13, <1>14, <1>15, <1>16, <1>17, <1>18, <1>19, <1>20, <1>21,
     <1>22, <1>23, <1>24, <1>25, <1>26, <1>27, <1>28, <1>29, <1>30 DEF Next

-----------------------------------------------------------------------------
(* The server's control state. *)

serverOKVars == <<ended, app, up, cur, serve, ch, out, sent>>

\* Steps that leave the server's control state alone.
LEMMA ServerFrame == ServerOK /\ UNCHANGED serverOKVars => ServerOK'
  BY DEF ServerOK, HasEnded, serverOKVars

\* What the client writes later is no opening Rpc.
LEMMA ServerAppend ==
    ASSUME TypeOK, ServerOK, NEW r \in Requests, r.kind # "open",
           up' = Append(up, r),
           UNCHANGED <<ended, app, cur, serve, ch, out, sent>>
    PROVE  ServerOK'
<1>1. /\ up' # <<>> /\ DOMAIN up = 1..Len(up) /\ Len(up) \in Nat
      /\ DOMAIN up' = 1..(Len(up) + 1)
      /\ up'[Len(up) + 1] = r /\ \A i \in DOMAIN up : up'[i] = up[i]
  <2>1. up \in Seq(Requests)
    BY QueueTypes
  <2>2. QED
    BY <2>1, AppendFacts
<1>2. app = "none" => up'[1].kind = "open"
  <2>1. up # <<>> => 1 \in DOMAIN up
    BY QueueTypes
  <2>2. QED
    BY <1>1, <2>1 DEF ServerOK
<1>3. ASSUME NEW i \in DOMAIN up', up'[i].kind = "open"
      PROVE  i = 1 /\ app = "none"
  <2>1. i \in DOMAIN up
    BY <1>1, <1>3
  <2>2. QED
    BY <1>1, <1>3, <2>1 DEF ServerOK
<1>4. QED
  BY <1>1, <1>2, <1>3 DEF ServerOK, HasEnded

\* The opening Rpc is the first one read.
LEMMA ServerTail ==
    ASSUME TypeOK, ServerOK, up # <<>>, Head(up).kind # "open", up' = Tail(up)
    PROVE  app # "none" /\ \A i \in DOMAIN up' : up'[i].kind # "open"
<1>1. /\ Head(up) = up[1]
      /\ \A i \in DOMAIN up' : i + 1 \in DOMAIN up /\ up'[i] = up[i + 1]
  BY QueueTypes, TailFacts
<1>2. app # "none"
  BY <1>1 DEF ServerOK
<1>3. QED
  BY <1>1, <1>2 DEF ServerOK

\* Every step keeps the server's control state.
LEMMA ServerStep == IInv /\ [Next]_vars => ServerOK'
<1> SUFFICES ASSUME TypeOK, ServerOK, [Next]_vars PROVE ServerOK'
  BY DEF IInv
<1>u. up \in Seq(Requests) /\ sent \in Nat
  BY QueueTypes
<1>1. ASSUME ClientLoop PROVE ServerOK'
  BY <1>1, LoopFoot, ServerFrame DEF serverOKVars, loopFootVars, Unwritten,
     wireVars, serverVars
<1>2. ASSUME ClientReset PROVE ServerOK'
  <2>1. up' = up \/ up' = Append(up, Mark("reset"))
    BY <1>2 DEF ClientReset
  <2>2. Mark("reset") \in Requests /\ Mark("reset").kind # "open"
    BY QueueTypes DEF Mark, Requests
  <2>3. UNCHANGED <<ended, app, cur, serve, ch, out, sent>>
    BY <1>2 DEF ClientReset, Client!LoopReset, serverVars, Client!ctxVars,
       Client!netVars, Client!recvVars, Client!sendVars
  <2>4. QED
    BY <2>1, <2>2, <2>3, ServerAppend, ServerFrame DEF serverOKVars
<1>3. ASSUME ClientRecvCall PROVE ServerOK'
  BY <1>3, ServerFrame DEF ClientRecvCall, Client!RecvCall, Unwritten,
     Client!Unlocked, Client!RecvReturns, Client!loopVars, Client!ctxVars,
     Client!netVars, Client!sendVars, wireVars, serverVars, serverOKVars
<1>4. ASSUME ClientRecv PROVE ServerOK'
  BY <1>4, RecvFoot, ServerFrame DEF serverOKVars, recvFootVars, Unwritten,
     wireVars, serverVars
<1>5. ASSUME ClientSendStep PROVE ServerOK'
  BY <1>5, SendFoot, ServerFrame DEF serverOKVars, sendFootVars, Unwritten,
     wireVars, serverVars
<1>6. ASSUME ClientTeardown PROVE ServerOK'
  BY <1>6, SendFoot, ServerFrame DEF serverOKVars, sendFootVars, Unwritten,
     wireVars, serverVars
<1>7. ASSUME ClientWrite PROVE ServerOK'
  <2>1. up' = up \/ up' = Append(up, Body(asked + 1))
    BY <1>7 DEF ClientWrite
  <2>2. Body(asked + 1) \in Requests /\ Body(asked + 1).kind # "open"
    BY QueueTypes DEF Body, Requests
  <2>3. UNCHANGED <<ended, app, cur, serve, ch, out, sent>>
    BY <1>7 DEF ClientWrite, Client!SendWrite, serverVars, Client!SendStep,
       Client!SendFails, Client!loopVars, Client!ctxVars, Client!netVars,
       Client!recvVars
  <2>4. QED
    BY <2>1, <2>2, <2>3, ServerAppend, ServerFrame DEF serverOKVars
<1>8. ASSUME ClientCloseSend PROVE ServerOK'
  <2>1. up' = up \/ up' = Append(up, Mark("trailer"))
    BY <1>8 DEF ClientCloseSend
  <2>2. Mark("trailer") \in Requests /\ Mark("trailer").kind # "open"
    BY QueueTypes DEF Mark, Requests
  <2>3. UNCHANGED <<ended, app, cur, serve, ch, out, sent>>
    BY <1>8 DEF ClientCloseSend, Client!CloseSend, serverVars,
       Client!SendStep, Client!loopVars, Client!ctxVars, Client!netVars,
       Client!recvVars
  <2>4. QED
    BY <2>1, <2>2, <2>3, ServerAppend, ServerFrame DEF serverOKVars
<1>9. ASSUME UserCancel PROVE ServerOK'
  BY <1>9, ServerFrame DEF UserCancel, Fault, Client!UserCancel, serverVars,
     Client!loopVars, Client!netVars, Client!recvVars, Client!sendVars,
     serverOKVars
<1>10. ASSUME Deliver PROVE ServerOK'
  BY <1>10, ServerFrame DEF Deliver, ownVars, serverVars, serverOKVars
<1>11. ASSUME Breaks PROVE ServerOK'
  BY <1>11, ServerFrame DEF Breaks, Fault, clientVars, serverVars, ownVars,
     serverOKVars
<1>12. ASSUME ClientDisconnected PROVE ServerOK'
  BY <1>12, ServerFrame DEF ClientDisconnected, Client!ConnectionFails,
     Unwritten, Client!loopVars, Client!ctxVars, Client!recvVars,
     Client!sendVars, wireVars, serverVars, serverOKVars
<1>13. ASSUME ServeOpen PROVE ServerOK'
  <2>1. up # <<>> /\ Head(up).kind = "open" /\ up' = Tail(up)
    BY <1>13 DEF ServeOpen, ServeRead
  <2>2. up[1].kind = "open" /\ 1 \in DOMAIN up /\ up'= Tail(up)
    BY <2>1, <1>u, TailFacts
  <2>3. app = "none" /\ app' = "run"
    BY <1>13, <2>2 DEF ServeOpen, ServerOK
  <2>4. \A i \in DOMAIN up' : up'[i].kind # "open"
    <3>1. \A i \in DOMAIN Tail(up) : i + 1 \in DOMAIN up /\ i \in 1..(Len(up) - 1)
                                  /\ Tail(up)[i] = up[i + 1]
      BY <1>u, <2>1, TailFacts
    <3>2. \A i \in DOMAIN Tail(up) : i + 1 # 1
      BY <1>u, <3>1
    <3>3. QED
      BY <2>1, <3>1, <3>2 DEF ServerOK
  <2>5. UNCHANGED <<ended, cur, serve, ch, out, sent>>
    BY <1>13 DEF ServeOpen, ServeRead, clientVars
  <2>6. QED
    BY <2>3, <2>4, <2>5 DEF ServerOK, HasEnded
<1>14. ASSUME ServeReset PROVE ServerOK'
  <2>1. app # "none" /\ \A i \in DOMAIN up' : up'[i].kind # "open"
    BY <1>14, ServerTail DEF ServeReset, ServeRead
  <2>2. UNCHANGED <<ended, app, ch, out, sent>>
    BY <1>14 DEF ServeReset, ServeRead, clientVars
  <2>3. cur' = cur /\ (serve' # serve => serve = "read" /\ serve' = "exit")
    BY <1>14 DEF ServeReset, ServeRead
  <2>4. QED
    BY <2>1, <2>2, <2>3 DEF ServerOK, HasEnded
<1>15. ASSUME ServePush PROVE ServerOK'
  <2>1. app # "none" /\ \A i \in DOMAIN up' : up'[i].kind # "open"
    BY <1>15, ServerTail DEF ServePush, ServeRead
  <2>2. UNCHANGED <<ended, app, ch, out, sent>>
    BY <1>15 DEF ServePush, ServeRead, clientVars
  <2>3. cur' = <<Head(up)>> /\ serve' = "push"
    BY <1>15 DEF ServePush
  <2>4. Len(cur') <= 1 /\ cur' # <<>>
    BY <2>3
  <2>5. QED
    BY <2>1, <2>2, <2>3, <2>4 DEF ServerOK, HasEnded
<1>16. ASSUME Push PROVE ServerOK'
  BY <1>u, <1>16 DEF Push, clientVars, wireVars, ownVars, ServerOK, HasEnded
<1>17. ASSUME ServeTrailer PROVE ServerOK'
  <2>1. app # "none" /\ \A i \in DOMAIN up' : up'[i].kind # "open"
    BY <1>17, ServerTail DEF ServeTrailer, ServeRead
  <2>2. UNCHANGED <<ended, app, ch, out, sent>>
    BY <1>17 DEF ServeTrailer, ServeRead, clientVars
  <2>3. cur' = cur /\ (serve' # serve => serve = "read" /\ serve' = "exit")
    BY <1>17 DEF ServeTrailer, ServeRead
  <2>4. QED
    BY <2>1, <2>2, <2>3 DEF ServerOK, HasEnded
<1>18. ASSUME ServeRefuse PROVE ServerOK'
  <2>1. app # "none" /\ \A i \in DOMAIN up' : up'[i].kind # "open"
    BY <1>18, ServerTail DEF ServeRefuse, ServeRead
  <2>2. UNCHANGED <<ended, app, ch, out, sent>>
    BY <1>18 DEF ServeRefuse, ServeRead, clientVars
  <2>3. cur' = cur /\ (serve' # serve => serve = "read" /\ serve' = "exit")
    BY <1>18 DEF ServeRefuse, ServeRead
  <2>4. QED
    BY <2>1, <2>2, <2>3 DEF ServerOK, HasEnded
<1>19. ASSUME ServeExit PROVE ServerOK'
  BY <1>u, <1>19 DEF ServeExit, clientVars, wireVars, ownVars, ServerOK,
     HasEnded
<1>20. ASSUME AppRecv PROVE ServerOK'
  BY <1>u, <1>20 DEF AppRecv, clientVars, wireVars, ownVars, ServerOK, HasEnded
<1>21. ASSUME AppSend PROVE ServerOK'
  BY <1>u, <1>21 DEF AppSend, AppGoto, ownVars, wireVars, ServerOK, HasEnded
<1>22. ASSUME AppSendOk PROVE ServerOK'
  <2>1. /\ app = "send" /\ app' = "run" /\ sent' = sent + 1 /\ sent' # 0
        /\ out' = <<Reply(sent')>> /\ UNCHANGED <<ended, up, cur, serve, ch>>
    BY <1>u, <1>22 DEF AppSendOk, AppGoto, wireVars
  <2>2. QED
    BY <2>1 DEF ServerOK, HasEnded
<1>23. ASSUME AppSendCtx PROVE ServerOK'
  BY <1>u, <1>23 DEF AppSendCtx, AppGoto, ownVars, wireVars, ServerOK, HasEnded
<1>24. ASSUME AppReturn PROVE ServerOK'
  BY <1>u, <1>24 DEF AppReturn, AppGoto, ownVars, wireVars, ServerOK, HasEnded
<1>25. ASSUME SendTrailer PROVE ServerOK'
  <2>1. /\ app = "trailer" /\ app' = "unregister"
        /\ out' = <<Last(ended)>> \/ out' = out
        /\ UNCHANGED <<ended, sent, up, cur, serve, ch>>
    BY <1>25 DEF SendTrailer, AppGoto, wireVars
  <2>2. \/ out' = <<>>
        \/ out' = <<Reply(sent)>> /\ sent # 0
        \/ out' = <<Last(ended)>>
    BY <2>1 DEF ServerOK
  <2>3. QED
    BY <2>1, <2>2 DEF ServerOK, HasEnded
<1>26. ASSUME unregisterStream PROVE ServerOK'
  BY <1>u, <1>26 DEF unregisterStream, AppGoto, ownVars, wireVars, ServerOK,
     HasEnded
<1>27. ASSUME StreamTimeout PROVE ServerOK'
  BY <1>27, ServerFrame DEF StreamTimeout, Fault, Registered, clientVars,
     ownVars, serverOKVars
<1>28. ASSUME WriteOk PROVE ServerOK'
  BY <1>u, <1>28 DEF WriteOk, clientVars, ownVars, ServerOK, HasEnded
<1>29. ASSUME WriteFails PROVE ServerOK'
  BY <1>u, <1>29 DEF WriteFails, clientVars, ownVars, ServerOK, HasEnded
<1>30. CASE UNCHANGED vars
  BY <1>30, ServerFrame DEF vars, clientVars, ownVars, wireVars, serverVars,
     serverOKVars
<1>31. QED
  BY <1>1, <1>2, <1>3, <1>4, <1>5, <1>6, <1>7, <1>8, <1>9, <1>10, <1>11,
     <1>12, <1>13, <1>14, <1>15, <1>16, <1>17, <1>18, <1>19, <1>20, <1>21,
     <1>22, <1>23, <1>24, <1>25, <1>26, <1>27, <1>28, <1>29, <1>30 DEF Next

-----------------------------------------------------------------------------
(* Requests. *)

upOKVars == <<send, closed, up, asked, heard, cur, ch, ended, serve, eof>>

\* Steps that neither write, read nor receive requests.
LEMMA UpFrame == UpOK /\ UNCHANGED upOKVars => UpOK'
  BY DEF UpOK, WrittenOK, RequestsOK, QueuesOK, Arrived, upOKVars

\* What is left after one Rpc is read keeps its shape.
WrittenTail ==
    /\ \A i \in DOMAIN up : up[i].kind = "body" <=> up[i].body # 0
    /\ \A i \in DOMAIN up : up[i].kind = "trailer" =>
           closed = "yes" /\ \A j \in DOMAIN up : j > i => up[j].body = 0

\* The bodies that are left, after an Rpc without a body, a body, and the
\* trailer.
ReadOther ==
    \E lo \in Nat :
        /\ Run(up', lo, asked) /\ Len(heard) <= lo /\ lo <= asked
        /\ ended = "open" => Arrived <= lo
        /\ ended = "open" /\ serve # "exit" => lo = Arrived

ReadBody ==
    \E lo \in Nat :
        /\ lo + 1 <= asked /\ up[1].body = lo + 1
        /\ Run(up', lo + 1, asked) /\ Len(heard) <= lo
        /\ ended = "open" /\ serve # "exit" => lo = Arrived

ReadLast ==
    /\ Run(up', asked, asked) /\ Len(heard) <= asked
    /\ ended = "open" /\ serve # "exit" => Arrived = asked

\* Marks that the client writes, its trailer too, add no body.
LEMMA UpMark ==
    ASSUME TypeOK, UpOK, NEW r \in Requests, r.body = 0,
           \/ r.kind = "reset" /\ UNCHANGED <<closed, send>>
           \/ r.kind = "trailer" /\ closed' = "yes" /\ send' = "idle",
           up' = Append(up, r),
           UNCHANGED <<asked, heard, cur, ch, ended, serve, eof>>
    PROVE  UpOK'
<1>1. /\ DOMAIN up = 1..Len(up) /\ Len(up) \in Nat
      /\ DOMAIN up' = 1..(Len(up) + 1)
      /\ up'[Len(up) + 1] = r /\ \A i \in DOMAIN up : up'[i] = up[i]
  <2>1. up \in Seq(Requests)
    BY QueueTypes
  <2>2. QED
    BY <2>1, AppendFacts
<1>2. \A i \in DOMAIN up' : up'[i].body # 0 => i \in DOMAIN up
  BY <1>1
<1>3. closed = "yes" => closed' = "yes"
  OBVIOUS
<1>4. ASSUME NEW i \in DOMAIN up' PROVE up'[i].kind = "body" <=> up'[i].body # 0
  <2>1. CASE i \in DOMAIN up
    BY <1>1, <2>1 DEF UpOK, WrittenOK
  <2>2. CASE i = Len(up) + 1
    BY <1>1, <2>2
  <2>3. QED
    BY <1>1, <2>1, <2>2
<1>5. ASSUME NEW i \in DOMAIN up', up'[i].kind = "trailer"
      PROVE  /\ closed' = "yes"
             /\ \A j \in DOMAIN up' : j > i => up'[j].body = 0
  <2>1. CASE i \in DOMAIN up
    <3>1. closed = "yes" /\ \A j \in DOMAIN up : j > i => up[j].body = 0
      BY <1>1, <1>5, <2>1 DEF UpOK, WrittenOK
    <3>2. QED
      BY <1>1, <1>2, <1>3, <3>1
  <2>2. CASE i = Len(up) + 1
    <3>1. closed' = "yes"
      BY <1>1, <1>5, <2>2
    <3>2. \A j \in DOMAIN up' : ~(j > i)
      BY <1>1, <2>2
    <3>3. QED
      BY <3>1, <3>2
  <2>3. QED
    BY <1>1, <2>1, <2>2
<1>6. WrittenOK'
  BY <1>3, <1>4, <1>5 DEF UpOK, WrittenOK
<1>7. Arrived' = Arrived
  BY DEF Arrived
<1>8. RequestsOK'
  <2>1. PICK lo \in Nat :
            /\ Run(up, lo, asked) /\ Len(heard) <= lo /\ lo <= asked
            /\ ended = "open" => Arrived <= lo
            /\ ended = "open" /\ serve # "exit" => lo = Arrived
    BY DEF UpOK, RequestsOK
  <2>2. Run(up', lo, asked)
    BY <2>1, QueueTypes, RunAppend
  <2>3. QED
    BY <1>7, <2>1, <2>2 DEF RequestsOK
<1>9. QueuesOK'
  BY <1>3, <1>7 DEF UpOK, QueuesOK
<1>10. QED
  BY <1>6, <1>8, <1>9 DEF UpOK

\* A body that the client writes is the next one, and no end was announced.
LEMMA UpBody ==
    ASSUME TypeOK, UpOK, send = "write", send' \in {"idle", "unregister"},
           asked' = asked + 1, up' = Append(up, Body(asked + 1)),
           UNCHANGED <<closed, heard, cur, ch, ended, serve, eof>>
    PROVE  UpOK'
<1> DEFINE r == Body(asked + 1)
<1>1. /\ asked \in Nat /\ r \in Requests /\ r.kind = "body"
      /\ r.body = asked + 1 /\ r.body # 0
  BY QueueTypes DEF Body, Requests
<1> HIDE DEF r
<1>2. /\ DOMAIN up = 1..Len(up) /\ Len(up) \in Nat
      /\ DOMAIN up' = 1..(Len(up) + 1)
      /\ up'[Len(up) + 1] = r /\ \A i \in DOMAIN up : up'[i] = up[i]
  BY <1>1, QueueTypes, AppendFacts DEF r
<1>3. closed = "no"
  BY DEF UpOK, WrittenOK
<1>4. \A i \in DOMAIN up' : i \in DOMAIN up \/ i = Len(up) + 1
  BY <1>2
<1>5. \A i \in DOMAIN up' : /\ up'[i].kind = "body" <=> up'[i].body # 0
                            /\ up'[i].kind # "trailer"
  BY <1>1, <1>2, <1>3, <1>4 DEF UpOK, WrittenOK
<1>6. WrittenOK'
  BY <1>3, <1>5 DEF UpOK, WrittenOK
<1>7. Arrived' = Arrived
  BY DEF Arrived
<1>8. RequestsOK'
  <2>1. PICK lo \in Nat :
            /\ Run(up, lo, asked) /\ Len(heard) <= lo /\ lo <= asked
            /\ ended = "open" => Arrived <= lo
            /\ ended = "open" /\ serve # "exit" => lo = Arrived
    BY DEF UpOK, RequestsOK
  <2>2. Run(up', lo, asked')
    BY <1>1, <2>1, QueueTypes, RunAppend DEF r
  <2>3. lo <= asked'
    BY <1>1, <2>1
  <2>4. QED
    BY <1>7, <2>1, <2>2, <2>3 DEF RequestsOK
<1>9. QueuesOK'
  BY <1>3, <1>7 DEF UpOK, WrittenOK, QueuesOK
<1>10. QED
  BY <1>6, <1>8, <1>9 DEF UpOK

\* The serve loop reads the first Rpc.
LEMMA UpRead ==
    ASSUME TypeOK, UpOK, up # <<>>, up' = Tail(up), closed' = closed
    PROVE  /\ WrittenTail'
           /\ UNCHANGED <<send, cur, ch>> => WrittenOK'
           /\ Head(up).kind # "body" => ReadOther
           /\ Head(up).kind = "body" => ReadBody
           /\ Head(up).kind = "trailer" => ReadLast
<1>1. /\ Head(up) = up[1] /\ 1 \in DOMAIN up
      /\ \A i \in DOMAIN up' : i + 1 \in DOMAIN up /\ up'[i] = up[i + 1]
      /\ DOMAIN up' = 1..(Len(up) - 1) /\ DOMAIN up = 1..Len(up)
      /\ Len(up) \in Nat \ {0}
  BY QueueTypes, TailFacts
<1>2. up[1].kind = "body" <=> up[1].body # 0
  BY <1>1 DEF UpOK, WrittenOK
<1>3. WrittenTail'
  <2>1. \A i \in DOMAIN up' : up'[i].kind = "body" <=> up'[i].body # 0
    BY <1>1 DEF UpOK, WrittenOK
  <2>2. ASSUME NEW i \in DOMAIN up', up'[i].kind = "trailer",
               NEW j \in DOMAIN up', j > i
        PROVE  up'[j].body = 0
    <3>1. j + 1 > i + 1
      BY <1>1, <2>2
    <3>2. QED
      BY <1>1, <2>2, <3>1 DEF UpOK, WrittenOK
  <2>3. \A i \in DOMAIN up' : up'[i].kind = "trailer" => closed' = "yes"
    BY <1>1 DEF UpOK, WrittenOK
  <2>4. QED
    BY <2>1, <2>2, <2>3 DEF WrittenTail
<1>4. UNCHANGED <<send, cur, ch>> => WrittenOK'
  BY <1>3 DEF UpOK, WrittenOK, WrittenTail
<1>5. PICK lo \in Nat :
          /\ Run(up, lo, asked) /\ Len(heard) <= lo /\ lo <= asked
          /\ ended = "open" => Arrived <= lo
          /\ ended = "open" /\ serve # "exit" => lo = Arrived
  BY DEF UpOK, RequestsOK
<1>6. /\ up[1].body = 0 => Run(up', lo, asked)
      /\ up[1].body # 0 => /\ up[1].body = lo + 1 /\ lo + 1 <= asked
                           /\ Run(up', lo + 1, asked)
  <2>1. /\ up \in Seq(Requests) /\ asked \in Nat
        /\ \A r \in Requests : r.body \in Nat
    BY QueueTypes
  <2>2. /\ up[1].body = 0 => Run(Tail(up), lo, asked)
        /\ up[1].body # 0 => /\ up[1].body = lo + 1 /\ lo + 1 <= asked
                             /\ Run(Tail(up), lo + 1, asked)
    BY <1>5, <2>1, RunTail
  <2>3. QED
    BY <2>2
<1>7. Head(up).kind # "body" => ReadOther
  BY <1>1, <1>2, <1>5, <1>6 DEF ReadOther
<1>8. Head(up).kind = "body" => ReadBody
  BY <1>1, <1>2, <1>5, <1>6 DEF ReadBody
<1>9. ASSUME Head(up).kind = "trailer" PROVE ReadLast
  <2>1. \A j \in DOMAIN up : j > 1 => up[j].body = 0
    BY <1>1, <1>9 DEF UpOK, WrittenOK
  <2>2. \A i \in DOMAIN up' : up'[i].body = 0
    BY <1>1, <2>1
  <2>3. Run(up', lo, asked)
    BY <1>1, <1>2, <1>6, <1>9
  <2>4. lo = asked
    BY <1>5, <2>2, <2>3, QueueTypes, RunEmpty
  <2>5. QED
    BY <1>5, <2>3, <2>4 DEF ReadLast
<1>10. QED
  BY <1>3, <1>4, <1>7, <1>8, <1>9

\* Every step keeps the requests in order, and the end behind them.
LEMMA UpStep == IInv /\ [Next]_vars => UpOK'
<1> SUFFICES ASSUME TypeOK, ServerOK, UpOK, [Next]_vars PROVE UpOK'
  BY DEF IInv
<1>t. /\ up \in Seq(Requests) /\ ch \in Seq(Requests) /\ heard \in Seq(Nat)
      /\ asked \in Nat /\ Len(heard) \in Nat /\ \A r \in Requests : r.body \in Nat
  BY QueueTypes
<1>1. ASSUME ClientLoop PROVE UpOK'
  BY <1>1, LoopFoot, UpFrame DEF upOKVars, loopFootVars, Unwritten, wireVars,
     serverVars
<1>2. ASSUME ClientReset PROVE UpOK'
  <2>1. up' = up \/ up' = Append(up, Mark("reset"))
    BY <1>2 DEF ClientReset
  <2>2. /\ Mark("reset") \in Requests /\ Mark("reset").body = 0
        /\ Mark("reset").kind = "reset"
    BY DEF Mark, Requests
  <2>3. UNCHANGED <<send, closed, asked, heard, cur, ch, ended, serve, eof>>
    BY <1>2 DEF ClientReset, Client!LoopReset, Client!netVars, Client!sendVars,
       serverVars
  <2>4. QED
    BY <2>1, <2>2, <2>3, UpMark, UpFrame DEF upOKVars
<1>3. ASSUME ClientRecvCall PROVE UpOK'
  BY <1>3, UpFrame DEF ClientRecvCall, Client!RecvCall, Unwritten,
     Client!Unlocked, Client!RecvReturns, Client!loopVars, Client!ctxVars,
     Client!netVars, Client!sendVars, wireVars, serverVars, upOKVars
<1>4. ASSUME ClientRecv PROVE UpOK'
  BY <1>4, RecvFoot, UpFrame DEF upOKVars, recvFootVars, Unwritten, wireVars,
     serverVars
<1>5. ASSUME ClientSendStep PROVE UpOK'
  <2>1. UNCHANGED <<closed, up, asked, heard, cur, ch, ended, serve, eof>>
    BY <1>5, SendFoot DEF sendFootVars, Unwritten, wireVars, serverVars
  <2>2. send' \in {"marshal", "write", "closeSend"} => closed = "no"
    BY <1>5 DEF ClientSendStep, Client!SendCall, Client!SendMarshal,
       Client!SendStep, Client!SendFails, Client!CloseSendCall, UpOK,
       WrittenOK
  <2>3. QED
    BY <2>1, <2>2 DEF UpOK, WrittenOK, RequestsOK, QueuesOK, Arrived
<1>6. ASSUME ClientTeardown PROVE UpOK'
  <2>1. UNCHANGED <<closed, up, asked, heard, cur, ch, ended, serve, eof>>
    BY <1>6, SendFoot DEF sendFootVars, Unwritten, wireVars, serverVars
  <2>2. send' \in {"cancel", "idle"}
    BY <1>6 DEF ClientTeardown, Client!SendUnregister, Client!SendCancel,
       Client!SendStep
  <2>3. QED
    BY <2>1, <2>2 DEF UpOK, WrittenOK, RequestsOK, QueuesOK, Arrived
<1>7. ASSUME ClientWrite PROVE UpOK'
  <2>1. /\ send = "write" /\ send' \in {"idle", "unregister"}
        /\ UNCHANGED <<closed, heard, cur, ch, ended, serve, eof>>
        /\ \/ asked' = asked + 1 /\ up' = Append(up, Body(asked + 1))
           \/ UNCHANGED <<asked, up>>
    BY <1>7 DEF ClientWrite, Client!SendWrite, Client!SendStep,
       Client!SendFails, Client!netVars, serverVars
  <2>2. CASE UNCHANGED <<asked, up>>
    BY <2>1, <2>2 DEF UpOK, WrittenOK, RequestsOK, QueuesOK, Arrived
  <2>3. CASE asked' = asked + 1 /\ up' = Append(up, Body(asked + 1))
    BY <2>1, <2>3, UpBody
  <2>4. QED
    BY <2>1, <2>2, <2>3
<1>8. ASSUME ClientCloseSend PROVE UpOK'
  <2>1. \/ closed' = "yes" /\ up' = Append(up, Mark("trailer"))
        \/ UNCHANGED <<closed, up>>
    BY <1>8 DEF ClientCloseSend
  <2>2. /\ Mark("trailer") \in Requests /\ Mark("trailer").body = 0
        /\ Mark("trailer").kind = "trailer"
    BY DEF Mark, Requests
  <2>3. /\ send' = "idle"
        /\ UNCHANGED <<asked, heard, cur, ch, ended, serve, eof>>
    BY <1>8 DEF ClientCloseSend, Client!CloseSend, Client!SendStep,
       Client!netVars, serverVars
  <2>4. CASE UNCHANGED <<closed, up>>
    BY <2>3, <2>4 DEF UpOK, WrittenOK, RequestsOK, QueuesOK, Arrived
  <2>5. CASE closed' = "yes" /\ up' = Append(up, Mark("trailer"))
    BY <2>2, <2>3, <2>5, UpMark
  <2>6. QED
    BY <2>1, <2>4, <2>5
<1>9. ASSUME UserCancel PROVE UpOK'
  BY <1>9, UpFrame DEF UserCancel, Fault, Client!UserCancel, serverVars,
     Client!loopVars, Client!netVars, Client!recvVars, Client!sendVars,
     upOKVars
<1>10. ASSUME Deliver PROVE UpOK'
  BY <1>10, UpFrame DEF Deliver, ownVars, serverVars, upOKVars
<1>11. ASSUME Breaks PROVE UpOK'
  BY <1>11, UpFrame DEF Breaks, Fault, clientVars, serverVars, ownVars,
     upOKVars
<1>12. ASSUME ClientDisconnected PROVE UpOK'
  BY <1>12, UpFrame DEF ClientDisconnected, Client!ConnectionFails, Unwritten,
     Client!loopVars, Client!ctxVars, Client!recvVars, Client!sendVars,
     wireVars, serverVars, upOKVars
<1>13. ASSUME ServeOpen PROVE UpOK'
  <2>1. /\ up # <<>> /\ Head(up).kind \notin {"body", "trailer"}
        /\ up' = Tail(up)
        /\ UNCHANGED <<send, closed, asked, heard, cur, ch, ended, serve, eof>>
    BY <1>13 DEF ServeOpen, ServeRead, clientVars, ownVars
  <2>2. WrittenOK' /\ ReadOther
    BY <2>1, UpRead
  <2>3. QED
    BY <2>1, <2>2 DEF ReadOther, UpOK, RequestsOK, QueuesOK, Arrived
<1>14. ASSUME ServeReset PROVE UpOK'
  <2>1. /\ up # <<>> /\ Head(up).kind \notin {"body", "trailer"}
        /\ up' = Tail(up)
        /\ UNCHANGED <<send, closed, asked, heard, cur, ch, ended, serve, eof>>
    BY <1>14 DEF ServeReset, ServeRead, clientVars, ownVars
  <2>2. WrittenOK' /\ ReadOther
    BY <2>1, UpRead
  <2>3. QED
    BY <2>1, <2>2 DEF ReadOther, UpOK, RequestsOK, QueuesOK, Arrived
<1>15. ASSUME ServePush PROVE UpOK'
  <2>1. /\ serve = "read" /\ serve' = "push" /\ up # <<>>
        /\ Head(up).kind \in {"body", "trailer"}
        /\ up' = Tail(up) /\ cur' = <<Head(up)>>
        /\ UNCHANGED <<send, closed, asked, heard, ch, ended, eof>>
    BY <1>15 DEF ServePush, ServeRead, clientVars, ownVars
  <2>2. cur = <<>>
    BY <2>1 DEF ServerOK
  <2>3. Held(cur) = 0 /\ Head(up) = up[1] /\ 1 \in DOMAIN up
    BY <1>t, <2>1, <2>2, TailFacts DEF Held
  <2>4. cur' # <<>> /\ cur'[1] = up[1]
    BY <2>1, <2>3
  <2>5. /\ up[1].kind = "body" <=> up[1].body # 0
        /\ up[1].kind = "trailer" => closed = "yes"
    BY <2>3 DEF UpOK, WrittenOK
  <2>6. WrittenOK'
    <3>1. WrittenTail'
      BY <2>1, UpRead
    <3>2. QED
      BY <2>1, <2>3, <2>4, <2>5, <3>1 DEF WrittenTail, UpOK, WrittenOK
  <2>7. Held(ch)' = Held(ch) /\ Held(ch) \in {0, 1}
    BY <2>1 DEF Held
  <2>8. CASE up[1].kind = "body"
    <3>1. Held(cur)' = 1
      BY <2>4, <2>5, <2>8 DEF Held
    <3>2. Arrived' = Arrived + 1 /\ Arrived \in Nat
      BY <1>t, <2>1, <2>3, <2>7, <3>1 DEF Arrived
    <3>3. ReadBody
      BY <2>1, <2>3, <2>8, UpRead
    <3>4. PICK lo \in Nat :
              /\ lo + 1 <= asked /\ up[1].body = lo + 1
              /\ Run(up', lo + 1, asked) /\ Len(heard) <= lo
              /\ ended = "open" /\ serve # "exit" => lo = Arrived
      BY <3>3 DEF ReadBody
    <3>5. RequestsOK'
      <4>1. lo + 1 \in Nat /\ Len(heard') <= lo + 1 /\ lo + 1 <= asked'
        BY <1>t, <2>1, <3>4
      <4>2. ended' = "open" => lo + 1 = Arrived'
        BY <2>1, <3>2, <3>4
      <4>3. Run(up', lo + 1, asked')
        BY <2>1, <3>4
      <4>4. ended' = "open" => Arrived' <= lo + 1
        BY <3>2, <4>1, <4>2
      <4>5. QED
        BY <4>1, <4>2, <4>3, <4>4 DEF RequestsOK
    <3>6. QueuesOK'
      BY <2>1, <2>4, <2>5, <2>7, <2>8, <3>2, <3>4 DEF UpOK, QueuesOK
    <3>7. QED
      BY <2>6, <3>5, <3>6 DEF UpOK
  <2>9. CASE up[1].kind = "trailer"
    <3>1. Held(cur)' = 0
      BY <2>4, <2>5, <2>9 DEF Held
    <3>2. Arrived' = Arrived /\ Arrived \in Nat
      BY <1>t, <2>1, <2>3, <2>7, <3>1 DEF Arrived
    <3>3. ReadLast
      BY <2>1, <2>3, <2>9, UpRead
    <3>4. RequestsOK'
      BY <1>t, <2>1, <3>2, <3>3 DEF ReadLast, RequestsOK
    <3>5. QueuesOK'
      BY <2>1, <2>4, <2>7, <2>9, <3>1, <3>2, <3>3
         DEF ReadLast, UpOK, QueuesOK
    <3>6. QED
      BY <2>6, <3>4, <3>5 DEF UpOK
  <2>10. QED
    BY <2>1, <2>3, <2>8, <2>9
<1>16. ASSUME Push PROVE UpOK'
  <2>1. /\ serve = "push" /\ ch = <<>> /\ serve' = "read"
        /\ ch' = cur /\ cur' = <<>>
        /\ UNCHANGED <<send, closed, up, asked, heard, ended, eof>>
    BY <1>16 DEF Push, clientVars, ownVars, wireVars
  <2>2. Held(ch) = 0 /\ Held(ch)' = Held(cur) /\ Held(cur)' = 0
    BY <2>1 DEF Held
  <2>3. Held(cur) \in {0, 1}
    BY DEF Held
  <2>4. Arrived' = Arrived
    BY <1>t, <2>1, <2>2, <2>3 DEF Arrived
  <2>5. WrittenOK'
    BY <2>1 DEF UpOK, WrittenOK
  <2>6. RequestsOK'
    BY <2>1, <2>4 DEF UpOK, RequestsOK
  <2>7. QueuesOK'
    <3>1. Held(cur) = 0 => Arrived = Len(heard)
      BY <1>t, <2>2 DEF Arrived
    <3>2. Held(cur) = 1 => Arrived = Len(heard) + 1
      BY <1>t, <2>2 DEF Arrived
    <3>3. cur # <<>> /\ cur[1].kind = "trailer" => Held(cur) = 0
      BY DEF UpOK, WrittenOK, Held
    <3>4. QED
      BY <2>1, <2>2, <3>1, <3>2, <3>3 DEF UpOK, QueuesOK
  <2>8. QED
    BY <2>5, <2>6, <2>7 DEF UpOK
<1>17. ASSUME ServeTrailer PROVE UpOK'
  <2>1. /\ up # <<>> /\ Head(up).kind = "trailer" /\ up' = Tail(up)
        /\ UNCHANGED <<send, closed, asked, heard, cur, ch, ended, serve, eof>>
    BY <1>17 DEF ServeTrailer, ServeRead, clientVars, ownVars
  <2>2. WrittenOK' /\ ReadOther
    BY <2>1, UpRead
  <2>3. QED
    BY <2>1, <2>2 DEF ReadOther, UpOK, RequestsOK, QueuesOK, Arrived
<1>18. ASSUME ServeRefuse PROVE UpOK'
  <2>1. /\ up # <<>> /\ Head(up).kind = "body" /\ up' = Tail(up)
        /\ UNCHANGED <<send, closed, asked, heard, cur, ch, ended, eof>>
    BY <1>18 DEF ServeRefuse, ServeRead, clientVars, ownVars
  <2>2. app # "none" /\ ~Registered
    BY <1>18, <2>1, ServerTail DEF ServeRefuse
  <2>3. ended # "open"
    BY <2>2 DEF Registered, ServerOK
  <2>4. WrittenOK' /\ ReadBody
    BY <2>1, UpRead
  <2>5. QED
    BY <1>t, <2>1, <2>3, <2>4 DEF ReadBody, UpOK, RequestsOK, QueuesOK
<1>19. ASSUME ServeExit PROVE UpOK'
  <2>1. /\ serve' = "exit" /\ cur' = <<>>
        /\ UNCHANGED <<send, closed, up, asked, heard, ch, ended, eof>>
    BY <1>19 DEF ServeExit, clientVars, ownVars, wireVars
  <2>2. Held(cur)' = 0 /\ Held(ch)' = Held(ch) /\ Held(ch) \in {0, 1}
        /\ Held(cur) \in {0, 1}
    BY <2>1 DEF Held
  <2>3. Arrived' <= Arrived /\ Arrived \in Nat /\ Arrived' \in Nat
    BY <1>t, <2>1, <2>2 DEF Arrived
  <2>4. WrittenOK'
    BY <2>1 DEF UpOK, WrittenOK
  <2>5. RequestsOK'
    <3>1. PICK lo \in Nat :
              /\ Run(up, lo, asked) /\ Len(heard) <= lo /\ lo <= asked
              /\ ended = "open" => Arrived <= lo
      BY DEF UpOK, RequestsOK
    <3>2. ended = "open" => Arrived' <= lo
      BY <2>3, <3>1
    <3>3. QED
      BY <2>1, <3>1, <3>2 DEF RequestsOK
  <2>6. QueuesOK'
    BY <2>1, <2>2 DEF UpOK, QueuesOK
  <2>7. QED
    BY <2>4, <2>5, <2>6 DEF UpOK
<1>20. ASSUME AppRecv PROVE UpOK'
  <2>1. /\ app = "run" /\ ch # <<>> /\ ch' = <<>>
        /\ UNCHANGED <<send, closed, up, asked, cur, ended, serve>>
    BY <1>20 DEF AppRecv, clientVars, ownVars, wireVars
  <2>2. ended = "open" /\ Head(ch) = ch[1] /\ Held(ch)' = 0
        /\ Held(cur)' = Held(cur) /\ Held(cur) \in {0, 1}
    BY <1>t, <2>1 DEF ServerOK, Held
  <2>3. ch[1].kind = "body" <=> ch[1].body # 0
    BY <2>1 DEF UpOK, WrittenOK
  <2>4. WrittenOK'
    BY <2>1 DEF UpOK, WrittenOK
  <2>5. PICK lo \in Nat :
            /\ Run(up, lo, asked) /\ Len(heard) <= lo /\ lo <= asked
            /\ Arrived <= lo /\ (serve # "exit" => lo = Arrived)
    BY <2>2 DEF UpOK, RequestsOK
  <2>6. CASE ch[1].kind = "body"
    <3>1. /\ heard' = Append(heard, ch[1].body) /\ eof' = eof /\ Held(ch) = 1
          /\ ch[1].body \in Nat
      BY <1>20, <1>t, <2>1, <2>2, <2>3, <2>6 DEF AppRecv, Held
    <3>2. Len(heard') = Len(heard) + 1
      BY <1>t, <3>1
    <3>3. Arrived' = Arrived /\ Len(heard) + 1 <= Arrived /\ Arrived \in Nat
      BY <1>t, <2>2, <3>1, <3>2 DEF Arrived
    <3>4. Len(heard') <= lo /\ Len(heard) # asked
      BY <1>t, <2>5, <3>2, <3>3
    <3>5. RequestsOK'
      BY <2>1, <2>5, <3>3, <3>4 DEF RequestsOK
    <3>6. QueuesOK'
      BY <2>1, <2>2, <3>1, <3>3, <3>4 DEF UpOK, QueuesOK
    <3>7. QED
      BY <2>4, <3>5, <3>6 DEF UpOK
  <2>7. CASE ch[1].kind = "trailer"
    <3>1. heard' = heard /\ eof' = "yes" /\ Held(ch) = 0
      BY <1>20, <2>1, <2>2, <2>3, <2>7 DEF AppRecv, Held
    <3>2. Arrived' = Arrived
      BY <2>2, <3>1 DEF Arrived
    <3>3. closed = "yes" /\ Len(heard) = asked
      BY <2>1, <2>2, <2>7 DEF UpOK, WrittenOK, QueuesOK
    <3>4. RequestsOK'
      BY <2>1, <2>5, <3>1, <3>2 DEF RequestsOK
    <3>5. QueuesOK'
      BY <2>1, <2>2, <3>1, <3>2, <3>3 DEF UpOK, QueuesOK
    <3>6. QED
      BY <2>4, <3>4, <3>5 DEF UpOK
  <2>8. QED
    BY <2>1, <2>6, <2>7 DEF UpOK, WrittenOK
<1>21. ASSUME AppSend PROVE UpOK'
  BY <1>21, UpFrame DEF AppSend, AppGoto, ownVars, wireVars, upOKVars
<1>22. ASSUME AppSendOk PROVE UpOK'
  BY <1>22, UpFrame DEF AppSendOk, AppGoto, Reply, ownVars, wireVars,
     Client!NoRpc, upOKVars
<1>23. ASSUME AppSendCtx PROVE UpOK'
  BY <1>23, UpFrame DEF AppSendCtx, AppGoto, ownVars, wireVars, upOKVars
<1>24. ASSUME AppReturn PROVE UpOK'
  <2>1. /\ ended' # "open"
        /\ UNCHANGED <<send, closed, up, asked, heard, cur, ch, serve, eof>>
    BY <1>24 DEF AppReturn, AppGoto, ownVars, wireVars
  <2>2. QED
    BY <2>1 DEF UpOK, WrittenOK, RequestsOK, QueuesOK
<1>25. ASSUME SendTrailer PROVE UpOK'
  BY <1>25, UpFrame DEF SendTrailer, AppGoto, Last, ownVars, wireVars,
     upOKVars
<1>26. ASSUME unregisterStream PROVE UpOK'
  BY <1>26, UpFrame DEF unregisterStream, AppGoto, ownVars, wireVars, upOKVars
<1>27. ASSUME StreamTimeout PROVE UpOK'
  BY <1>27, UpFrame DEF StreamTimeout, Fault, Registered, clientVars, ownVars,
     upOKVars
<1>28. ASSUME WriteOk PROVE UpOK'
  BY <1>28, UpFrame DEF WriteOk, clientVars, ownVars, upOKVars
<1>29. ASSUME WriteFails PROVE UpOK'
  BY <1>29, UpFrame DEF WriteFails, clientVars, ownVars, upOKVars
<1>30. CASE UNCHANGED vars
  BY <1>30, UpFrame DEF vars, clientVars, ownVars, wireVars, serverVars,
     upOKVars
<1>31. QED
  BY <1>1, <1>2, <1>3, <1>4, <1>5, <1>6, <1>7, <1>8, <1>9, <1>10, <1>11,
     <1>12, <1>13, <1>14, <1>15, <1>16, <1>17, <1>18, <1>19, <1>20, <1>21,
     <1>22, <1>23, <1>24, <1>25, <1>26, <1>27, <1>28, <1>29, <1>30 DEF Next

-----------------------------------------------------------------------------
(* Replies. *)

repliesVars == <<rpc, down, slot, loop, loopTrailer, app, ended, refused>>

\* Steps that neither write nor read replies.
LEMMA RepliesFrame == RepliesOK /\ UNCHANGED repliesVars => RepliesOK'
  BY DEF RepliesOK, Genuine, HasEnded, Handling, repliesVars

\* What the write goroutine holds is the last body or the handler's status.
LEMMA OutIs ==
    ASSUME TypeOK, ServerOK, out # <<>>
    PROVE  /\ Genuine(out[1])
           /\ out[1].body # 0 => out[1].body = sent /\ ~Final(out[1])
           /\ out[1].body = 0 => Final(out[1]) /\ ended # "open"
<1>1. sent \in 0..MaxBodies /\ ended \in {"open"} \cup Stream!Statuses
  BY DEF TypeOK, Stream!TypeOK
<1>2. CASE out = <<Reply(sent)>> /\ sent # 0
  <2>1. out[1] = Reply(sent)
    BY <1>2
  <2>2. QED
    BY <1>1, <1>2, <2>1, ReplyIs DEF Genuine, Final
<1>3. CASE out = <<Last(ended)>> /\ HasEnded
  <2>1. out[1] = Last(ended) /\ ended # "open" /\ ended # "none"
    BY <1>3 DEF ServerOK, HasEnded
  <2>2. QED
    BY <1>1, <1>3, <2>1, LastIs DEF Genuine, Final
<1>4. QED
  BY <1>2, <1>3 DEF ServerOK

\* Every step keeps the replies genuine.
LEMMA RepliesStep == IInv /\ [Next]_vars => RepliesOK'
<1> SUFFICES ASSUME TypeOK, ServerOK, RepliesOK, [Next]_vars PROVE RepliesOK'
  BY DEF IInv
<1>1. ASSUME ClientLoop PROVE RepliesOK'
  <2>1. ASSUME Client!LoopRead, Unwritten PROVE RepliesOK'
    <3>1. /\ rpc' \in slot /\ slot' = {} /\ loop' \in {"header", "check"}
          /\ UNCHANGED <<down, loopTrailer, app, ended, refused>>
      BY <2>1 DEF Client!LoopRead, Unwritten, wireVars, serverVars
    <3>2. QED
      BY <3>1 DEF RepliesOK, Genuine, HasEnded, Handling
  <2>2. ASSUME Client!LoopReadCtx, Unwritten PROVE RepliesOK'
    BY <2>2 DEF Client!LoopReadCtx, Client!LoopReadErr, Client!onReady,
       Client!ctxVars, Client!netVars, Client!recvVars, Client!sendVars,
       Client!Unlocked, Unwritten, wireVars, serverVars, RepliesOK, Genuine,
       HasEnded, Handling
  <2>3. ASSUME Client!LoopReadClosed, Unwritten PROVE RepliesOK'
    BY <2>3 DEF Client!LoopReadClosed, Client!LoopReadErr, Client!onReady,
       Client!ctxVars, Client!netVars, Client!recvVars, Client!sendVars,
       Client!Unlocked, Unwritten, wireVars, serverVars, RepliesOK, Genuine,
       HasEnded, Handling
  <2>4. ASSUME Client!LoopHeader, Unwritten PROVE RepliesOK'
    BY <2>4 DEF Client!LoopHeader, Client!onReady, Client!ctxVars,
       Client!netVars, Client!recvVars, Client!sendVars, Client!Unlocked,
       Unwritten, wireVars, serverVars, RepliesOK, Genuine, HasEnded, Handling
  <2>5. ASSUME Client!LoopCheck, Unwritten PROVE RepliesOK'
    BY <2>5 DEF Client!LoopCheck, Client!errorIfDone, Client!ctxVars,
       Client!netVars, Client!recvVars, Client!sendVars, Unwritten, wireVars,
       serverVars, RepliesOK, Genuine, HasEnded, Handling
  <2>6. ASSUME Client!LoopPushCtx, Unwritten PROVE RepliesOK'
    BY <2>6 DEF Client!LoopPushCtx, Client!ctxVars, Client!netVars,
       Client!recvVars, Client!sendVars, Unwritten, wireVars, serverVars,
       RepliesOK, Genuine, HasEnded, Handling
  <2>7. ASSUME Client!LoopExit, Unwritten PROVE RepliesOK'
    BY <2>7 DEF Client!LoopExit, Client!MustReset, Client!ctxVars,
       Client!netVars, Client!recvVars, Client!sendVars, Unwritten, wireVars,
       serverVars, RepliesOK, Genuine, HasEnded, Handling
  <2>8. ASSUME Client!LoopUnregister, Unwritten PROVE RepliesOK'
    BY <2>8 DEF Client!LoopUnregister, Client!ctxVars, Client!recvVars,
       Client!sendVars, Unwritten, wireVars, serverVars, RepliesOK, Genuine,
       HasEnded, Handling
  <2>9. ASSUME Client!LoopCancel, Unwritten PROVE RepliesOK'
    BY <2>9 DEF Client!LoopCancel, Client!netVars, Client!recvVars,
       Client!sendVars, Unwritten, wireVars, serverVars, RepliesOK, Genuine,
       HasEnded, Handling
  <2>10. ASSUME Client!LoopPublish, Unwritten PROVE RepliesOK'
    BY <2>10 DEF Client!LoopPublish, Client!ctxVars, Client!netVars,
       Client!recvVars, Client!sendVars, Unwritten, wireVars, serverVars,
       RepliesOK, Genuine, HasEnded, Handling
  <2>11. QED
    BY <1>1, <2>1, <2>2, <2>3, <2>4, <2>5, <2>6, <2>7, <2>8, <2>9, <2>10 DEF
       ClientLoop
<1>2. ASSUME ClientReset PROVE RepliesOK'
  <2>1. /\ loop' = "unregister"
        /\ UNCHANGED <<rpc, down, slot, loopTrailer, app, ended, refused>>
    BY <1>2 DEF ClientReset, Client!LoopReset, Client!netVars, serverVars
  <2>2. QED
    BY <2>1 DEF RepliesOK, Genuine, HasEnded, Handling
<1>3. ASSUME ClientRecvCall PROVE RepliesOK'
  BY <1>3, RepliesFrame DEF ClientRecvCall, Client!RecvCall, Unwritten,
     Client!Unlocked, Client!RecvReturns, Client!loopVars, Client!ctxVars,
     Client!netVars, Client!sendVars, wireVars, serverVars, repliesVars
<1>4. ASSUME ClientRecv PROVE RepliesOK'
  <2>1. ASSUME Client!RecvCtx, Unwritten PROVE RepliesOK'
    BY <2>1, RepliesFrame DEF Client!RecvCtx, Client!RecvReturns,
       Client!loopVars, Client!ctxVars, Client!netVars, Client!sendVars,
       Unwritten, wireVars, serverVars, repliesVars
  <2>2. ASSUME Client!RecvBody, Unwritten PROVE RepliesOK'
    BY <2>2 DEF Client!RecvBody, Client!ctxVars, Client!netVars,
       Client!sendVars, Unwritten, wireVars, serverVars, RepliesOK, Genuine,
       HasEnded, Handling
  <2>3. ASSUME Client!RecvFindsClosed, Unwritten PROVE RepliesOK'
    BY <2>3, RepliesFrame DEF Client!RecvFindsClosed, Client!loopVars,
       Client!ctxVars, Client!netVars, Client!sendVars, Unwritten, wireVars,
       serverVars, repliesVars
  <2>4. ASSUME Client!RecvAfterClose, Unwritten PROVE RepliesOK'
    BY <2>4, RepliesFrame DEF Client!RecvAfterClose, Client!Unlocked,
       Client!RecvReturns, Client!loopVars, Client!ctxVars, Client!netVars,
       Client!sendVars, Unwritten, wireVars, serverVars, repliesVars
  <2>5. QED
    BY <1>4, <2>1, <2>2, <2>3, <2>4 DEF ClientRecv, Client!RecvProgress
<1>5. ASSUME ClientSendStep PROVE RepliesOK'
  BY <1>5, SendFoot, RepliesFrame DEF repliesVars, sendFootVars, Unwritten,
     wireVars, serverVars
<1>6. ASSUME ClientTeardown PROVE RepliesOK'
  BY <1>6, SendFoot, RepliesFrame DEF repliesVars, sendFootVars, Unwritten,
     wireVars, serverVars
<1>7. ASSUME ClientWrite PROVE RepliesOK'
  BY <1>7, RepliesFrame DEF ClientWrite, Client!SendWrite, Body, serverVars,
     Client!SendStep, Client!SendFails, Client!loopVars, Client!ctxVars,
     Client!netVars, Client!recvVars, repliesVars
<1>8. ASSUME ClientCloseSend PROVE RepliesOK'
  BY <1>8, RepliesFrame DEF ClientCloseSend, Client!CloseSend, Mark,
     serverVars, Client!SendStep, Client!loopVars, Client!ctxVars,
     Client!netVars, Client!recvVars, repliesVars
<1>9. ASSUME UserCancel PROVE RepliesOK'
  BY <1>9, RepliesFrame DEF UserCancel, Fault, Client!UserCancel, serverVars,
     Client!loopVars, Client!netVars, Client!recvVars, Client!sendVars,
     repliesVars
<1>10. ASSUME Deliver PROVE RepliesOK'
  <2>1. /\ down # <<>> /\ down' = Tail(down)
        /\ slot' = {Head(down)} \/ slot' = slot
        /\ UNCHANGED <<rpc, loop, loopTrailer, app, ended, refused>>
    BY <1>10 DEF Deliver, ownVars, serverVars
  <2>2. /\ Head(down) = down[1] /\ 1 \in DOMAIN down
        /\ \A i \in DOMAIN down' : i + 1 \in DOMAIN down /\ down'[i] = down[i + 1]
    BY <2>1, QueueTypes, TailFacts
  <2>3. Genuine(down[1]) /\ \A i \in DOMAIN down' : Genuine(down'[i])
    BY <2>2 DEF RepliesOK
  <2>4. QED
    BY <2>1, <2>2, <2>3 DEF RepliesOK, Genuine, HasEnded, Handling
<1>11. ASSUME Breaks PROVE RepliesOK'
  BY <1>11, RepliesFrame DEF Breaks, Fault, clientVars, serverVars, ownVars,
     repliesVars
<1>12. ASSUME ClientDisconnected PROVE RepliesOK'
  BY <1>12, RepliesFrame DEF ClientDisconnected, Client!ConnectionFails,
     Unwritten, Client!loopVars, Client!ctxVars, Client!recvVars,
     Client!sendVars, wireVars, serverVars, repliesVars
<1>13. ASSUME ServeOpen PROVE RepliesOK'
  <2>0. app = "none"
    BY <1>13, QueueTypes, TailFacts DEF ServeOpen, ServeRead, ServerOK
  <2>1. /\ HasEnded => HasEnded'
        /\ UNCHANGED <<rpc, down, slot, loop, loopTrailer, ended, refused>>
    BY <1>13, <2>0 DEF ServeOpen, ServeRead, clientVars, ownVars, clientVars,
       ownVars,
       HasEnded
  <2>2. QED
    BY <2>1 DEF RepliesOK, Genuine, Handling
<1>14. ASSUME ServeReset PROVE RepliesOK'
  BY <1>14, RepliesFrame DEF ServeReset, ServeRead, Registered, clientVars,
     ownVars, repliesVars
<1>15. ASSUME ServePush PROVE RepliesOK'
  BY <1>15, RepliesFrame DEF ServePush, ServeRead, Registered, clientVars,
     ownVars, repliesVars
<1>16. ASSUME Push PROVE RepliesOK'
  BY <1>16, RepliesFrame DEF Push, clientVars, wireVars, ownVars, repliesVars
<1>17. ASSUME ServeTrailer PROVE RepliesOK'
  BY <1>17, RepliesFrame DEF ServeTrailer, ServeRead, Registered, clientVars,
     ownVars, repliesVars
<1>18. ASSUME ServeRefuse PROVE RepliesOK'
  <2>1. /\ app \notin {"none", "run", "send", "trailer", "unregister"}
        /\ down' = down \/ down' = Append(down, Last("none"))
        /\ refused' = "yes"
        /\ UNCHANGED <<rpc, slot, loop, loopTrailer, app, ended>>
    <3>1. app # "none" /\ ~Registered
      BY <1>18, ServerTail DEF ServeRefuse, ServeRead
    <3>2. QED
      BY <1>18, <3>1 DEF ServeRefuse, ServeRead, Registered, clientVars,
         ownVars,
         TypeOK, WireTypes
  <2>2. HasEnded /\ HasEnded'
    BY <2>1 DEF HasEnded, TypeOK, WireTypes
  <2>3. \A i \in DOMAIN down' :
            down'[i] = Last("none") \/ (i \in DOMAIN down /\ down'[i] = down[i])
    <3>1. Last("none") \in Stream!Rpc /\ down \in Seq(Stream!Rpc)
      BY QueueTypes, LastIs DEF Stream!Statuses
    <3>2. CASE down' = Append(down, Last("none"))
      BY <3>1, <3>2, AppendEach
    <3>3. QED
      BY <2>1, <3>2
  <2>4. Genuine(Last("none"))'
    BY <2>1, <2>2, LastIs DEF Genuine, Stream!Statuses
  <2>5. QED
    BY <2>1, <2>2, <2>3, <2>4 DEF RepliesOK, Genuine, Handling
<1>19. ASSUME ServeExit PROVE RepliesOK'
  BY <1>19, RepliesFrame DEF ServeExit, clientVars, wireVars, ownVars,
     repliesVars
<1>20. ASSUME AppRecv PROVE RepliesOK'
  BY <1>20, RepliesFrame DEF AppRecv, clientVars, wireVars, ownVars,
     repliesVars
<1>21. ASSUME AppSend PROVE RepliesOK'
  <2>1. /\ HasEnded => HasEnded'
        /\ UNCHANGED <<rpc, down, slot, loop, loopTrailer, ended, refused>>
    BY <1>21 DEF AppSend, AppGoto, ownVars, wireVars, clientVars, ownVars,
       HasEnded
  <2>2. QED
    BY <2>1 DEF RepliesOK, Genuine, Handling
<1>22. ASSUME AppSendOk PROVE RepliesOK'
  <2>1. /\ HasEnded => HasEnded'
        /\ UNCHANGED <<rpc, down, slot, loop, loopTrailer, ended, refused>>
    BY <1>22 DEF AppSendOk, AppGoto, ownVars, wireVars, clientVars, ownVars,
       HasEnded
  <2>2. QED
    BY <2>1 DEF RepliesOK, Genuine, Handling
<1>23. ASSUME AppSendCtx PROVE RepliesOK'
  <2>1. /\ HasEnded => HasEnded'
        /\ UNCHANGED <<rpc, down, slot, loop, loopTrailer, ended, refused>>
    BY <1>23 DEF AppSendCtx, AppGoto, ownVars, wireVars, clientVars, ownVars,
       HasEnded
  <2>2. QED
    BY <2>1 DEF RepliesOK, Genuine, Handling
<1>24. ASSUME AppReturn PROVE RepliesOK'
  <2>1. /\ app = "run" /\ app' = "trailer"
        /\ UNCHANGED <<rpc, down, slot, loop, loopTrailer, refused>>
    BY <1>24 DEF AppReturn, AppGoto, ownVars, wireVars
  <2>2. ~HasEnded
    BY <2>1 DEF HasEnded
  <2>3. QED
    BY <2>1, <2>2 DEF RepliesOK, Genuine, Handling
<1>25. ASSUME SendTrailer PROVE RepliesOK'
  <2>1. /\ HasEnded => HasEnded'
        /\ UNCHANGED <<rpc, down, slot, loop, loopTrailer, ended, refused>>
    BY <1>25 DEF SendTrailer, AppGoto, ownVars, wireVars, clientVars, ownVars,
       HasEnded
  <2>2. QED
    BY <2>1 DEF RepliesOK, Genuine, Handling
<1>26. ASSUME unregisterStream PROVE RepliesOK'
  <2>1. /\ HasEnded => HasEnded'
        /\ UNCHANGED <<rpc, down, slot, loop, loopTrailer, ended, refused>>
    BY <1>26 DEF unregisterStream, AppGoto, ownVars, wireVars, clientVars,
       ownVars, HasEnded
  <2>2. QED
    BY <2>1 DEF RepliesOK, Genuine, Handling
<1>27. ASSUME StreamTimeout PROVE RepliesOK'
  BY <1>27, RepliesFrame DEF StreamTimeout, Fault, Registered, clientVars,
     ownVars, repliesVars
<1>28. ASSUME WriteOk PROVE RepliesOK'
  <2>1. /\ out # <<>> /\ down' = Append(down, Head(out))
        /\ UNCHANGED <<rpc, slot, loop, loopTrailer, app, ended, refused>>
    BY <1>28 DEF WriteOk, clientVars, ownVars
  <2>2. Head(out) = out[1] /\ out[1] \in Stream!Rpc
    BY <2>1, QueueTypes, TailFacts
  <2>3. Genuine(out[1])
    BY <2>1, OutIs
  <2>4. \A i \in DOMAIN down' :
            down'[i] = out[1] \/ (i \in DOMAIN down /\ down'[i] = down[i])
    <3>1. out[1] \in Stream!Rpc /\ down \in Seq(Stream!Rpc)
      BY <2>2, QueueTypes
    <3>2. down' = Append(down, out[1])
      BY <2>1, <2>2
    <3>3. QED
      BY <3>1, <3>2, AppendEach
  <2>5. QED
    BY <2>1, <2>3, <2>4 DEF RepliesOK, Genuine, HasEnded, Handling
<1>29. ASSUME WriteFails PROVE RepliesOK'
  BY <1>29, RepliesFrame DEF WriteFails, clientVars, ownVars, repliesVars
<1>30. CASE UNCHANGED vars
  BY <1>30, RepliesFrame DEF vars, clientVars, ownVars, wireVars, serverVars,
     repliesVars
<1>31. QED
  BY <1>1, <1>2, <1>3, <1>4, <1>5, <1>6, <1>7, <1>8, <1>9, <1>10, <1>11,
     <1>12, <1>13, <1>14, <1>15, <1>16, <1>17, <1>18, <1>19, <1>20, <1>21,
     <1>22, <1>23, <1>24, <1>25, <1>26, <1>27, <1>28, <1>29, <1>30 DEF Next

-----------------------------------------------------------------------------
(* The bodies of the replies. *)

receivedVars == <<loop, got, rpc, slot, sent>>
downOKVars == <<down, out, loop, got, rpc, slot, sent, torn, conn>>

\* What the client has of the replies, and what it counts.
LEMMA ReceivedFrame ==
    UNCHANGED receivedVars =>
        /\ ReceivedOK => ReceivedOK'
        /\ Received' = Received /\ Stream!Reading' = Stream!Reading
<1> SUFFICES ASSUME UNCHANGED receivedVars
             PROVE  /\ ReceivedOK => ReceivedOK'
                    /\ Received' = Received /\ Stream!Reading' = Stream!Reading
  OBVIOUS
<1>1. UNCHANGED <<loop, got, rpc, slot, sent>>
  BY DEF receivedVars
<1>2. /\ LoopBody' = LoopBody
      /\ SlotBody' = SlotBody
      /\ Stream!Reading' = Stream!Reading /\ Handling' = Handling
  BY <1>1 DEF LoopBody, SlotBody, Stream!Reading, Handling
<1>3. Received' = Received
  BY <1>1, <1>2 DEF Received
<1>4. ReceivedOK => ReceivedOK'
  BY <1>1, <1>2, <1>3 DEF ReceivedOK, Final
<1>5. QED
  BY <1>2, <1>3, <1>4

\* Steps that neither write nor read replies.
LEMMA DownFrame == DownOK /\ UNCHANGED downOKVars => DownOK'
<1> SUFFICES ASSUME DownOK, UNCHANGED downOKVars PROVE DownOK'
  OBVIOUS
<1>1. UNCHANGED receivedVars
  BY DEF downOKVars, receivedVars
<1>2. QED
  BY <1>1, ReceivedFrame DEF downOKVars, DownOK, LastOK, WireOK, Whole, Final

\* Once readLoop has stopped reading nothing more is received.
LEMMA DownStops ==
    DownOK /\ ~Stream!Reading' /\ UNCHANGED <<down, out>> => DownOK'
  BY DEF DownOK, LastOK, ReceivedOK, WireOK, Final

\* An Rpc without a body may follow the handler's status.
LEMMA LastAppend ==
    ASSUME down \in Seq(Stream!Rpc), LastOK, NEW r \in Stream!Rpc,
           r.body = 0, ~Final(r), down' = Append(down, r), out' = out
    PROVE  LastOK'
<1>1. \A i \in DOMAIN down' : \/ i \in DOMAIN down /\ down'[i] = down[i]
                              \/ i = Len(down) + 1 /\ down'[i] = r
  BY AppendEach
<1>2. QED
  BY <1>1 DEF LastOK, Final

\* Every step keeps the bodies of the replies in order, and complete.
LEMMA DownStep == IInv /\ [Next]_vars => DownOK'
<1> SUFFICES ASSUME TypeOK, ServerOK, RepliesOK, DownOK, [Next]_vars
             PROVE  DownOK'
  BY DEF IInv
<1>t. /\ down \in Seq(Stream!Rpc) /\ out \in Seq(Stream!Rpc)
      /\ got \in Seq(0..MaxBodies) /\ Len(got) \in Nat /\ sent \in Nat
      /\ sent \in 0..MaxBodies /\ torn \in {"no", "yes"}
      /\ \A r \in Stream!Rpc : r.body \in Nat
      /\ LoopBody \in {0, 1} /\ SlotBody \in {0, 1}
      /\ Received \in Nat
  <2>1. /\ down \in Seq(Stream!Rpc) /\ out \in Seq(Stream!Rpc)
        /\ got \in Seq(0..MaxBodies) /\ sent \in Nat
        /\ \A r \in Stream!Rpc : r.body \in Nat
    BY QueueTypes
  <2>2. sent \in 0..MaxBodies /\ torn \in {"no", "yes"}
    BY DEF TypeOK, Stream!TypeOK
  <2>3. LoopBody \in {0, 1} /\ SlotBody \in {0, 1}
    BY DEF LoopBody, SlotBody
  <2>4. Len(got) \in Nat
    BY <2>1
  <2>5. Received \in Nat
    BY <2>3, <2>4 DEF Received
  <2>6. QED
    BY <2>1, <2>2, <2>3, <2>4, <2>5
<1>1. ASSUME ClientLoop PROVE DownOK'
  <2>1. ASSUME Client!LoopRead, Unwritten PROVE DownOK'
    <3>1. /\ loop = "read" /\ loop' \in {"header", "check"}
          /\ rpc' \in slot /\ slot' = {}
          /\ UNCHANGED <<down, out, got, sent, torn, conn>>
      BY <2>1 DEF Client!LoopRead, Client!recvVars, Unwritten, wireVars,
         serverVars
    <3>2. /\ Stream!Reading /\ LoopBody = 0 /\ SlotBody' = 0
          /\ LoopBody' = SlotBody
      BY <3>1 DEF Stream!Reading, LoopBody, SlotBody, RepliesOK
    <3>3. Received' = Received
      BY <1>t, <3>1, <3>2 DEF Received
    <3>4. LastOK' /\ WireOK'
      BY <3>1, <3>2, <3>3 DEF DownOK, LastOK, WireOK, Whole
    <3>5. ReceivedOK'
      <4>1. LoopBody' = 1 => rpc'.body = Len(got) + 1
        BY <1>t, <3>1, <3>2 DEF LoopBody, DownOK, ReceivedOK
      <4>2. Final(rpc') => Len(got) = sent
        BY <1>t, <3>1, <3>2 DEF DownOK, ReceivedOK
      <4>3. Received' <= sent'
        BY <3>1, <3>2, <3>3 DEF DownOK, ReceivedOK
      <4>4. QED
        BY <3>1, <4>1, <4>2, <4>3 DEF ReceivedOK, Final
    <3>6. QED
      BY <3>4, <3>5 DEF DownOK
  <2>2. ASSUME Client!LoopReadCtx, Unwritten PROVE DownOK'
    <3>1. ~Stream!Reading' /\ UNCHANGED <<down, out>>
      BY <2>2 DEF Client!LoopReadCtx, Client!LoopReadErr, Client!onReady,
         Client!ctxVars, Client!netVars, Client!recvVars, Client!sendVars,
         Client!Unlocked, Unwritten, wireVars, serverVars, Stream!Reading
    <3>2. QED
      BY <3>1, DownStops
  <2>3. ASSUME Client!LoopReadClosed, Unwritten PROVE DownOK'
    <3>1. ~Stream!Reading' /\ UNCHANGED <<down, out>>
      BY <2>3 DEF Client!LoopReadClosed, Client!LoopReadErr, Client!onReady,
         Client!ctxVars, Client!netVars, Client!recvVars, Client!sendVars,
         Client!Unlocked, Unwritten, wireVars, serverVars, Stream!Reading
    <3>2. QED
      BY <3>1, DownStops
  <2>4. ASSUME Client!LoopHeader, Unwritten PROVE DownOK'
    <3>1. /\ loop = "header" /\ loop' = "check"
          /\ UNCHANGED <<down, out, got, rpc, slot, sent, torn, conn>>
      BY <2>4 DEF Client!LoopHeader, Client!netVars, Client!recvVars,
         Unwritten,
         wireVars, serverVars, RepliesOK
    <3>2. /\ Stream!Reading /\ Handling /\ LoopBody' = LoopBody
          /\ SlotBody' = SlotBody /\ Received' = Received
      BY <3>1 DEF Stream!Reading, Handling, LoopBody, SlotBody,
         Received
    <3>3. QED
      BY <3>1, <3>2 DEF DownOK, LastOK, ReceivedOK, WireOK, Whole, Final
  <2>5. ASSUME Client!LoopCheck, Unwritten PROVE DownOK'
    <3>1. /\ loop = "check" /\ loop' \in {"lock", "read", "push"}
          /\ loop' # "lock" => /\ rpc.trailer = "no"
                               /\ loop' = IF rpc.body = 0 THEN "read" ELSE "push"
          /\ UNCHANGED <<down, out, got, rpc, slot, sent, torn, conn>>
      BY <2>5 DEF Client!LoopCheck, Client!netVars, Client!recvVars, Unwritten,
         wireVars, serverVars
    <3>2. CASE loop' = "lock"
      BY <3>1, <3>2, DownStops DEF Stream!Reading
    <3>3. CASE loop' # "lock"
      <4>1. rpc.body # 0 /\ loop' = "push"
        BY <3>1, <3>3 DEF RepliesOK, Handling, Genuine
      <4>2. /\ Stream!Reading /\ ~Handling'
            /\ LoopBody' = LoopBody
            /\ SlotBody' = SlotBody /\ Received' = Received
        BY <3>1, <4>1 DEF Stream!Reading, Handling, LoopBody,
           SlotBody, Received
      <4>3. QED
        BY <3>1, <4>2 DEF DownOK, LastOK, ReceivedOK, WireOK, Whole, Final
    <3>4. QED
      BY <3>2, <3>3
  <2>6. ASSUME Client!LoopPushCtx, Unwritten PROVE DownOK'
    <3>1. ~Stream!Reading' /\ UNCHANGED <<down, out>>
      BY <2>6 DEF Client!LoopPushCtx, Client!ctxVars, Client!netVars,
         Client!recvVars, Client!sendVars, Unwritten, wireVars, serverVars,
         Stream!Reading
    <3>2. QED
      BY <3>1, DownStops
  <2>7. ASSUME Client!LoopExit, Unwritten PROVE DownOK'
    <3>1. ~Stream!Reading' /\ UNCHANGED <<down, out>>
      BY <2>7 DEF Client!LoopExit, Client!MustReset, Client!ctxVars,
         Client!netVars, Client!recvVars, Client!sendVars, Unwritten,
         wireVars, serverVars, Stream!Reading
    <3>2. QED
      BY <3>1, DownStops
  <2>8. ASSUME Client!LoopUnregister, Unwritten PROVE DownOK'
    <3>1. ~Stream!Reading' /\ UNCHANGED <<down, out>>
      BY <2>8 DEF Client!LoopUnregister, Client!ctxVars, Client!recvVars,
         Client!sendVars, Unwritten, wireVars, serverVars, Stream!Reading
    <3>2. QED
      BY <3>1, DownStops
  <2>9. ASSUME Client!LoopCancel, Unwritten PROVE DownOK'
    <3>1. ~Stream!Reading' /\ UNCHANGED <<down, out>>
      BY <2>9 DEF Client!LoopCancel, Client!netVars, Client!recvVars,
         Client!sendVars, Unwritten, wireVars, serverVars, Stream!Reading
    <3>2. QED
      BY <3>1, DownStops
  <2>10. ASSUME Client!LoopPublish, Unwritten PROVE DownOK'
    <3>1. ~Stream!Reading' /\ UNCHANGED <<down, out>>
      BY <2>10 DEF Client!LoopPublish, Client!ctxVars, Client!netVars,
         Client!recvVars, Client!sendVars, Unwritten, wireVars, serverVars,
         Stream!Reading
    <3>2. QED
      BY <3>1, DownStops
  <2>11. QED
    BY <1>1, <2>1, <2>2, <2>3, <2>4, <2>5, <2>6, <2>7, <2>8, <2>9, <2>10 DEF
       ClientLoop
<1>2. ASSUME ClientReset PROVE DownOK'
  <2>1. ~Stream!Reading' /\ UNCHANGED <<down, out>>
    BY <1>2 DEF ClientReset, Client!LoopReset, serverVars, Stream!Reading
  <2>2. QED
    BY <2>1, DownStops
<1>3. ASSUME ClientRecvCall PROVE DownOK'
  BY <1>3, DownFrame DEF ClientRecvCall, Client!RecvCall, Unwritten,
     Client!Unlocked, Client!RecvReturns, Client!loopVars, Client!ctxVars,
     Client!netVars, Client!sendVars, wireVars, serverVars, downOKVars
<1>4. ASSUME ClientRecv PROVE DownOK'
  <2>1. ASSUME Client!RecvCtx, Unwritten PROVE DownOK'
    BY <2>1, DownFrame DEF Client!RecvCtx, Client!RecvReturns,
       Client!loopVars, Client!ctxVars, Client!netVars, Client!sendVars,
       Unwritten, wireVars, serverVars, downOKVars
  <2>2. ASSUME Client!RecvBody, Unwritten PROVE DownOK'
    <3>1. /\ loop = "push" /\ loop' = "read" /\ got' = Append(got, rpc.body)
          /\ UNCHANGED <<down, out, rpc, slot, sent, torn, conn>>
      BY <2>2 DEF Client!RecvBody, Client!netVars, Unwritten, wireVars,
         serverVars
    <3>2. Len(got') = Len(got) + 1
      BY <1>t, <3>1
    <3>3. /\ Stream!Reading /\ ~Handling' /\ LoopBody = 1
          /\ LoopBody' = 0 /\ SlotBody' = SlotBody
      BY <3>1 DEF Stream!Reading, Handling, LoopBody, SlotBody,
         RepliesOK
    <3>4. Received' = Received
      BY <1>t, <3>2, <3>3 DEF Received
    <3>5. LastOK' /\ WireOK'
      BY <3>1, <3>3, <3>4 DEF DownOK, LastOK, WireOK, Whole
    <3>6. ReceivedOK'
      BY <1>t, <3>1, <3>2, <3>3, <3>4 DEF DownOK, ReceivedOK, Final
    <3>7. QED
      BY <3>5, <3>6 DEF DownOK
  <2>3. ASSUME Client!RecvFindsClosed, Unwritten PROVE DownOK'
    BY <2>3, DownFrame DEF Client!RecvFindsClosed, Client!loopVars,
       Client!ctxVars, Client!netVars, Client!sendVars, Unwritten, wireVars,
       serverVars, downOKVars
  <2>4. ASSUME Client!RecvAfterClose, Unwritten PROVE DownOK'
    BY <2>4, DownFrame DEF Client!RecvAfterClose, Client!Unlocked,
       Client!RecvReturns, Client!loopVars, Client!ctxVars, Client!netVars,
       Client!sendVars, Unwritten, wireVars, serverVars, downOKVars
  <2>5. QED
    BY <1>4, <2>1, <2>2, <2>3, <2>4 DEF ClientRecv, Client!RecvProgress
<1>5. ASSUME ClientSendStep PROVE DownOK'
  <2>1. UNCHANGED downOKVars
    BY <1>5, SendFoot DEF sendFootVars, Unwritten, wireVars, serverVars,
       ClientSendStep, Client!SendCall, Client!SendMarshal,
       Client!CloseSendCall, Client!netVars, downOKVars
  <2>2. QED
    BY <2>1, DownFrame
<1>6. ASSUME ClientTeardown PROVE DownOK'
  <2>1. /\ UNCHANGED <<down, out, loop, got, rpc, slot, sent, conn>>
        /\ torn' # torn => torn' = "yes"
    BY <1>6, SendFoot DEF sendFootVars, Unwritten, wireVars, serverVars,
       ClientTeardown, Client!SendUnregister, Client!SendCancel, Client!netVars
  <2>2. QED
    BY <2>1, ReceivedFrame DEF receivedVars, DownOK, LastOK, WireOK, Whole
<1>7. ASSUME ClientWrite PROVE DownOK'
  BY <1>7, DownFrame DEF ClientWrite, Client!SendWrite, Body, serverVars,
     Client!SendStep, Client!SendFails, Client!loopVars, Client!ctxVars,
     Client!netVars, Client!recvVars, downOKVars
<1>8. ASSUME ClientCloseSend PROVE DownOK'
  BY <1>8, DownFrame DEF ClientCloseSend, Client!CloseSend, Mark, serverVars,
     Client!SendStep, Client!loopVars, Client!ctxVars, Client!netVars,
     Client!recvVars, downOKVars
<1>9. ASSUME UserCancel PROVE DownOK'
  BY <1>9, DownFrame DEF UserCancel, Fault, Client!UserCancel, serverVars,
     Client!loopVars, Client!netVars, Client!recvVars, Client!sendVars,
     downOKVars
<1>10. ASSUME Deliver PROVE DownOK'
  <2>1. /\ down # <<>> /\ down' = Tail(down)
        /\ \/ torn = "no" /\ slot = {} /\ slot' = {Head(down)}
           \/ torn = "yes" /\ slot' = slot
        /\ UNCHANGED <<out, loop, got, rpc, sent, torn, conn>>
    BY <1>10 DEF Deliver, ownVars, serverVars
  <2>2. /\ Head(down) = down[1] /\ 1 \in DOMAIN down /\ down[1] \in Stream!Rpc
        /\ DOMAIN down = 1..Len(down) /\ Len(down) \in Nat
        /\ DOMAIN down' = 1..(Len(down) - 1)
        /\ \A i \in DOMAIN down' : i + 1 \in DOMAIN down /\ down'[i] = down[i + 1]
    BY <1>t, <2>1, TailFacts
  <2>3. LastOK'
    <3>1. ASSUME NEW i \in DOMAIN down', Final(down'[i])
          PROVE  out' = <<>> /\ \A j \in DOMAIN down' : j > i => down'[j].body = 0
      <4>1. /\ i + 1 \in DOMAIN down /\ Final(down[i + 1])
        BY <2>2, <3>1
      <4>2. out = <<>> /\ \A j \in DOMAIN down : j > i + 1 => down[j].body = 0
        BY <4>1 DEF DownOK, LastOK
      <4>3. \A j \in DOMAIN down' : j > i => j + 1 > i + 1
        BY <2>2
      <4>4. QED
        BY <2>1, <2>2, <4>2, <4>3
    <3>2. QED
      BY <3>1 DEF LastOK, Final
  <2>4. CASE ~Stream!Reading
    BY <2>1, <2>3, <2>4 DEF DownOK, ReceivedOK, WireOK, Stream!Reading
  <2>5. CASE Stream!Reading /\ torn = "yes"
    <3>1. UNCHANGED receivedVars
      BY <2>1, <2>5 DEF receivedVars
    <3>2. QED
      BY <2>1, <2>3, <2>5, <3>1, ReceivedFrame DEF receivedVars, DownOK, WireOK
  <2>6. CASE Stream!Reading /\ torn = "no"
    <3>1. slot = {} /\ slot' = {down[1]}
      BY <2>1, <2>2, <2>6
    <3>2. /\ SlotBody = 0 /\ LoopBody' = LoopBody
          /\ SlotBody' = IF down[1].body # 0 THEN 1 ELSE 0
          /\ Handling' = Handling
      BY <2>1, <3>1 DEF SlotBody, LoopBody, Handling
    <3>3. PICK hi \in Nat :
              /\ Run(down, Received, hi) /\ Received <= hi
              /\ hi + Held(out) <= sent
              /\ Whole => hi + Held(out) = sent
      BY <2>6 DEF DownOK, WireOK
    <3>4. /\ Held(out) \in {0, 1} /\ Held(out)' = Held(out)
      BY <2>1 DEF Held
    <3>5. /\ down[1].body = 0 => Run(Tail(down), Received, hi)
          /\ down[1].body # 0 =>
                 /\ down[1].body = Received + 1 /\ Received + 1 <= hi
                 /\ Run(Tail(down), Received + 1, hi)
      BY <1>t, <2>1, <3>3, RunTail
    <3>6. Received = Len(got) + LoopBody
      BY <1>t, <3>2 DEF Received
    <3>7. Whole' => Whole
      BY <2>1, <2>2 DEF Whole, Final
    <3>8. CASE down[1].body # 0
      <4>1. Received' = Received + 1
        BY <1>t, <2>1, <3>2, <3>6, <3>8 DEF Received
      <4>2. WireOK'
        BY <2>1, <3>3, <3>4, <3>5, <3>7, <3>8, <4>1 DEF WireOK
      <4>3. ~Final(down[1])
        BY <2>2, <3>8 DEF RepliesOK, Genuine, Final
      <4>4. Received' <= sent'
        BY <1>t, <2>1, <3>3, <3>4, <3>5, <3>8, <4>1
      <4>5. ReceivedOK'
        BY <2>1, <2>6, <3>1, <3>2, <3>5, <3>6, <3>8, <4>3, <4>4
           DEF DownOK, ReceivedOK, Final
      <4>6. QED
        BY <2>3, <4>2, <4>5 DEF DownOK
    <3>9. CASE down[1].body = 0
      <4>1. Received' = Received
        BY <1>t, <2>1, <3>2, <3>6, <3>9 DEF Received
      <4>2. WireOK'
        BY <2>1, <3>3, <3>4, <3>5, <3>7, <3>9, <4>1 DEF WireOK
      <4>3. ASSUME Final(down[1]) PROVE Received = sent
        <5>1. out = <<>> /\ \A j \in DOMAIN down : j > 1 => down[j].body = 0
          BY <2>2, <4>3 DEF DownOK, LastOK
        <5>2. \A j \in DOMAIN down : down[j].body = 0
          BY <2>2, <3>9, <5>1
        <5>3. Received = hi
          BY <1>t, <3>3, <5>2, RunEmpty
        <5>4. Held(out) = 0
          BY <5>1 DEF Held
        <5>5. Whole
          BY <2>2, <4>3 DEF Whole
        <5>6. QED
          BY <3>3, <5>3, <5>4, <5>5
      <4>4. ReceivedOK'
        BY <2>1, <2>6, <3>1, <3>2, <3>6, <3>9, <4>1, <4>3
           DEF DownOK, ReceivedOK, Final
      <4>5. QED
        BY <2>3, <4>2, <4>4 DEF DownOK
    <3>10. QED
      BY <3>8, <3>9
  <2>7. QED
    BY <1>t, <2>4, <2>5, <2>6
<1>11. ASSUME Breaks PROVE DownOK'
  <2>1. /\ UNCHANGED <<down, out, loop, got, rpc, slot, sent, torn>>
        /\ conn = "live"
    BY <1>11 DEF Breaks, clientVars, ownVars, serverVars
  <2>2. QED
    BY <2>1, ReceivedFrame DEF receivedVars, DownOK, LastOK, WireOK, Whole
<1>12. ASSUME ClientDisconnected PROVE DownOK'
  <2>1. /\ UNCHANGED <<down, out, loop, got, rpc, slot, sent, conn>>
        /\ torn' # torn => torn' = "yes"
    BY <1>12 DEF ClientDisconnected, Client!ConnectionFails, Client!loopVars,
       Client!recvVars, Unwritten, wireVars, serverVars
  <2>2. QED
    BY <2>1, ReceivedFrame DEF receivedVars, DownOK, LastOK, WireOK, Whole
<1>13. ASSUME ServeOpen PROVE DownOK'
  BY <1>13, DownFrame DEF ServeOpen, ServeRead, clientVars, ownVars,
     downOKVars
<1>14. ASSUME ServeReset PROVE DownOK'
  BY <1>14, DownFrame DEF ServeReset, ServeRead, Registered, clientVars,
     ownVars, downOKVars
<1>15. ASSUME ServePush PROVE DownOK'
  BY <1>15, DownFrame DEF ServePush, ServeRead, Registered, clientVars,
     ownVars, downOKVars
<1>16. ASSUME Push PROVE DownOK'
  BY <1>16, DownFrame DEF Push, clientVars, wireVars, ownVars, downOKVars
<1>17. ASSUME ServeTrailer PROVE DownOK'
  BY <1>17, DownFrame DEF ServeTrailer, ServeRead, Registered, clientVars,
     ownVars, downOKVars
<1>18. ASSUME ServeRefuse PROVE DownOK'
  <2>1. /\ down' = down \/ down' = Append(down, Last("none"))
        /\ UNCHANGED <<out, loop, got, rpc, slot, sent, torn, conn>>
    BY <1>18 DEF ServeRefuse, ServeRead, clientVars, ownVars
  <2>2. /\ Last("none") \in Stream!Rpc /\ Last("none").body = 0
        /\ ~Final(Last("none"))
    BY LastIs DEF Stream!Statuses, Final
  <2>3. CASE down' = down
    BY <2>1, <2>3, DownFrame DEF downOKVars
  <2>4. CASE down' = Append(down, Last("none"))
    <3>1. LastOK'
      BY <1>t, <2>1, <2>2, <2>4, LastAppend DEF DownOK
    <3>2. ReceivedOK' /\ Received' = Received /\ Stream!Reading' = Stream!Reading
      BY <2>1, ReceivedFrame DEF receivedVars, DownOK
    <3>3. Whole' => Whole
      BY <1>t, <2>1, <2>2, <2>4, AppendEach DEF Whole, Final
    <3>4. WireOK'
      <4>1. SUFFICES ASSUME Stream!Reading, torn = "no" PROVE WireOK'
        BY <2>1, <3>2 DEF WireOK
      <4>2. PICK hi \in Nat :
                /\ Run(down, Received, hi) /\ Received <= hi
                /\ hi + Held(out) <= sent
                /\ Whole => hi + Held(out) = sent
        BY <4>1 DEF DownOK, WireOK
      <4>3. Run(down', Received, hi)
        BY <1>t, <2>2, <2>4, <4>2, RunAppend
      <4>4. QED
        BY <2>1, <3>2, <3>3, <4>2, <4>3 DEF WireOK
    <3>5. QED
      BY <3>1, <3>2, <3>4 DEF DownOK
  <2>5. QED
    BY <2>1, <2>3, <2>4
<1>19. ASSUME ServeExit PROVE DownOK'
  BY <1>19, DownFrame DEF ServeExit, clientVars, wireVars, ownVars, downOKVars
<1>20. ASSUME AppRecv PROVE DownOK'
  BY <1>20, DownFrame DEF AppRecv, clientVars, wireVars, ownVars, downOKVars
<1>21. ASSUME AppSend PROVE DownOK'
  BY <1>21, DownFrame DEF AppSend, AppGoto, ownVars, wireVars, downOKVars
<1>22. ASSUME AppSendOk PROVE DownOK'
  <2>1. /\ app = "send" /\ out = <<>> /\ sent' = sent + 1
        /\ out' = <<Reply(sent + 1)>>
        /\ UNCHANGED <<down, loop, got, rpc, slot, torn, conn>>
    BY <1>22 DEF AppSendOk, AppGoto, ownVars, wireVars
  <2>2. /\ \A i \in DOMAIN down : ~Final(down[i])
        /\ \A r \in slot : ~Final(r)
        /\ Handling => ~Final(rpc)
    <3>1. ~HasEnded
      BY <2>1 DEF HasEnded
    <3>2. /\ \A i \in DOMAIN down : ~Final(down[i])
          /\ \A r \in slot : ~Final(r)
          /\ Handling => ~Final(rpc)
      BY <3>1 DEF RepliesOK, Genuine, Final
    <3>3. QED
      BY <3>2
  <2>3. Held(out) = 0 /\ Held(out)' = 1
    <3>1. sent + 1 \in 0..MaxBodies
      BY <1>t, <2>1, ConnBounds DEF ServerOK
    <3>2. out'[1].body # 0 /\ out' # <<>>
      BY <1>t, <2>1, <3>1, ReplyIs
    <3>3. QED
      BY <2>1, <3>2 DEF Held
  <2>4. /\ LoopBody' = LoopBody /\ Stream!Reading' = Stream!Reading
        /\ Received' = Received /\ Handling' = Handling
    BY <2>1 DEF LoopBody, SlotBody, Stream!Reading, Received,
       Handling
  <2>5. LastOK'
    BY <2>1, <2>2 DEF LastOK, Final
  <2>6. ReceivedOK'
    BY <1>t, <2>1, <2>2, <2>4 DEF DownOK, ReceivedOK, Final
  <2>7. WireOK'
    <3>1. SUFFICES ASSUME Stream!Reading, torn = "no" PROVE WireOK'
      BY <2>1, <2>4 DEF WireOK
    <3>2. PICK hi \in Nat :
              /\ Run(down, Received, hi) /\ Received <= hi
              /\ hi + Held(out) <= sent
              /\ Whole => hi + Held(out) = sent
      BY <3>1 DEF DownOK, WireOK
    <3>3. Whole' => Whole
      BY <2>1 DEF Whole, Final
    <3>4. hi + Held(out)' <= sent' /\ (Whole' => hi + Held(out)' = sent')
      BY <1>t, <2>1, <2>3, <3>2, <3>3
    <3>5. QED
      BY <2>1, <2>4, <3>2, <3>4 DEF WireOK
  <2>8. QED
    BY <2>5, <2>6, <2>7 DEF DownOK
<1>23. ASSUME AppSendCtx PROVE DownOK'
  BY <1>23, DownFrame DEF AppSendCtx, AppGoto, ownVars, wireVars, downOKVars
<1>24. ASSUME AppReturn PROVE DownOK'
  BY <1>24, DownFrame DEF AppReturn, AppGoto, ownVars, wireVars, downOKVars
<1>25. ASSUME SendTrailer PROVE DownOK'
  <2>1. /\ app = "trailer"
        /\ \/ out = <<>> /\ out' = <<Last(ended)>>
           \/ out' = out
        /\ UNCHANGED <<down, loop, got, rpc, slot, sent, torn, conn>>
    BY <1>25 DEF SendTrailer, AppGoto, ownVars, wireVars
  <2>2. \A i \in DOMAIN down : ~Final(down[i])
    BY <2>1 DEF RepliesOK, Genuine, Final, HasEnded
  <2>3. Held(out)' = Held(out)
    <3>1. Last(ended).body = 0
      BY DEF Last
    <3>2. QED
      BY <2>1, <3>1 DEF Held
  <2>4. LastOK'
    BY <2>1, <2>2 DEF LastOK, Final
  <2>5. ReceivedOK' /\ Received' = Received /\ Stream!Reading' = Stream!Reading
    BY <2>1, ReceivedFrame DEF receivedVars, DownOK
  <2>6. WireOK'
    BY <2>1, <2>3, <2>5 DEF DownOK, WireOK, Whole
  <2>7. QED
    BY <2>4, <2>5, <2>6 DEF DownOK
<1>26. ASSUME unregisterStream PROVE DownOK'
  BY <1>26, DownFrame DEF unregisterStream, AppGoto, ownVars, wireVars,
     downOKVars
<1>27. ASSUME StreamTimeout PROVE DownOK'
  BY <1>27, DownFrame DEF StreamTimeout, Fault, Registered, clientVars,
     ownVars, downOKVars
<1>28. ASSUME WriteOk PROVE DownOK'
  <2>1. /\ out # <<>> /\ conn = "live" /\ down' = Append(down, Head(out))
        /\ out' = <<>>
        /\ UNCHANGED <<loop, got, rpc, slot, sent, torn, conn>>
    BY <1>28 DEF WriteOk, clientVars, ownVars
  <2>2. Head(out) = out[1] /\ out[1] \in Stream!Rpc
    BY <1>t, <2>1, TailFacts
  <2>3. \A i \in DOMAIN down : ~Final(down[i])
    BY <2>1 DEF DownOK, LastOK
  <2>4. out[1].body # 0 => out[1].body = sent
    BY <2>1, OutIs
  <2>5. LastOK'
    <3>1. /\ DOMAIN down' = 1..(Len(down) + 1) /\ Len(down) \in Nat
          /\ \A i \in DOMAIN down' : \/ i \in DOMAIN down /\ down'[i] = down[i]
                                     \/ i = Len(down) + 1
      BY <1>t, <2>1, <2>2, AppendFacts, AppendEach
    <3>2. \A i \in DOMAIN down' : Final(down'[i]) => i = Len(down) + 1
      BY <2>3, <3>1
    <3>3. \A j \in DOMAIN down' : ~(j > Len(down) + 1)
      BY <3>1
    <3>4. QED
      BY <2>1, <3>2, <3>3 DEF LastOK, Final
  <2>6. ReceivedOK' /\ Received' = Received /\ Stream!Reading' = Stream!Reading
    BY <2>1, ReceivedFrame DEF receivedVars, DownOK
  <2>7. WireOK'
    <3>1. SUFFICES ASSUME Stream!Reading, torn = "no" PROVE WireOK'
      BY <2>1, <2>6 DEF WireOK
    <3>2. PICK hi \in Nat :
              /\ Run(down, Received, hi) /\ Received <= hi
              /\ hi + Held(out) = sent
      BY <2>1, <3>1 DEF DownOK, WireOK, Whole
    <3>3. Held(out)' = 0
      BY <2>1 DEF Held
    <3>4. Run(down', Received, sent)
      <4>1. CASE out[1].body = 0
        <5>1. hi = sent
          BY <2>1, <3>2, <4>1 DEF Held
        <5>2. QED
          BY <1>t, <2>1, <2>2, <3>2, <4>1, <5>1, RunAppend
      <4>2. CASE out[1].body # 0
        <5>1. hi + 1 = sent
          BY <2>1, <3>2, <4>2 DEF Held
        <5>2. out[1].body = hi + 1
          BY <2>4, <4>2, <5>1
        <5>3. Run(Append(down, out[1]), Received, hi + 1)
          BY <1>t, <2>2, <3>2, <5>2, RunAppend
        <5>4. QED
          BY <2>1, <2>2, <5>1, <5>3
      <4>3. QED
        BY <4>1, <4>2
    <3>5. Received <= sent
      BY <3>1 DEF DownOK, ReceivedOK
    <3>6. QED
      BY <1>t, <2>1, <2>6, <3>3, <3>4, <3>5 DEF WireOK
  <2>8. QED
    BY <2>5, <2>6, <2>7 DEF DownOK
<1>29. ASSUME WriteFails PROVE DownOK'
  <2>1. /\ out # <<>> /\ out' = <<>> /\ conn' = "stopped"
        /\ UNCHANGED <<down, loop, got, rpc, slot, sent, torn>>
    BY <1>29 DEF WriteFails, clientVars, ownVars
  <2>2. \A i \in DOMAIN down : ~Final(down[i])
    BY <2>1 DEF DownOK, LastOK
  <2>3. LastOK' /\ ~Whole'
    BY <2>1, <2>2 DEF LastOK, Whole, Final
  <2>4. ReceivedOK' /\ Received' = Received /\ Stream!Reading' = Stream!Reading
    BY <2>1, ReceivedFrame DEF receivedVars, DownOK
  <2>5. Held(out)' = 0 /\ Held(out) \in {0, 1}
    BY <2>1 DEF Held
  <2>6. WireOK'
    BY <1>t, <2>1, <2>3, <2>4, <2>5 DEF DownOK, WireOK
  <2>7. QED
    BY <2>3, <2>4, <2>6 DEF DownOK
<1>30. CASE UNCHANGED vars
  BY <1>30, DownFrame DEF vars, clientVars, ownVars, wireVars, serverVars,
     downOKVars
<1>31. QED
  BY <1>1, <1>2, <1>3, <1>4, <1>5, <1>6, <1>7, <1>8, <1>9, <1>10, <1>11,
     <1>12, <1>13, <1>14, <1>15, <1>16, <1>17, <1>18, <1>19, <1>20, <1>21,
     <1>22, <1>23, <1>24, <1>25, <1>26, <1>27, <1>28, <1>29, <1>30 DEF Next

-----------------------------------------------------------------------------
(* The verdict. *)

verdictVars == <<loopErr, rpc, refused, ended, got, sent, loopTrailer, rErr,
                 done, recvErr, recv>>

\* Steps that concern neither readLoop's error nor what it is about.
LEMMA VerdictFrame == VerdictOK /\ UNCHANGED verdictVars => VerdictOK'
  BY DEF VerdictOK, Truthful, verdictVars

\* Every step keeps io.EOF and the status true.
LEMMA VerdictStep == IInv /\ [Next]_vars => VerdictOK'
<1> SUFFICES ASSUME TypeOK, ClientOK, ServerOK, RepliesOK, DownOK, VerdictOK,
                    [Next]_vars
             PROVE  VerdictOK'
  BY DEF IInv
<1>1. ASSUME ClientLoop PROVE VerdictOK'
  <2>1. ASSUME Client!LoopRead, Unwritten PROVE VerdictOK'
    <3>1. /\ loop = "read"
          /\ UNCHANGED <<loopErr, refused, ended, got, sent, loopTrailer, rErr,
                         done, recvErr, recv>>
      BY <2>1 DEF Client!LoopRead, Client!recvVars, Unwritten, serverVars
    <3>2. loopTrailer # "set"
      BY <3>1 DEF ClientOK, Stream!ResetOK
    <3>3. loopErr \notin {"EOF", "status"}
      BY <3>2 DEF VerdictOK
    <3>4. QED
      BY <3>1, <3>3 DEF VerdictOK, Truthful
  <2>2. ASSUME Client!LoopReadCtx, Unwritten PROVE VerdictOK'
    BY <2>2 DEF Client!LoopReadCtx, Client!LoopReadErr, Client!onReady,
       Client!ctxVars, Client!netVars, Client!recvVars, Client!sendVars,
       Client!Unlocked, Unwritten, wireVars, serverVars, ClientOK,
       Stream!LockOK, VerdictOK, Truthful
  <2>3. ASSUME Client!LoopReadClosed, Unwritten PROVE VerdictOK'
    BY <2>3 DEF Client!LoopReadClosed, Client!LoopReadErr, Client!onReady,
       Client!ctxVars, Client!netVars, Client!recvVars, Client!sendVars,
       Client!Unlocked, Unwritten, wireVars, serverVars, ClientOK,
       Stream!LockOK, VerdictOK, Truthful
  <2>4. ASSUME Client!LoopHeader, Unwritten PROVE VerdictOK'
    BY <2>4, VerdictFrame DEF Client!LoopHeader, Client!onReady,
       Client!ctxVars, Client!netVars, Client!recvVars, Client!sendVars,
       Client!Unlocked, Unwritten, wireVars, serverVars, verdictVars
  <2>5. ASSUME Client!LoopCheck, Unwritten PROVE VerdictOK'
    <3>1. /\ loop = "check"
          /\ \/ /\ rpc.trailer = "yes" /\ loopTrailer' = "set"
                /\ loopErr' = IF rpc.status = "Err" THEN "status" ELSE "EOF"
             \/ UNCHANGED <<loopTrailer, loopErr>>
          /\ UNCHANGED <<rpc, refused, ended, got, sent, rErr, done, recvErr,
                         recv>>
      BY <2>5 DEF Client!LoopCheck, Client!errorIfDone, Client!netVars,
         Client!recvVars, Unwritten, serverVars
    <3>2. Handling /\ Stream!Reading /\ done # "yes"
      BY <3>1 DEF Handling, Stream!Reading, ClientOK, Stream!LockOK
    <3>3. /\ rpc.status # "none" => rpc.status = ended /\ Len(got) = sent
          /\ rpc.trailer = "yes" /\ rpc.status = "none" => refused = "yes"
      BY <3>2 DEF RepliesOK, Genuine, DownOK, ReceivedOK, Final
    <3>4. rpc.status \in {"none", "OK", "Err"}
      BY DEF TypeOK, Stream!TypeOK, Stream!Rpc, Stream!Statuses
    <3>5. Truthful(loopErr)'
      BY <3>1, <3>3, <3>4 DEF VerdictOK, Truthful
    <3>6. QED
      BY <3>1, <3>2, <3>5 DEF VerdictOK
  <2>6. ASSUME Client!LoopPushCtx, Unwritten PROVE VerdictOK'
    BY <2>6 DEF Client!LoopPushCtx, Client!ctxVars, Client!netVars,
       Client!recvVars, Client!sendVars, Unwritten, wireVars, serverVars,
       ClientOK, Stream!LockOK, VerdictOK, Truthful
  <2>7. ASSUME Client!LoopExit, Unwritten PROVE VerdictOK'
    BY <2>7, VerdictFrame DEF Client!LoopExit, Client!MustReset,
       Client!ctxVars, Client!netVars, Client!recvVars, Client!sendVars,
       Unwritten, wireVars, serverVars, verdictVars
  <2>8. ASSUME Client!LoopUnregister, Unwritten PROVE VerdictOK'
    BY <2>8, VerdictFrame DEF Client!LoopUnregister, Client!ctxVars,
       Client!recvVars, Client!sendVars, Unwritten, wireVars, serverVars,
       verdictVars
  <2>9. ASSUME Client!LoopCancel, Unwritten PROVE VerdictOK'
    BY <2>9, VerdictFrame DEF Client!LoopCancel, Client!netVars,
       Client!recvVars, Client!sendVars, Unwritten, wireVars, serverVars,
       verdictVars
  <2>10. ASSUME Client!LoopPublish, Unwritten PROVE VerdictOK'
    BY <2>10 DEF Client!LoopPublish, Client!ctxVars, Client!netVars,
       Client!recvVars, Client!sendVars, Unwritten, wireVars, serverVars,
       ClientOK, Stream!LockOK, VerdictOK, Truthful
  <2>11. QED
    BY <1>1, <2>1, <2>2, <2>3, <2>4, <2>5, <2>6, <2>7, <2>8, <2>9, <2>10 DEF
       ClientLoop
<1>2. ASSUME ClientReset PROVE VerdictOK'
  BY <1>2, VerdictFrame DEF ClientReset, Client!LoopReset, serverVars,
     Client!ctxVars, Client!netVars, Client!recvVars, Client!sendVars,
     verdictVars
<1>3. ASSUME ClientRecvCall PROVE VerdictOK'
  BY <1>3 DEF ClientRecvCall, Client!RecvCall, Unwritten, Client!Unlocked,
     Client!RecvReturns, Client!loopVars, Client!ctxVars, Client!netVars,
     Client!sendVars, wireVars, serverVars, VerdictOK, Truthful
<1>4. ASSUME ClientRecv PROVE VerdictOK'
  <2>1. ASSUME Client!RecvCtx, Unwritten PROVE VerdictOK'
    BY <2>1 DEF Client!RecvCtx, Client!RecvReturns, Client!loopVars,
       Client!ctxVars, Client!netVars, Client!sendVars, Unwritten, wireVars,
       serverVars, VerdictOK, Truthful
  <2>2. ASSUME Client!RecvBody, Unwritten PROVE VerdictOK'
    <3>1. /\ loop = "push" /\ recv = "select" /\ recv' = "idle"
          /\ recvErr' \in {recvErr, "codec"}
          /\ UNCHANGED <<loopErr, refused, ended, sent, loopTrailer, rErr,
                         done>>
      BY <2>2 DEF Client!RecvBody, Client!netVars, Unwritten, serverVars
    <3>2. loopTrailer # "set"
      BY <3>1 DEF ClientOK, Stream!ResetOK
    <3>3. loopErr \notin {"EOF", "status"} /\ recvErr \notin {"EOF", "status"}
      BY <3>1, <3>2 DEF VerdictOK
    <3>4. recvErr' \notin {"EOF", "status"}
      BY <3>1, <3>3
    <3>5. QED
      BY <3>1, <3>3, <3>4 DEF VerdictOK, Truthful
  <2>3. ASSUME Client!RecvFindsClosed, Unwritten PROVE VerdictOK'
    BY <2>3 DEF Client!RecvFindsClosed, Client!loopVars, Client!ctxVars,
       Client!netVars, Client!sendVars, Unwritten, wireVars, serverVars,
       VerdictOK, Truthful
  <2>4. ASSUME Client!RecvAfterClose, Unwritten PROVE VerdictOK'
    BY <2>4 DEF Client!RecvAfterClose, Client!Unlocked, Client!RecvReturns,
       Client!loopVars, Client!ctxVars, Client!netVars, Client!sendVars,
       Unwritten, wireVars, serverVars, ClientOK, Stream!LockOK, VerdictOK,
       Truthful
  <2>5. QED
    BY <1>4, <2>1, <2>2, <2>3, <2>4 DEF ClientRecv, Client!RecvProgress
<1>5. ASSUME ClientSendStep PROVE VerdictOK'
  BY <1>5, SendFoot, VerdictFrame DEF verdictVars, sendFootVars, Unwritten,
     wireVars, serverVars
<1>6. ASSUME ClientTeardown PROVE VerdictOK'
  BY <1>6, SendFoot, VerdictFrame DEF verdictVars, sendFootVars, Unwritten,
     wireVars, serverVars
<1>7. ASSUME ClientWrite PROVE VerdictOK'
  BY <1>7, VerdictFrame DEF ClientWrite, Client!SendWrite, serverVars,
     Client!SendStep, Client!SendFails, Client!loopVars, Client!ctxVars,
     Client!netVars, Client!recvVars, verdictVars
<1>8. ASSUME ClientCloseSend PROVE VerdictOK'
  BY <1>8, VerdictFrame DEF ClientCloseSend, Client!CloseSend, serverVars,
     Client!SendStep, Client!loopVars, Client!ctxVars, Client!netVars,
     Client!recvVars, verdictVars
<1>9. ASSUME UserCancel PROVE VerdictOK'
  BY <1>9, VerdictFrame DEF UserCancel, Fault, Client!UserCancel, serverVars,
     Client!loopVars, Client!netVars, Client!recvVars, Client!sendVars,
     verdictVars
<1>10. ASSUME Deliver PROVE VerdictOK'
  BY <1>10, VerdictFrame DEF Deliver, ownVars, serverVars, verdictVars
<1>11. ASSUME Breaks PROVE VerdictOK'
  BY <1>11, VerdictFrame DEF Breaks, Fault, clientVars, serverVars, ownVars,
     verdictVars
<1>12. ASSUME ClientDisconnected PROVE VerdictOK'
  BY <1>12, VerdictFrame DEF ClientDisconnected, Client!ConnectionFails,
     Unwritten, Client!loopVars, Client!ctxVars, Client!recvVars,
     Client!sendVars, wireVars, serverVars, verdictVars
<1>13. ASSUME ServeOpen PROVE VerdictOK'
  BY <1>13, VerdictFrame DEF ServeOpen, ServeRead, clientVars, ownVars,
     verdictVars
<1>14. ASSUME ServeReset PROVE VerdictOK'
  BY <1>14, VerdictFrame DEF ServeReset, ServeRead, Registered, clientVars,
     ownVars, verdictVars
<1>15. ASSUME ServePush PROVE VerdictOK'
  BY <1>15, VerdictFrame DEF ServePush, ServeRead, Registered, clientVars,
     ownVars, verdictVars
<1>16. ASSUME Push PROVE VerdictOK'
  BY <1>16, VerdictFrame DEF Push, clientVars, wireVars, ownVars, verdictVars
<1>17. ASSUME ServeTrailer PROVE VerdictOK'
  BY <1>17, VerdictFrame DEF ServeTrailer, ServeRead, Registered, clientVars,
     ownVars, verdictVars
<1>18. ASSUME ServeRefuse PROVE VerdictOK'
  <2>1. /\ refused' = "yes"
        /\ UNCHANGED <<loopErr, rpc, ended, got, sent, loopTrailer, rErr, done,
                      recvErr, recv>>
    BY <1>18 DEF ServeRefuse, ServeRead, clientVars, ownVars
  <2>2. QED
    BY <2>1 DEF VerdictOK, Truthful
<1>19. ASSUME ServeExit PROVE VerdictOK'
  BY <1>19, VerdictFrame DEF ServeExit, clientVars, wireVars, ownVars,
     verdictVars
<1>20. ASSUME AppRecv PROVE VerdictOK'
  BY <1>20, VerdictFrame DEF AppRecv, clientVars, wireVars, ownVars,
     verdictVars
<1>21. ASSUME AppSend PROVE VerdictOK'
  BY <1>21, VerdictFrame DEF AppSend, AppGoto, ownVars, wireVars, verdictVars
<1>22. ASSUME AppSendOk PROVE VerdictOK'
  <2>1. /\ ended = "open"
        /\ UNCHANGED <<loopErr, rpc, refused, got, loopTrailer, rErr, done,
                       recvErr, recv>>
    BY <1>22 DEF AppSendOk, AppGoto, ownVars, ServerOK
  <2>2. QED
    BY <2>1 DEF VerdictOK, Truthful
<1>23. ASSUME AppSendCtx PROVE VerdictOK'
  BY <1>23, VerdictFrame DEF AppSendCtx, AppGoto, ownVars, wireVars,
     verdictVars
<1>24. ASSUME AppReturn PROVE VerdictOK'
  <2>1. /\ ended = "open"
        /\ UNCHANGED <<loopErr, rpc, refused, got, loopTrailer, rErr, done,
                       recvErr, recv>>
    BY <1>24 DEF AppReturn, AppGoto, ownVars, ServerOK
  <2>2. QED
    BY <2>1 DEF VerdictOK, Truthful
<1>25. ASSUME SendTrailer PROVE VerdictOK'
  BY <1>25, VerdictFrame DEF SendTrailer, AppGoto, ownVars, wireVars,
     verdictVars
<1>26. ASSUME unregisterStream PROVE VerdictOK'
  BY <1>26, VerdictFrame DEF unregisterStream, AppGoto, ownVars, wireVars,
     verdictVars
<1>27. ASSUME StreamTimeout PROVE VerdictOK'
  BY <1>27, VerdictFrame DEF StreamTimeout, Fault, Registered, clientVars,
     ownVars, verdictVars
<1>28. ASSUME WriteOk PROVE VerdictOK'
  BY <1>28, VerdictFrame DEF WriteOk, clientVars, ownVars, verdictVars
<1>29. ASSUME WriteFails PROVE VerdictOK'
  BY <1>29, VerdictFrame DEF WriteFails, clientVars, ownVars, verdictVars
<1>30. CASE UNCHANGED vars
  BY <1>30, VerdictFrame DEF vars, clientVars, ownVars, wireVars, serverVars,
     verdictVars
<1>31. QED
  BY <1>1, <1>2, <1>3, <1>4, <1>5, <1>6, <1>7, <1>8, <1>9, <1>10, <1>11,
     <1>12, <1>13, <1>14, <1>15, <1>16, <1>17, <1>18, <1>19, <1>20, <1>21,
     <1>22, <1>23, <1>24, <1>25, <1>26, <1>27, <1>28, <1>29, <1>30 DEF Next

-----------------------------------------------------------------------------
(* How the two sides end. *)

tornVars == <<torn, conn, sendErr, loop, loopTrailer, ctx, sendRst>>

\* Steps that do not bring the client's side nearer to its end.
LEMMA TornFrame == TornOK /\ UNCHANGED tornVars => TornOK'
  BY DEF TornOK, tornVars

\* Every step keeps what ends the client's side.
LEMMA TornStep == IInv /\ [Next]_vars => TornOK'
<1> SUFFICES ASSUME TypeOK, ClientOK, RepliesOK, TornOK, [Next]_vars
             PROVE  TornOK'
  BY DEF IInv, EndsOK
<1>1. ASSUME ClientLoop PROVE TornOK'
  <2>1. ASSUME Client!LoopRead, Unwritten PROVE TornOK'
    BY <2>1 DEF Client!LoopRead, Client!ctxVars, Client!recvVars,
       Client!sendVars, Unwritten, wireVars, serverVars, TornOK
  <2>2. ASSUME Client!LoopReadCtx, Unwritten PROVE TornOK'
    BY <2>2 DEF Client!LoopReadCtx, Client!LoopReadErr, Client!onReady,
       Client!ctxVars, Client!netVars, Client!recvVars, Client!sendVars,
       Client!Unlocked, Unwritten, wireVars, serverVars, TornOK
  <2>3. ASSUME Client!LoopReadClosed, Unwritten PROVE TornOK'
    BY <2>3 DEF Client!LoopReadClosed, Client!LoopReadErr, Client!onReady,
       Client!ctxVars, Client!netVars, Client!recvVars, Client!sendVars,
       Client!Unlocked, Unwritten, wireVars, serverVars, TornOK
  <2>4. ASSUME Client!LoopHeader, Unwritten PROVE TornOK'
    BY <2>4 DEF Client!LoopHeader, Client!onReady, Client!ctxVars,
       Client!netVars, Client!recvVars, Client!sendVars, Client!Unlocked,
       Unwritten, wireVars, serverVars, RepliesOK, TornOK
  <2>5. ASSUME Client!LoopCheck, Unwritten PROVE TornOK'
    BY <2>5 DEF Client!LoopCheck, Client!errorIfDone, Client!ctxVars,
       Client!netVars, Client!recvVars, Client!sendVars, Unwritten, wireVars,
       serverVars, TypeOK, TornOK
  <2>6. ASSUME Client!LoopPushCtx, Unwritten PROVE TornOK'
    BY <2>6 DEF Client!LoopPushCtx, Client!ctxVars, Client!netVars,
       Client!recvVars, Client!sendVars, Unwritten, wireVars, serverVars,
       TornOK
  <2>7. ASSUME Client!LoopExit, Unwritten PROVE TornOK'
    BY <2>7 DEF Client!LoopExit, Client!MustReset, Client!ctxVars,
       Client!netVars, Client!recvVars, Client!sendVars, Unwritten, wireVars,
       serverVars, TornOK
  <2>8. ASSUME Client!LoopUnregister, Unwritten PROVE TornOK'
    BY <2>8 DEF Client!LoopUnregister, Client!ctxVars, Client!recvVars,
       Client!sendVars, Unwritten, wireVars, serverVars, TornOK
  <2>9. ASSUME Client!LoopCancel, Unwritten PROVE TornOK'
    BY <2>9 DEF Client!LoopCancel, Client!netVars, Client!recvVars,
       Client!sendVars, Unwritten, wireVars, serverVars, TornOK
  <2>10. ASSUME Client!LoopPublish, Unwritten PROVE TornOK'
    BY <2>10 DEF Client!LoopPublish, Client!ctxVars, Client!netVars,
       Client!recvVars, Client!sendVars, Unwritten, wireVars, serverVars,
       TornOK
  <2>11. QED
    BY <1>1, <2>1, <2>2, <2>3, <2>4, <2>5, <2>6, <2>7, <2>8, <2>9, <2>10 DEF
       ClientLoop
<1>2. ASSUME ClientReset PROVE TornOK'
  <2>1. /\ loop = "rst" /\ loop' = "unregister"
        /\ UNCHANGED <<torn, conn, sendErr, loopTrailer, ctx, sendRst>>
    BY <1>2 DEF ClientReset, Client!LoopReset, Client!netVars, Client!sendVars,
       Client!ctxVars
  <2>2. QED
    BY <2>1 DEF TornOK
<1>3. ASSUME ClientRecvCall PROVE TornOK'
  BY <1>3, TornFrame DEF ClientRecvCall, Client!RecvCall, Unwritten,
     Client!Unlocked, Client!RecvReturns, Client!loopVars, Client!ctxVars,
     Client!netVars, Client!sendVars, wireVars, serverVars, tornVars
<1>4. ASSUME ClientRecv PROVE TornOK'
  <2>1. ASSUME Client!RecvCtx, Unwritten PROVE TornOK'
    BY <2>1, TornFrame DEF Client!RecvCtx, Client!RecvReturns,
       Client!loopVars, Client!ctxVars, Client!netVars, Client!sendVars,
       Unwritten, wireVars, serverVars, tornVars
  <2>2. ASSUME Client!RecvBody, Unwritten PROVE TornOK'
    BY <2>2 DEF Client!RecvBody, Client!ctxVars, Client!netVars,
       Client!sendVars, Unwritten, wireVars, serverVars, TornOK
  <2>3. ASSUME Client!RecvFindsClosed, Unwritten PROVE TornOK'
    BY <2>3, TornFrame DEF Client!RecvFindsClosed, Client!loopVars,
       Client!ctxVars, Client!netVars, Client!sendVars, Unwritten, wireVars,
       serverVars, tornVars
  <2>4. ASSUME Client!RecvAfterClose, Unwritten PROVE TornOK'
    BY <2>4, TornFrame DEF Client!RecvAfterClose, Client!Unlocked,
       Client!RecvReturns, Client!loopVars, Client!ctxVars, Client!netVars,
       Client!sendVars, Unwritten, wireVars, serverVars, tornVars
  <2>5. QED
    BY <1>4, <2>1, <2>2, <2>3, <2>4 DEF ClientRecv, Client!RecvProgress
<1>5. ASSUME ClientSendStep PROVE TornOK'
  <2>1. /\ UNCHANGED <<loop, loopTrailer, conn, sendRst>>
        /\ UNCHANGED <<ctx, torn>> /\ (sendErr = "yes" => sendErr' = "yes")
    BY <1>5, SendFoot DEF sendFootVars, Unwritten, wireVars, ClientSendStep,
       Client!SendCall, Client!SendMarshal, Client!CloseSendCall,
       Client!SendStep, Client!SendFails, Client!ctxVars, Client!netVars
  <2>2. QED
    BY <2>1 DEF TornOK, TypeOK, Stream!TypeOK
<1>6. ASSUME ClientTeardown PROVE TornOK'
  <2>1. sendErr = "yes" /\ sendErr' = "yes"
    BY <1>6 DEF ClientTeardown, Client!SendUnregister, Client!SendCancel,
       Client!SendStep, ClientOK, Stream!ResetOK
  <2>2. UNCHANGED <<loop, loopTrailer, conn>>
    BY <1>6, SendFoot DEF sendFootVars, Unwritten, wireVars
  <2>3. /\ ctx = "done" => ctx' = "done"
        /\ torn = "yes" => torn' = "yes"
    BY <1>6 DEF ClientTeardown, Client!SendUnregister, Client!SendCancel,
       Client!ctxVars, Client!netVars
  <2>4. QED
    BY <2>1, <2>2, <2>3 DEF TornOK
<1>7. ASSUME ClientWrite PROVE TornOK'
  <2>1. /\ UNCHANGED <<loop, loopTrailer, conn, sendRst, ctx, torn>>
        /\ sendErr = "yes" => sendErr' = "yes"
    BY <1>7 DEF ClientWrite, Client!SendWrite, Client!SendStep,
       Client!SendFails, Client!loopVars, Client!ctxVars, Client!netVars
  <2>2. QED
    BY <2>1 DEF TornOK, TypeOK, Stream!TypeOK
<1>8. ASSUME ClientCloseSend PROVE TornOK'
  BY <1>8, TornFrame DEF ClientCloseSend, Client!CloseSend, serverVars,
     Client!SendStep, Client!loopVars, Client!ctxVars, Client!netVars,
     Client!recvVars, tornVars
<1>9. ASSUME UserCancel PROVE TornOK'
  BY <1>9 DEF UserCancel, Fault, Client!UserCancel, serverVars,
     Client!loopVars, Client!netVars, Client!recvVars, Client!sendVars,
     TypeOK, TornOK
<1>10. ASSUME Deliver PROVE TornOK'
  BY <1>10, TornFrame DEF Deliver, ownVars, serverVars, tornVars
<1>11. ASSUME Breaks PROVE TornOK'
  <2>1. conn' # "live" /\ UNCHANGED <<torn, sendErr, loop, loopTrailer, ctx, sendRst>>
    BY <1>11 DEF Breaks, clientVars, ownVars
  <2>2. QED
    BY <2>1 DEF TornOK
<1>12. ASSUME ClientDisconnected PROVE TornOK'
  BY <1>12 DEF ClientDisconnected, Client!ConnectionFails, Unwritten,
     Client!loopVars, Client!ctxVars, Client!recvVars, Client!sendVars,
     wireVars, serverVars, TornOK
<1>13. ASSUME ServeOpen PROVE TornOK'
  BY <1>13, TornFrame DEF ServeOpen, ServeRead, clientVars, ownVars, tornVars
<1>14. ASSUME ServeReset PROVE TornOK'
  BY <1>14, TornFrame DEF ServeReset, ServeRead, Registered, clientVars,
     ownVars, tornVars
<1>15. ASSUME ServePush PROVE TornOK'
  BY <1>15, TornFrame DEF ServePush, ServeRead, Registered, clientVars,
     ownVars, tornVars
<1>16. ASSUME Push PROVE TornOK'
  BY <1>16, TornFrame DEF Push, clientVars, wireVars, ownVars, tornVars
<1>17. ASSUME ServeTrailer PROVE TornOK'
  BY <1>17, TornFrame DEF ServeTrailer, ServeRead, Registered, clientVars,
     ownVars, tornVars
<1>18. ASSUME ServeRefuse PROVE TornOK'
  BY <1>18, TornFrame DEF ServeRefuse, ServeRead, Registered, clientVars,
     ownVars, tornVars
<1>19. ASSUME ServeExit PROVE TornOK'
  BY <1>19, TornFrame DEF ServeExit, clientVars, wireVars, ownVars, tornVars
<1>20. ASSUME AppRecv PROVE TornOK'
  BY <1>20, TornFrame DEF AppRecv, clientVars, wireVars, ownVars, tornVars
<1>21. ASSUME AppSend PROVE TornOK'
  BY <1>21, TornFrame DEF AppSend, AppGoto, ownVars, wireVars, tornVars
<1>22. ASSUME AppSendOk PROVE TornOK'
  BY <1>22, TornFrame DEF AppSendOk, AppGoto, ownVars, wireVars, tornVars
<1>23. ASSUME AppSendCtx PROVE TornOK'
  BY <1>23, TornFrame DEF AppSendCtx, AppGoto, ownVars, wireVars, tornVars
<1>24. ASSUME AppReturn PROVE TornOK'
  BY <1>24, TornFrame DEF AppReturn, AppGoto, ownVars, wireVars, tornVars
<1>25. ASSUME SendTrailer PROVE TornOK'
  BY <1>25, TornFrame DEF SendTrailer, AppGoto, ownVars, wireVars, tornVars
<1>26. ASSUME unregisterStream PROVE TornOK'
  BY <1>26, TornFrame DEF unregisterStream, AppGoto, ownVars, wireVars,
     tornVars
<1>27. ASSUME StreamTimeout PROVE TornOK'
  BY <1>27, TornFrame DEF StreamTimeout, Fault, Registered, clientVars,
     ownVars, tornVars
<1>28. ASSUME WriteOk PROVE TornOK'
  BY <1>28, TornFrame DEF WriteOk, clientVars, ownVars, tornVars
<1>29. ASSUME WriteFails PROVE TornOK'
  <2>1. conn' # "live" /\ UNCHANGED <<torn, sendErr, loop, loopTrailer, ctx, sendRst>>
    BY <1>29 DEF WriteFails, clientVars, ownVars
  <2>2. QED
    BY <2>1 DEF TornOK
<1>30. CASE UNCHANGED vars
  BY <1>30, TornFrame DEF vars, clientVars, ownVars, wireVars, serverVars,
     tornVars
<1>31. QED
  BY <1>1, <1>2, <1>3, <1>4, <1>5, <1>6, <1>7, <1>8, <1>9, <1>10, <1>11,
     <1>12, <1>13, <1>14, <1>15, <1>16, <1>17, <1>18, <1>19, <1>20, <1>21,
     <1>22, <1>23, <1>24, <1>25, <1>26, <1>27, <1>28, <1>29, <1>30 DEF Next

cancelledVars == <<up, rst, sctx, app, faults, conn>>

\* Steps that do not concern the handler's context.
LEMMA CancelledFrame == CancelledOK /\ UNCHANGED cancelledVars => CancelledOK'
  BY DEF CancelledOK, HasEnded, cancelledVars

\* Requests that are not resets cancel nobody.
LEMMA CancelledAppend ==
    ASSUME TypeOK, CancelledOK, NEW r \in Requests, r.kind # "reset",
           up' = Append(up, r), UNCHANGED <<rst, sctx, app, faults, conn>>
    PROVE  CancelledOK'
<1>1. up \in Seq(Requests)
  BY QueueTypes
<1>2. \A i \in DOMAIN up : i \in DOMAIN up' /\ up'[i] = up[i]
  BY <1>1, AppendFacts
<1>3. \A i \in DOMAIN up' :
          (i \in DOMAIN up /\ up'[i] = up[i]) \/ up'[i].kind # "reset"
  BY <1>1, AppendEach
<1>4. QED
  BY <1>2, <1>3 DEF CancelledOK, HasEnded

\* Nor does reading them.
LEMMA CancelledTail ==
    ASSUME TypeOK, CancelledOK, up # <<>>, Head(up).kind # "reset",
           up' = Tail(up), UNCHANGED <<rst, sctx, faults, conn>>,
           HasEnded <=> HasEnded', app = "ended" <=> app' = "ended"
    PROVE  CancelledOK'
<1>1. up \in Seq(Requests)
  BY QueueTypes
<1>2. /\ Head(up) = up[1]
      /\ \A i \in DOMAIN up' : i + 1 \in DOMAIN up /\ up'[i] = up[i + 1]
      /\ \A i \in DOMAIN up : i # 1 =>
             i - 1 \in DOMAIN up' /\ up'[i - 1] = up[i]
  BY <1>1, TailFacts
<1>3. (\E i \in DOMAIN up : up[i].kind = "reset")
          => \E i \in DOMAIN up' : up'[i].kind = "reset"
  BY <1>2
<1>4. QED
  BY <1>2, <1>3 DEF CancelledOK

\* Every step keeps what ends the handler's context.
LEMMA CancelledStep == IInv /\ [Next]_vars => CancelledOK'
<1> SUFFICES ASSUME TypeOK, ClientOK, ServerOK, CancelledOK, [Next]_vars
             PROVE  CancelledOK'
  BY DEF IInv, EndsOK
<1>u. up \in Seq(Requests)
  BY QueueTypes
<1>1. ASSUME ClientLoop PROVE CancelledOK'
  BY <1>1, LoopFoot, CancelledFrame DEF cancelledVars, loopFootVars,
     Unwritten, wireVars, serverVars
<1>2. ASSUME ClientReset PROVE CancelledOK'
  <2>1. /\ rst = 0 /\ rst' \in {0, 1} /\ UNCHANGED <<sctx, app, faults, conn>>
        /\ rst' = 1 => up' = Append(up, Mark("reset"))
        /\ rst' = 0 => up' = up
    BY <1>2 DEF ClientReset, Client!LoopReset, serverVars, ClientOK,
       Stream!ResetOK
  <2>2. CASE rst' = 0
    BY <2>1, <2>2 DEF CancelledOK, HasEnded
  <2>3. CASE rst' = 1
    <3>1. Mark("reset") \in Requests /\ Mark("reset").kind = "reset"
      BY DEF Mark, Requests
    <3>2. /\ Len(up) + 1 \in DOMAIN up' /\ up'[Len(up) + 1] = Mark("reset")
      BY <1>u, <2>1, <2>3, <3>1, AppendFacts
    <3>3. \E i \in DOMAIN up' : up'[i].kind = "reset"
      BY <3>1, <3>2
    <3>4. QED
      BY <2>1, <2>3, <3>3 DEF CancelledOK, HasEnded
  <2>4. QED
    BY <2>1, <2>2, <2>3
<1>3. ASSUME ClientRecvCall PROVE CancelledOK'
  BY <1>3, CancelledFrame DEF ClientRecvCall, Client!RecvCall, Unwritten,
     Client!Unlocked, Client!RecvReturns, Client!loopVars, Client!ctxVars,
     Client!netVars, Client!sendVars, wireVars, serverVars, cancelledVars
<1>4. ASSUME ClientRecv PROVE CancelledOK'
  BY <1>4, RecvFoot, CancelledFrame DEF cancelledVars, recvFootVars,
     Unwritten, wireVars, serverVars
<1>5. ASSUME ClientSendStep PROVE CancelledOK'
  BY <1>5, SendFoot, CancelledFrame DEF cancelledVars, sendFootVars,
     Unwritten, wireVars, serverVars
<1>6. ASSUME ClientTeardown PROVE CancelledOK'
  BY <1>6, SendFoot, CancelledFrame DEF cancelledVars, sendFootVars,
     Unwritten, wireVars, serverVars
<1>7. ASSUME ClientWrite PROVE CancelledOK'
  <2>1. /\ up' = up \/ up' = Append(up, Body(asked + 1))
        /\ UNCHANGED <<rst, sctx, app, faults, conn>>
    BY <1>7 DEF ClientWrite, Client!SendWrite, serverVars, Client!SendStep,
       Client!SendFails, Client!loopVars, Client!ctxVars, Client!netVars,
       Client!recvVars
  <2>2. Body(asked + 1) \in Requests /\ Body(asked + 1).kind # "reset"
    BY QueueTypes DEF Body, Requests
  <2>3. QED
    BY <2>1, <2>2, CancelledAppend, CancelledFrame DEF cancelledVars
<1>8. ASSUME ClientCloseSend PROVE CancelledOK'
  <2>1. /\ up' = up \/ up' = Append(up, Mark("trailer"))
        /\ UNCHANGED <<rst, sctx, app, faults, conn>>
    BY <1>8 DEF ClientCloseSend, Client!CloseSend, serverVars, Client!SendStep,
       Client!loopVars, Client!ctxVars, Client!netVars, Client!recvVars
  <2>2. Mark("trailer") \in Requests /\ Mark("trailer").kind # "reset"
    BY QueueTypes DEF Mark, Requests
  <2>3. QED
    BY <2>1, <2>2, CancelledAppend, CancelledFrame DEF cancelledVars
<1>9. ASSUME UserCancel PROVE CancelledOK'
  <2>1. /\ UNCHANGED <<up, rst, app>> /\ faults \subseteq faults'
        /\ sctx = "done" => sctx' = "done"
        /\ conn # "live" => conn' # "live"
        /\ sctx' # sctx => "timeout" \in faults' \/ conn' # "live"
    BY <1>9 DEF UserCancel, Fault, Client!UserCancel, serverVars,
       Client!loopVars, Client!netVars, Client!recvVars, Client!sendVars
  <2>2. QED
    BY <2>1 DEF CancelledOK, HasEnded
<1>10. ASSUME Deliver PROVE CancelledOK'
  BY <1>10, CancelledFrame DEF Deliver, ownVars, serverVars, cancelledVars
<1>11. ASSUME Breaks PROVE CancelledOK'
  <2>1. /\ UNCHANGED <<up, rst, app>> /\ faults \subseteq faults'
        /\ sctx = "done" => sctx' = "done"
        /\ conn # "live" => conn' # "live"
        /\ sctx' # sctx => "timeout" \in faults' \/ conn' # "live"
    BY <1>11 DEF Breaks, Fault, clientVars, serverVars, ownVars, clientVars,
       ownVars
  <2>2. QED
    BY <2>1 DEF CancelledOK, HasEnded
<1>12. ASSUME ClientDisconnected PROVE CancelledOK'
  BY <1>12, CancelledFrame DEF ClientDisconnected, Client!ConnectionFails,
     Unwritten, Client!loopVars, Client!ctxVars, Client!recvVars,
     Client!sendVars, wireVars, serverVars, cancelledVars
<1>13. ASSUME ServeOpen PROVE CancelledOK'
  <2>1. /\ up # <<>> /\ Head(up).kind # "reset" /\ up' = Tail(up)
        /\ UNCHANGED <<rst, sctx, faults, conn>>
    BY <1>13 DEF ServeOpen, ServeRead, clientVars, ownVars
  <2>2. /\ HasEnded <=> HasEnded'
        /\ app = "ended" <=> app' = "ended"
    <3>1. Head(up) = up[1] /\ 1 \in DOMAIN up
      BY <1>u, <2>1, TailFacts
    <3>2. app = "none" /\ app' = "run"
      BY <1>13, <3>1 DEF ServeOpen, ServeRead, ServerOK
    <3>3. QED
      BY <3>2 DEF HasEnded
  <2>3. QED
    BY <2>1, <2>2, CancelledTail
<1>14. ASSUME ServeReset PROVE CancelledOK'
  <2>1. /\ up # <<>> /\ Head(up).kind = "reset" /\ up' = Tail(up)
        /\ sctx' = IF Registered THEN "done" ELSE sctx
        /\ UNCHANGED <<rst, app, faults, conn>>
    BY <1>14 DEF ServeReset, ServeRead, clientVars, ownVars
  <2>2. Head(up) = up[1] /\ 1 \in DOMAIN up
        /\ \A i \in DOMAIN up' : i + 1 \in DOMAIN up /\ up'[i] = up[i + 1]
    BY <1>u, <2>1, TailFacts
  <2>3. rst # 0
    BY <2>1, <2>2 DEF CancelledOK
  <2>4. app # "none"
    BY <2>1, ServerTail
  <2>5. sctx' = "done" \/ app = "ended"
    BY <2>1, <2>4 DEF Registered
  <2>6. QED
    BY <2>1, <2>3, <2>5 DEF CancelledOK
<1>15. ASSUME ServePush PROVE CancelledOK'
  <2>1. /\ up # <<>> /\ Head(up).kind # "reset" /\ up' = Tail(up)
        /\ UNCHANGED <<rst, sctx, faults, conn>>
    BY <1>15 DEF ServePush, ServeRead, clientVars, ownVars
  <2>2. /\ HasEnded <=> HasEnded'
        /\ app = "ended" <=> app' = "ended"
    BY <1>15 DEF ServePush, HasEnded
  <2>3. QED
    BY <2>1, <2>2, CancelledTail
<1>16. ASSUME Push PROVE CancelledOK'
  BY <1>16, CancelledFrame DEF Push, clientVars, wireVars, ownVars,
     cancelledVars
<1>17. ASSUME ServeTrailer PROVE CancelledOK'
  <2>1. /\ up # <<>> /\ Head(up).kind # "reset" /\ up' = Tail(up)
        /\ UNCHANGED <<rst, sctx, faults, conn>>
    BY <1>17 DEF ServeTrailer, ServeRead, clientVars, ownVars
  <2>2. /\ HasEnded <=> HasEnded'
        /\ app = "ended" <=> app' = "ended"
    BY <1>17 DEF ServeTrailer, HasEnded
  <2>3. QED
    BY <2>1, <2>2, CancelledTail
<1>18. ASSUME ServeRefuse PROVE CancelledOK'
  <2>1. /\ up # <<>> /\ Head(up).kind # "reset" /\ up' = Tail(up)
        /\ UNCHANGED <<rst, sctx, faults, conn>>
    BY <1>18 DEF ServeRefuse, ServeRead, clientVars, ownVars
  <2>2. /\ HasEnded <=> HasEnded'
        /\ app = "ended" <=> app' = "ended"
    BY <1>18 DEF ServeRefuse, HasEnded
  <2>3. QED
    BY <2>1, <2>2, CancelledTail
<1>19. ASSUME ServeExit PROVE CancelledOK'
  <2>1. /\ UNCHANGED <<up, rst, app>> /\ faults \subseteq faults'
        /\ sctx = "done" => sctx' = "done"
        /\ conn # "live" => conn' # "live"
        /\ sctx' # sctx => "timeout" \in faults' \/ conn' # "live"
    BY <1>19 DEF ServeExit, clientVars, wireVars, ownVars, clientVars, ownVars
  <2>2. QED
    BY <2>1 DEF CancelledOK, HasEnded
<1>20. ASSUME AppRecv PROVE CancelledOK'
  BY <1>20, CancelledFrame DEF AppRecv, clientVars, wireVars, ownVars,
     cancelledVars
<1>21. ASSUME AppSend PROVE CancelledOK'
  <2>1. /\ ~HasEnded /\ ~HasEnded' /\ app # "ended"
        /\ UNCHANGED <<up, rst, sctx, faults, conn>>
    BY <1>21 DEF AppSend, AppGoto, ownVars, wireVars, HasEnded
  <2>2. QED
    BY <2>1 DEF CancelledOK
<1>22. ASSUME AppSendOk PROVE CancelledOK'
  <2>1. /\ ~HasEnded /\ ~HasEnded' /\ app # "ended"
        /\ UNCHANGED <<up, rst, sctx, faults, conn>>
    BY <1>22 DEF AppSendOk, AppGoto, ownVars, wireVars, HasEnded
  <2>2. QED
    BY <2>1 DEF CancelledOK
<1>23. ASSUME AppSendCtx PROVE CancelledOK'
  <2>1. /\ ~HasEnded /\ ~HasEnded' /\ app # "ended"
        /\ UNCHANGED <<up, rst, sctx, faults, conn>>
    BY <1>23 DEF AppSendCtx, AppGoto, ownVars, wireVars, HasEnded
  <2>2. QED
    BY <2>1 DEF CancelledOK
<1>24. ASSUME AppReturn PROVE CancelledOK'
  <2>1. /\ ~HasEnded /\ ~HasEnded' /\ app # "ended"
        /\ UNCHANGED <<up, rst, sctx, faults, conn>>
    BY <1>24 DEF AppReturn, AppGoto, ownVars, wireVars, HasEnded
  <2>2. QED
    BY <2>1 DEF CancelledOK
<1>25. ASSUME SendTrailer PROVE CancelledOK'
  <2>1. /\ HasEnded' /\ app # "ended" /\ (sctx = "done" => sctx' = "done")
        /\ UNCHANGED <<up, rst, faults, conn>>
    BY <1>25 DEF SendTrailer, AppGoto, ownVars, wireVars, HasEnded
  <2>2. QED
    BY <2>1 DEF CancelledOK
<1>26. ASSUME unregisterStream PROVE CancelledOK'
  <2>1. /\ HasEnded' /\ app # "ended" /\ (sctx = "done" => sctx' = "done")
        /\ UNCHANGED <<up, rst, faults, conn>>
    BY <1>26 DEF unregisterStream, AppGoto, ownVars, wireVars, HasEnded
  <2>2. QED
    BY <2>1 DEF CancelledOK
<1>27. ASSUME StreamTimeout PROVE CancelledOK'
  <2>1. /\ UNCHANGED <<up, rst, app>> /\ faults \subseteq faults'
        /\ sctx = "done" => sctx' = "done"
        /\ conn # "live" => conn' # "live"
        /\ sctx' # sctx => "timeout" \in faults' \/ conn' # "live"
    BY <1>27 DEF StreamTimeout, Fault, Registered, clientVars, ownVars,
       clientVars, ownVars
  <2>2. QED
    BY <2>1 DEF CancelledOK, HasEnded
<1>28. ASSUME WriteOk PROVE CancelledOK'
  BY <1>28, CancelledFrame DEF WriteOk, clientVars, ownVars, cancelledVars
<1>29. ASSUME WriteFails PROVE CancelledOK'
  <2>1. /\ UNCHANGED <<up, rst, app>> /\ faults \subseteq faults'
        /\ sctx = "done" => sctx' = "done"
        /\ conn # "live" => conn' # "live"
        /\ sctx' # sctx => "timeout" \in faults' \/ conn' # "live"
    BY <1>29 DEF WriteFails, clientVars, ownVars, clientVars, ownVars
  <2>2. QED
    BY <2>1 DEF CancelledOK, HasEnded
<1>30. CASE UNCHANGED vars
  BY <1>30, CancelledFrame DEF vars, clientVars, ownVars, wireVars,
     serverVars, cancelledVars
<1>31. QED
  BY <1>1, <1>2, <1>3, <1>4, <1>5, <1>6, <1>7, <1>8, <1>9, <1>10, <1>11,
     <1>12, <1>13, <1>14, <1>15, <1>16, <1>17, <1>18, <1>19, <1>20, <1>21,
     <1>22, <1>23, <1>24, <1>25, <1>26, <1>27, <1>28, <1>29, <1>30 DEF Next

trailingVars == <<app, loop, torn, conn, faults, out, down, slot, rpc>>

\* Steps that do not concern the trailer.
LEMMA TrailingFrame == TrailingOK /\ UNCHANGED trailingVars => TrailingOK'
  BY DEF TrailingOK, Trailing, HasEnded, Handling, Stream!Reading,
     trailingVars

\* Every step keeps the trailer on its way to readLoop.
LEMMA TrailingStep == IInv /\ [Next]_vars => TrailingOK'
<1> SUFFICES ASSUME TypeOK, ClientOK, RepliesOK, CancelledOK, TrailingOK,
                    [Next]_vars
             PROVE  TrailingOK'
  BY DEF IInv, EndsOK
<1>t. down \in Seq(Stream!Rpc) /\ out \in Seq(Stream!Rpc)
  BY QueueTypes
<1>1. ASSUME ClientLoop PROVE TrailingOK'
  <2>1. ASSUME Client!LoopRead, Unwritten PROVE TrailingOK'
    <3>1. /\ loop = "read" /\ loop' \in {"header", "check"} /\ rpc' \in slot
          /\ UNCHANGED <<app, torn, conn, faults, out, down>>
      BY <2>1 DEF Client!LoopRead, Unwritten, wireVars, serverVars
    <3>2. Stream!Reading /\ ~Handling /\ Handling'
      BY <3>1 DEF Stream!Reading, Handling
    <3>3. \A r \in slot : r = rpc'
      BY <3>1 DEF RepliesOK
    <3>4. QED
      BY <3>1, <3>2, <3>3 DEF TrailingOK, Trailing, HasEnded
  <2>2. ASSUME Client!LoopReadCtx, Unwritten PROVE TrailingOK'
    BY <2>2 DEF Client!LoopReadCtx, Client!LoopReadErr, Client!onReady,
       Client!ctxVars, Client!netVars, Client!recvVars, Client!sendVars,
       Client!Unlocked, TrailingOK, Stream!Reading
  <2>3. ASSUME Client!LoopReadClosed, Unwritten PROVE TrailingOK'
    BY <2>3 DEF Client!LoopReadClosed, Client!LoopReadErr, Client!onReady,
       Client!ctxVars, Client!netVars, Client!recvVars, Client!sendVars,
       Client!Unlocked, TrailingOK, Stream!Reading
  <2>4. ASSUME Client!LoopHeader, Unwritten PROVE TrailingOK'
    <3>1. /\ loop = "header" /\ loop' \in {"check", "lock"}
          /\ UNCHANGED <<app, torn, conn, faults, out, down, slot, rpc>>
      BY <2>4 DEF Client!LoopHeader, Client!netVars, Unwritten, wireVars,
         serverVars
    <3>2. QED
      BY <3>1 DEF TrailingOK, Trailing, HasEnded, Handling, Stream!Reading
  <2>5. ASSUME Client!LoopCheck, Unwritten PROVE TrailingOK'
    <3>1. /\ loop = "check" /\ loop' \in {"lock", "read", "push"}
          /\ loop' # "lock" => rpc.trailer = "no"
          /\ UNCHANGED <<app, torn, conn, faults, out, down, slot, rpc>>
      BY <2>5 DEF Client!LoopCheck, Client!netVars, Unwritten, wireVars,
         serverVars
    <3>2. QED
      BY <3>1 DEF TrailingOK, Trailing, HasEnded, Handling, Stream!Reading
  <2>6. ASSUME Client!LoopPushCtx, Unwritten PROVE TrailingOK'
    BY <2>6 DEF Client!LoopPushCtx, Client!ctxVars, Client!netVars,
       Client!recvVars, Client!sendVars, TrailingOK, Stream!Reading
  <2>7. ASSUME Client!LoopExit, Unwritten PROVE TrailingOK'
    BY <2>7 DEF Client!LoopExit, Client!MustReset, Client!ctxVars,
       Client!netVars, Client!recvVars, Client!sendVars, TrailingOK,
       Stream!Reading
  <2>8. ASSUME Client!LoopUnregister, Unwritten PROVE TrailingOK'
    BY <2>8 DEF Client!LoopUnregister, Client!ctxVars, Client!recvVars,
       Client!sendVars, TrailingOK, Stream!Reading
  <2>9. ASSUME Client!LoopCancel, Unwritten PROVE TrailingOK'
    BY <2>9 DEF Client!LoopCancel, Client!netVars, Client!recvVars,
       Client!sendVars, TrailingOK, Stream!Reading
  <2>10. ASSUME Client!LoopPublish, Unwritten PROVE TrailingOK'
    BY <2>10 DEF Client!LoopPublish, Client!ctxVars, Client!netVars,
       Client!recvVars, Client!sendVars, TrailingOK, Stream!Reading
  <2>11. QED
    BY <1>1, <2>1, <2>2, <2>3, <2>4, <2>5, <2>6, <2>7, <2>8, <2>9, <2>10 DEF
       ClientLoop
<1>2. ASSUME ClientReset PROVE TrailingOK'
  BY <1>2 DEF ClientReset, Client!LoopReset, TrailingOK, Stream!Reading
<1>3. ASSUME ClientRecvCall PROVE TrailingOK'
  BY <1>3, TrailingFrame DEF ClientRecvCall, Client!RecvCall, Unwritten,
     Client!Unlocked, Client!RecvReturns, Client!loopVars, Client!ctxVars,
     Client!netVars, Client!sendVars, wireVars, serverVars, trailingVars
<1>4. ASSUME ClientRecv PROVE TrailingOK'
  <2>1. ASSUME Client!RecvCtx, Unwritten PROVE TrailingOK'
    BY <2>1, TrailingFrame DEF Client!RecvCtx, Client!RecvReturns,
       Client!loopVars, Client!ctxVars, Client!netVars, Client!sendVars,
       Unwritten, wireVars, serverVars, trailingVars
  <2>2. ASSUME Client!RecvBody, Unwritten PROVE TrailingOK'
    <3>1. /\ loop = "push" /\ loop' = "read"
          /\ UNCHANGED <<app, torn, conn, faults, out, down, slot, rpc>>
      BY <2>2 DEF Client!RecvBody, Client!netVars, Unwritten, wireVars,
         serverVars
    <3>2. QED
      BY <3>1 DEF TrailingOK, Trailing, HasEnded, Handling, Stream!Reading
  <2>3. ASSUME Client!RecvFindsClosed, Unwritten PROVE TrailingOK'
    BY <2>3, TrailingFrame DEF Client!RecvFindsClosed, Client!loopVars,
       Client!ctxVars, Client!netVars, Client!sendVars, Unwritten, wireVars,
       serverVars, trailingVars
  <2>4. ASSUME Client!RecvAfterClose, Unwritten PROVE TrailingOK'
    BY <2>4, TrailingFrame DEF Client!RecvAfterClose, Client!Unlocked,
       Client!RecvReturns, Client!loopVars, Client!ctxVars, Client!netVars,
       Client!sendVars, Unwritten, wireVars, serverVars, trailingVars
  <2>5. QED
    BY <1>4, <2>1, <2>2, <2>3, <2>4 DEF ClientRecv, Client!RecvProgress
<1>5. ASSUME ClientSendStep PROVE TrailingOK'
  <2>1. UNCHANGED trailingVars
    BY <1>5, SendFoot DEF sendFootVars, Unwritten, wireVars, serverVars,
       ClientSendStep, Client!SendCall, Client!SendMarshal,
       Client!CloseSendCall, Client!netVars, trailingVars
  <2>2. QED
    BY <2>1, TrailingFrame
<1>6. ASSUME ClientTeardown PROVE TrailingOK'
  <2>1. /\ UNCHANGED <<app, loop, conn, faults, out, down, slot, rpc>>
        /\ torn' = "no" => torn = "no"
    BY <1>6, SendFoot DEF sendFootVars, Unwritten, wireVars, serverVars,
       ClientTeardown, Client!SendUnregister, Client!SendCancel, Client!netVars
  <2>2. QED
    BY <2>1 DEF TrailingOK, Trailing, HasEnded, Handling, Stream!Reading
<1>7. ASSUME ClientWrite PROVE TrailingOK'
  BY <1>7, TrailingFrame DEF ClientWrite, Client!SendWrite, serverVars,
     Client!SendStep, Client!SendFails, Client!loopVars, Client!ctxVars,
     Client!netVars, Client!recvVars, trailingVars
<1>8. ASSUME ClientCloseSend PROVE TrailingOK'
  BY <1>8, TrailingFrame DEF ClientCloseSend, Client!CloseSend, serverVars,
     Client!SendStep, Client!loopVars, Client!ctxVars, Client!netVars,
     Client!recvVars, trailingVars
<1>9. ASSUME UserCancel PROVE TrailingOK'
  <2>1. /\ UNCHANGED <<app, loop, torn, conn, out, down, slot, rpc>>
        /\ faults \subseteq faults'
    BY <1>9 DEF UserCancel, Fault, Client!UserCancel, Client!loopVars,
       Client!netVars, serverVars
  <2>2. QED
    BY <2>1 DEF TrailingOK, Trailing, HasEnded, Handling, Stream!Reading
<1>10. ASSUME Deliver PROVE TrailingOK'
  <2>1. SUFFICES ASSUME torn = "no" PROVE TrailingOK'
    BY <1>10 DEF Deliver, TrailingOK
  <2>2. /\ down # <<>> /\ down' = Tail(down) /\ slot = {}
        /\ slot' = {Head(down)}
        /\ UNCHANGED <<app, loop, torn, conn, faults, out, rpc>>
    BY <1>10, <2>1 DEF Deliver, ownVars, serverVars
  <2>3. /\ Head(down) = down[1]
        /\ \A i \in DOMAIN down : i # 1 =>
               i - 1 \in DOMAIN Tail(down) /\ Tail(down)[i - 1] = down[i]
    BY <1>t, <2>2, TailFacts
  <2>4. (\E i \in DOMAIN down : down[i].trailer = "yes") => Trailing'
    BY <2>2, <2>3 DEF Trailing
  <2>5. QED
    BY <2>2, <2>4 DEF TrailingOK, Trailing, HasEnded, Handling,
       Stream!Reading
<1>11. ASSUME Breaks PROVE TrailingOK'
  BY <1>11 DEF Breaks, TrailingOK
<1>12. ASSUME ClientDisconnected PROVE TrailingOK'
  BY <1>12 DEF ClientDisconnected, Client!ConnectionFails, TrailingOK
<1>13. ASSUME ServeOpen PROVE TrailingOK'
  BY <1>13 DEF ServeOpen, ServeRead, HasEnded, TrailingOK
<1>14. ASSUME ServeReset PROVE TrailingOK'
  BY <1>14, TrailingFrame DEF ServeReset, ServeRead, Registered, clientVars,
     ownVars, trailingVars
<1>15. ASSUME ServePush PROVE TrailingOK'
  BY <1>15, TrailingFrame DEF ServePush, ServeRead, Registered, clientVars,
     ownVars, trailingVars
<1>16. ASSUME Push PROVE TrailingOK'
  BY <1>16, TrailingFrame DEF Push, clientVars, wireVars, ownVars,
     trailingVars
<1>17. ASSUME ServeTrailer PROVE TrailingOK'
  BY <1>17, TrailingFrame DEF ServeTrailer, ServeRead, Registered, clientVars,
     ownVars, trailingVars
<1>18. ASSUME ServeRefuse PROVE TrailingOK'
  <2>1. /\ down' = down \/ down' = Append(down, Last("none"))
        /\ UNCHANGED <<app, loop, torn, conn, faults, out, slot, rpc>>
    BY <1>18 DEF ServeRefuse, ServeRead, clientVars, ownVars
  <2>2. \A i \in DOMAIN down : i \in DOMAIN down' /\ down'[i] = down[i]
    <3>1. Last("none") \in Stream!Rpc
      BY LastIs DEF Stream!Statuses
    <3>2. CASE down' = Append(down, Last("none"))
      BY <1>t, <3>1, <3>2, AppendFacts
    <3>3. QED
      BY <2>1, <3>2
  <2>3. QED
    BY <2>1, <2>2 DEF TrailingOK, Trailing, HasEnded, Handling,
       Stream!Reading
<1>19. ASSUME ServeExit PROVE TrailingOK'
  BY <1>19, TrailingFrame DEF ServeExit, clientVars, wireVars, ownVars,
     trailingVars
<1>20. ASSUME AppRecv PROVE TrailingOK'
  BY <1>20, TrailingFrame DEF AppRecv, clientVars, wireVars, ownVars,
     trailingVars
<1>21. ASSUME AppSend PROVE TrailingOK'
  BY <1>21 DEF AppSend, AppGoto, HasEnded, TrailingOK
<1>22. ASSUME AppSendOk PROVE TrailingOK'
  BY <1>22 DEF AppSendOk, AppGoto, HasEnded, TrailingOK
<1>23. ASSUME AppSendCtx PROVE TrailingOK'
  BY <1>23 DEF AppSendCtx, AppGoto, HasEnded, TrailingOK
<1>24. ASSUME AppReturn PROVE TrailingOK'
  BY <1>24 DEF AppReturn, AppGoto, HasEnded, TrailingOK
<1>25. ASSUME SendTrailer PROVE TrailingOK'
  <2>1. /\ app = "trailer"
        /\ out' = <<Last(ended)>> \/ sctx = "done"
        /\ UNCHANGED <<loop, rst, torn, conn, faults>>
    BY <1>25 DEF SendTrailer, AppGoto, ownVars, wireVars
  <2>2. CASE out' = <<Last(ended)>>
    <3>1. out'[1].trailer = "yes" /\ out' # <<>>
      BY <2>2 DEF Last
    <3>2. QED
      BY <3>1 DEF TrailingOK, Trailing
  <2>3. CASE sctx = "done"
    <3>1. "timeout" \in faults \/ conn # "live" \/ rst # 0
      BY <2>1, <2>3 DEF CancelledOK, HasEnded
    <3>2. Stream!Reading => rst = 0
      BY DEF Stream!Reading, ClientOK, Stream!ResetOK
    <3>3. QED
      BY <2>1, <3>1, <3>2 DEF TrailingOK, Stream!Reading
  <2>4. QED
    BY <2>1, <2>2, <2>3
<1>26. ASSUME unregisterStream PROVE TrailingOK'
  <2>1. /\ HasEnded
        /\ UNCHANGED <<loop, torn, conn, faults, out, down, slot, rpc>>
    BY <1>26 DEF unregisterStream, AppGoto, ownVars, wireVars, HasEnded
  <2>2. QED
    BY <2>1 DEF TrailingOK, Trailing, Handling, Stream!Reading
<1>27. ASSUME StreamTimeout PROVE TrailingOK'
  BY <1>27 DEF StreamTimeout, Fault, TrailingOK
<1>28. ASSUME WriteOk PROVE TrailingOK'
  <2>1. /\ out # <<>> /\ down' = Append(down, Head(out))
        /\ UNCHANGED <<app, loop, torn, conn, faults, slot, rpc>>
    BY <1>28 DEF WriteOk, clientVars, ownVars
  <2>2. Head(out) = out[1] /\ out[1] \in Stream!Rpc
    BY <1>t, <2>1, TailFacts
  <2>3. /\ \A i \in DOMAIN down : i \in DOMAIN down' /\ down'[i] = down[i]
        /\ Len(down) + 1 \in DOMAIN down' /\ down'[Len(down) + 1] = out[1]
    BY <1>t, <2>1, <2>2, AppendFacts
  <2>4. Trailing => Trailing'
    BY <2>1, <2>3 DEF Trailing, Handling
  <2>5. QED
    BY <2>1, <2>4 DEF TrailingOK, HasEnded, Stream!Reading
<1>29. ASSUME WriteFails PROVE TrailingOK'
  BY <1>29 DEF WriteFails, TrailingOK
<1>30. CASE UNCHANGED vars
  BY <1>30, TrailingFrame DEF vars, clientVars, ownVars, wireVars, serverVars,
     trailingVars
<1>31. QED
  BY <1>1, <1>2, <1>3, <1>4, <1>5, <1>6, <1>7, <1>8, <1>9, <1>10, <1>11,
     <1>12, <1>13, <1>14, <1>15, <1>16, <1>17, <1>18, <1>19, <1>20, <1>21,
     <1>22, <1>23, <1>24, <1>25, <1>26, <1>27, <1>28, <1>29, <1>30 DEF Next

-----------------------------------------------------------------------------
(* The theorems. *)

\* The client starts as ClientStream does.
LEMMA ClientInit == Init => Stream!TypeOK /\ ClientOK
<1> SUFFICES ASSUME Init PROVE Stream!TypeOK /\ ClientOK
  OBVIOUS
<1>1. Stream!Init
  BY DEF Init, Client!Init, Client!NoRpc, Stream!Init, Stream!NoRpc
<1>2. Stream!TypeOK /\ Stream!LockOK /\ Stream!ResetOK
  BY <1>1, ConnBounds, HeaderKinds DEF Stream!Init, Stream!NoRpc,
     Stream!TypeOK, Stream!Rpc, Stream!Statuses, Stream!Errors,
     Stream!LockOK, Stream!NoAssertion, Stream!ResetOK,
     Stream!ResetOnlyIfAbandoned
<1>3. QED
  BY <1>2 DEF ClientOK

\* The invariant holds when the opening Rpc has been written.
LEMMA InitOK == Init => IInv
<1> SUFFICES ASSUME Init PROVE IInv
  OBVIOUS
<1>1. Stream!TypeOK /\ ClientOK
  BY ClientInit
<1>2. /\ Mark("open") \in Requests /\ Mark("open").kind = "open"
      /\ Mark("open").body = 0
  BY DEF Mark, Requests
<1>3. /\ up = <<Mark("open")>> /\ DOMAIN up = {1} /\ up[1] = Mark("open")
      /\ up # <<>> /\ up \in Seq(Requests)
  BY <1>2 DEF Init
<1>4. WireTypes
  <2>1. /\ down = <<>> /\ cur = <<>> /\ ch = <<>> /\ out = <<>> /\ heard = <<>>
        /\ conn = "live" /\ asked = 0 /\ closed = "no" /\ faults = {}
        /\ serve = "read" /\ app = "none" /\ sctx = "live" /\ eof = "no"
        /\ refused = "no"
    BY DEF Init
  <2>2. QED
    BY <1>3, <2>1 DEF WireTypes, Kinds
<1>5. ServerOK
  BY <1>2, <1>3 DEF Init, Client!Init, ServerOK, HasEnded
<1>6. WrittenOK
  BY <1>2, <1>3 DEF Init, Client!Init, WrittenOK
<1>7. Run(up, 0, 0)
  BY <1>2, <1>3 DEF Run
<1>8. RequestsOK /\ QueuesOK
  <2>1. /\ asked = 0 /\ heard = <<>> /\ ch = <<>> /\ cur = <<>> /\ eof = "no"
        /\ Len(heard) = 0
    BY DEF Init
  <2>2. Held(ch) = 0 /\ Held(cur) = 0 /\ Arrived = 0
    BY <2>1 DEF Held, Arrived
  <2>3. QED
    BY <1>7, <2>1, <2>2 DEF RequestsOK, QueuesOK
<1>9. RepliesOK
  BY DEF Init, Client!Init, Client!NoRpc, RepliesOK, Handling
<1>10. DownOK
  <2>1. /\ down = <<>> /\ out = <<>> /\ got = <<>> /\ sent = 0 /\ slot = {}
        /\ loop = "read" /\ Len(got) = 0
    BY DEF Init, Client!Init
  <2>2. /\ LoopBody = 0 /\ SlotBody = 0 /\ Received = 0
        /\ Held(out) = 0 /\ ~Handling
    BY <2>1 DEF LoopBody, SlotBody, Received, Held, Handling
  <2>3. Run(down, 0, 0)
    BY <2>1 DEF Run
  <2>4. QED
    BY <2>1, <2>2, <2>3 DEF DownOK, LastOK, ReceivedOK, WireOK
<1>11. VerdictOK
  BY DEF Init, Client!Init, VerdictOK, Truthful
<1>12. EndsOK
  <2>1. \A i \in DOMAIN up : up[i].kind # "reset"
    BY <1>2, <1>3
  <2>2. QED
    BY <2>1 DEF Init, Client!Init, EndsOK, TornOK, CancelledOK, TrailingOK,
       HasEnded
<1>13. QED
  BY <1>1, <1>4, <1>5, <1>6, <1>8, <1>9, <1>10, <1>11, <1>12 DEF IInv, TypeOK,
     UpOK

\* The invariant is inductive, for any number of bodies, sends and faults.
THEOREM Invariance == Spec => []IInv
<1>1. IInv /\ [Next]_vars => IInv'
  BY TypeStep, ServerStep, UpStep, RepliesStep, DownStep, VerdictStep,
     TornStep, CancelledStep, TrailingStep DEF IInv, EndsOK
<1>2. QED
  BY InitOK, <1>1, PTL DEF Spec

\* The client's fields, what is on the wires and the server's goroutines keep
\* their types.
THEOREM TypeCorrect == Spec => []TypeOK
<1>1. IInv => TypeOK
  BY DEF IInv
<1>2. QED
  BY Invariance, <1>1, PTL

\* Neither the handler nor the client waits for an end of the stream that the
\* other side knows of, but for what HandlerTold and ClientTold except.
THEOREM NeitherWaits == Spec => []BothTold
<1>1. IInv => HandlerTold
  <2> SUFFICES ASSUME IInv, loop = "exit", up = <<>>, conn = "live",
                      app \in {"run", "send"}, sctx # "done",
                      sendErr # "yes"
               PROVE  sendRst = "yes" /\ rst = 0
    BY DEF HandlerTold
  <2>1. loopTrailer = "nil"
    BY DEF IInv, RepliesOK, HasEnded, TypeOK, Stream!TypeOK
  <2>2. sendErr = "no"
    BY DEF IInv, TypeOK, Stream!TypeOK
  <2>3. sendRst = "yes"
    BY <2>1, <2>2 DEF IInv, EndsOK, TornOK
  <2>4. DOMAIN up = {}
    OBVIOUS
  <2>5. rst = 0
    BY <2>4 DEF IInv, EndsOK, CancelledOK
  <2>6. QED
    BY <2>3, <2>5
<1>2. IInv => ClientTold
  <2> SUFFICES ASSUME IInv, app = "ended", out = <<>>, down = <<>>,
                      conn = "live", loop = "read", slot = {}, torn = "no"
               PROVE  "timeout" \in faults
    BY DEF ClientTold
  <2>1. ~Trailing
    BY DEF Trailing, Handling
  <2>2. QED
    BY <2>1 DEF IInv, EndsOK, TrailingOK, HasEnded, Stream!Reading
<1>3. QED
  BY Invariance, <1>1, <1>2, PTL DEF BothTold

-----------------------------------------------------------------------------
(* Connection implements StreamSpec. *)

AbstractStep == [Abstract!Next]_(Abstract!vars)

abstractVars == <<asked, heard, closed, eof, sent, got, ended, recvErr, rpc,
                  refused>>

\* Steps that neither application sees.
LEMMA Stutters == UNCHANGED abstractVars => AbstractStep
  BY DEF abstractVars, AbstractStep, Abstract!vars, Verdict

\* An end that RecvMsg reports for the first time is one that StreamSpec
\* allows.
LEMMA EndIsTrue ==
    ASSUME VerdictOK, recvErr \notin {"EOF", "status"}, recvErr' = rErr,
           UNCHANGED <<asked, heard, closed, eof, sent, got, ended, rpc, refused>>
    PROVE  AbstractStep
<1>1. rErr \in {"EOF", "status"} => rErr = loopErr /\ Truthful(rErr)
  BY DEF VerdictOK
<1>2. CASE rErr = "EOF"
  <2>1. CASE rpc.status = "none"
    <3>1. refused = "yes"
      BY <1>1, <1>2, <2>1 DEF Truthful
    <3>2. Abstract!End("aborted")
      BY <1>2, <2>1 DEF Abstract!End, Verdict
    <3>3. QED
      BY <3>1, <3>2 DEF AbstractStep, Abstract!Next, Abstract!EndAborted
  <2>2. CASE rpc.status # "none"
    <3>1. ended = "OK" /\ Len(got) = sent
      BY <1>1, <1>2, <2>2 DEF Truthful
    <3>2. Abstract!End("EOF")
      BY <1>2, <2>2 DEF Abstract!End, Verdict
    <3>3. QED
      BY <3>1, <3>2 DEF AbstractStep, Abstract!Next, Abstract!EndOK
  <2>3. QED
    BY <2>1, <2>2
<1>3. CASE rErr = "status"
  <2>1. rpc.status # "none" /\ ended = "Err" /\ Len(got) = sent
    BY <1>1, <1>3 DEF Truthful
  <2>2. Abstract!End("status")
    BY <1>3, <2>1 DEF Abstract!End, Verdict
  <2>3. QED
    BY <2>1, <2>2 DEF AbstractStep, Abstract!Next, Abstract!EndErr
<1>4. CASE rErr \notin {"EOF", "status"}
  BY <1>4 DEF AbstractStep, Abstract!vars, Verdict
<1>5. QED
  BY <1>2, <1>3, <1>4

\* Every step is one of StreamSpec's or unseen.
LEMMA RefinementStep == IInv /\ [Next]_vars => AbstractStep
<1> SUFFICES ASSUME TypeOK, ClientOK, ServerOK, UpOK, RepliesOK, DownOK, VerdictOK,
                    [Next]_vars
             PROVE  AbstractStep
  BY DEF IInv
<1>t. /\ up \in Seq(Requests) /\ ch \in Seq(Requests)
      /\ \A r \in Requests : r.body \in Nat
      /\ asked \in Nat /\ sent \in Nat /\ Len(got) \in Nat
      /\ Len(heard) \in Nat /\ eof \in {"no", "yes"}
  BY QueueTypes DEF TypeOK, WireTypes
<1>1. ASSUME ClientLoop PROVE AbstractStep
  <2>1. UNCHANGED <<asked, heard, closed, eof, sent, got, ended, recvErr, refused>>
    BY <1>1, LoopFoot DEF loopFootVars, Unwritten, wireVars, serverVars
  <2>2. loop # "exit"
    BY <1>1 DEF ClientLoop, Client!LoopRead, Client!LoopReadCtx,
       Client!LoopReadClosed, Client!LoopReadErr, Client!LoopHeader,
       Client!LoopCheck, Client!LoopPushCtx, Client!LoopExit,
       Client!LoopUnregister, Client!LoopCancel, Client!LoopPublish
  <2>3. recvErr \notin {"EOF", "status"}
    BY <2>2 DEF VerdictOK, ClientOK, Stream!LockOK
  <2>4. QED
    BY <2>1, <2>3 DEF AbstractStep, Abstract!vars, Verdict
<1>2. ASSUME ClientReset PROVE AbstractStep
  BY <1>2, Stutters DEF ClientReset, Client!LoopReset, serverVars,
     Client!ctxVars, Client!netVars, Client!recvVars, Client!sendVars,
     abstractVars
<1>3. ASSUME ClientRecvCall PROVE AbstractStep
  <2>1. /\ recvErr' = recvErr \/ (done = "yes" /\ recvErr' = rErr)
        /\ UNCHANGED <<asked, heard, closed, eof, sent, got, ended, rpc,
                       refused>>
    BY <1>3 DEF ClientRecvCall, Client!RecvCall, Client!RecvReturns,
       Client!loopVars, Client!netVars, Unwritten, wireVars, serverVars
  <2>2. recvErr \in {"EOF", "status"} => recvErr = rErr
    BY DEF VerdictOK
  <2>3. CASE recvErr' = recvErr
    BY <2>1, <2>3 DEF AbstractStep, Abstract!vars, Verdict
  <2>4. CASE recvErr' = rErr /\ recvErr' # recvErr
    BY <2>1, <2>2, <2>4, EndIsTrue
  <2>5. QED
    BY <2>1, <2>3, <2>4
<1>4. ASSUME ClientRecv PROVE AbstractStep
  <2>1. ASSUME Client!RecvCtx, Unwritten PROVE AbstractStep
    <3>1. /\ recv = "select" /\ recvErr' = "ctxErr"
          /\ UNCHANGED <<asked, heard, closed, eof, sent, got, ended, refused>>
      BY <2>1 DEF Client!RecvCtx, Client!RecvReturns, Client!netVars,
         Unwritten,
         wireVars, serverVars
    <3>2. recvErr \notin {"EOF", "status"}
      BY <3>1 DEF VerdictOK
    <3>3. QED
      BY <3>1, <3>2 DEF AbstractStep, Abstract!vars, Verdict
  <2>2. ASSUME Client!RecvBody, Unwritten PROVE AbstractStep
    <3>1. /\ recv = "select" /\ loop = "push" /\ got' = Append(got, rpc.body)
          /\ recvErr' \in {recvErr, "codec"}
          /\ UNCHANGED <<asked, heard, closed, eof, sent, ended, refused>>
      BY <2>2 DEF Client!RecvBody, Client!netVars, Unwritten, wireVars,
         serverVars
    <3>2. Stream!Reading /\ LoopBody = 1
      BY <3>1 DEF Stream!Reading, LoopBody, RepliesOK
    <3>3. rpc.body = Len(got) + 1 /\ Received <= sent
      BY <3>2 DEF DownOK, ReceivedOK
    <3>4. Len(got) < sent
      BY <1>t, <3>2, <3>3 DEF Received, SlotBody
    <3>5. /\ recvErr \notin {"EOF", "status"}
          /\ recvErr' \notin {"EOF", "status"}
      BY <3>1 DEF VerdictOK
    <3>6. Abstract!Get
      BY <3>1, <3>3, <3>4, <3>5 DEF Abstract!Get, Verdict
    <3>7. QED
      BY <3>6 DEF AbstractStep, Abstract!Next
  <2>3. ASSUME Client!RecvFindsClosed, Unwritten PROVE AbstractStep
    BY <2>3, Stutters DEF Client!RecvFindsClosed, Client!loopVars,
       Client!ctxVars, Client!netVars, Client!sendVars, Unwritten, wireVars,
       serverVars, abstractVars
  <2>4. ASSUME Client!RecvAfterClose, Unwritten PROVE AbstractStep
    <3>1. /\ recv = "closed" /\ recvErr' = rErr
          /\ UNCHANGED <<asked, heard, closed, eof, sent, got, ended, rpc,
                         refused>>
      BY <2>4 DEF Client!RecvAfterClose, Client!RecvReturns, Client!loopVars,
         Client!netVars,
         Unwritten, wireVars, serverVars
    <3>2. recvErr \notin {"EOF", "status"}
      BY <3>1 DEF VerdictOK
    <3>3. QED
      BY <3>1, <3>2, EndIsTrue
  <2>5. QED
    BY <1>4, <2>1, <2>2, <2>3, <2>4 DEF ClientRecv, Client!RecvProgress
<1>5. ASSUME ClientSendStep PROVE AbstractStep
  BY <1>5, SendFoot, Stutters DEF abstractVars, sendFootVars, Unwritten,
     wireVars, serverVars
<1>6. ASSUME ClientTeardown PROVE AbstractStep
  BY <1>6, SendFoot, Stutters DEF abstractVars, sendFootVars, Unwritten,
     wireVars, serverVars
<1>7. ASSUME ClientWrite PROVE AbstractStep
  <2>1. /\ send = "write"
        /\ asked' = asked + 1 \/ asked' = asked
        /\ UNCHANGED <<heard, closed, eof, sent, got, ended, recvErr, rpc,
                       refused>>
    BY <1>7 DEF ClientWrite, Client!SendWrite, Client!loopVars, Client!netVars, Client!recvVars,
       serverVars
  <2>2. closed = "no"
    BY <2>1 DEF UpOK, WrittenOK
  <2>3. QED
    BY <2>1, <2>2 DEF AbstractStep, Abstract!Next, Abstract!Ask,
       Abstract!vars, Verdict
<1>8. ASSUME ClientCloseSend PROVE AbstractStep
  <2>1. /\ send = "closeSend"
        /\ closed' = "yes" \/ closed' = closed
        /\ UNCHANGED <<asked, heard, eof, sent, got, ended, recvErr, rpc,
                       refused>>
    BY <1>8 DEF ClientCloseSend, Client!CloseSend, Client!loopVars, Client!netVars,
       Client!recvVars, serverVars
  <2>2. closed = "no"
    BY <2>1 DEF UpOK, WrittenOK
  <2>3. QED
    BY <2>1, <2>2 DEF AbstractStep, Abstract!Next, Abstract!HalfClose,
       Abstract!vars, Verdict
<1>9. ASSUME UserCancel PROVE AbstractStep
  BY <1>9, Stutters DEF UserCancel, Fault, Client!UserCancel, serverVars,
     Client!loopVars, Client!netVars, Client!recvVars, Client!sendVars,
     abstractVars
<1>10. ASSUME Deliver PROVE AbstractStep
  BY <1>10, Stutters DEF Deliver, ownVars, serverVars, abstractVars
<1>11. ASSUME Breaks PROVE AbstractStep
  BY <1>11, Stutters DEF Breaks, Fault, clientVars, serverVars, ownVars,
     abstractVars
<1>12. ASSUME ClientDisconnected PROVE AbstractStep
  BY <1>12, Stutters DEF ClientDisconnected, Client!ConnectionFails,
     Unwritten, Client!loopVars, Client!ctxVars, Client!recvVars,
     Client!sendVars, wireVars, serverVars, abstractVars
<1>13. ASSUME ServeOpen PROVE AbstractStep
  BY <1>13, Stutters DEF ServeOpen, ServeRead, clientVars, ownVars,
     abstractVars
<1>14. ASSUME ServeReset PROVE AbstractStep
  BY <1>14, Stutters DEF ServeReset, ServeRead, Registered, clientVars,
     ownVars, abstractVars
<1>15. ASSUME ServePush PROVE AbstractStep
  BY <1>15, Stutters DEF ServePush, ServeRead, Registered, clientVars,
     ownVars, abstractVars
<1>16. ASSUME Push PROVE AbstractStep
  BY <1>16, Stutters DEF Push, clientVars, wireVars, ownVars, abstractVars
<1>17. ASSUME ServeTrailer PROVE AbstractStep
  BY <1>17, Stutters DEF ServeTrailer, ServeRead, Registered, clientVars,
     ownVars, abstractVars
<1>18. ASSUME ServeRefuse PROVE AbstractStep
  <2>1. /\ up # <<>> /\ Head(up).kind = "body" /\ up' = Tail(up)
        /\ app \in {"none", "ended"} /\ refused' = "yes"
        /\ UNCHANGED <<asked, heard, closed, eof, sent, got, ended, recvErr, rpc>>
    BY <1>18 DEF ServeRefuse, ServeRead, Registered, clientVars, ownVars
  <2>2. ended # "open"
    BY <2>1, ServerTail DEF ServerOK
  <2>3. Head(up) = up[1] /\ 1 \in DOMAIN up
    BY <1>t, <2>1, TailFacts
  <2>4. up[1].body # 0
    BY <2>1, <2>3 DEF UpOK, WrittenOK
  <2>5. up[1].body \in Nat
    BY <1>t, <2>1, TailFacts
  <2>6. PICK lo \in Nat : Run(up, lo, asked) /\ Len(heard) <= lo
    BY DEF UpOK, RequestsOK
  <2>7. lo < up[1].body /\ up[1].body <= asked
    BY <2>3, <2>4, <2>6 DEF Run
  <2>8. Len(heard) < asked
    BY <1>t, <2>5, <2>6, <2>7
  <2>9. Abstract!Refuse
    BY <2>1, <2>2, <2>8 DEF Abstract!Refuse, Verdict
  <2>10. QED
    BY <2>9 DEF AbstractStep, Abstract!Next
<1>19. ASSUME ServeExit PROVE AbstractStep
  BY <1>19, Stutters DEF ServeExit, clientVars, wireVars, ownVars,
     abstractVars
<1>20. ASSUME AppRecv PROVE AbstractStep
  <2>1. /\ app = "run" /\ ch # <<>>
        /\ \/ /\ Head(ch).kind = "body"
              /\ heard' = Append(heard, Head(ch).body) /\ eof' = eof
           \/ Head(ch).kind = "trailer" /\ eof' = "yes" /\ heard' = heard
        /\ UNCHANGED <<asked, closed, sent, got, ended, recvErr, rpc, refused>>
    BY <1>20 DEF AppRecv, clientVars, ownVars, wireVars
  <2>2. Head(ch) = ch[1]
    BY <1>t, <2>1, TailFacts
  <2>3. ended = "open"
    BY <2>1 DEF ServerOK
  <2>4. CASE ch[1].kind = "trailer"
    <3>1. closed = "yes" /\ Len(heard) = asked
      BY <2>1, <2>3, <2>4 DEF UpOK, WrittenOK, QueuesOK
    <3>2. Abstract!HearEof
      BY <2>1, <2>2, <2>3, <2>4, <3>1 DEF Abstract!HearEof, Verdict
    <3>3. QED
      BY <3>2 DEF AbstractStep, Abstract!Next
  <2>5. CASE ch[1].kind = "body"
    <3>1. ch[1].body # 0
      BY <2>1, <2>5 DEF UpOK, WrittenOK
    <3>2. Held(ch) = 1
      BY <2>1, <3>1 DEF Held
    <3>3. /\ ch[1].body = Len(heard) + 1
          /\ eof = "yes" => Len(heard) = asked
      BY <2>3, <3>2 DEF UpOK, QueuesOK
    <3>4. PICK lo \in Nat : lo <= asked /\ Arrived <= lo
      BY <2>3 DEF UpOK, RequestsOK
    <3>5. Held(cur) \in {0, 1}
      BY DEF Held
    <3>6. Len(heard) < asked
      BY <1>t, <3>2, <3>4, <3>5 DEF Arrived
    <3>7. eof = "no"
      BY <1>t, <3>3, <3>6
    <3>8. Abstract!Hear
      BY <2>1, <2>2, <2>3, <2>5, <3>3, <3>6, <3>7 DEF Abstract!Hear, Verdict
    <3>9. QED
      BY <3>8 DEF AbstractStep, Abstract!Next
  <2>6. QED
    BY <2>1, <2>2, <2>4, <2>5
<1>21. ASSUME AppSend PROVE AbstractStep
  BY <1>21, Stutters DEF AppSend, AppGoto, ownVars, wireVars, abstractVars
<1>22. ASSUME AppSendOk PROVE AbstractStep
  <2>1. /\ app = "send" /\ sent' = sent + 1
        /\ UNCHANGED <<asked, heard, closed, eof, got, ended, recvErr, rpc,
                       refused>>
    BY <1>22 DEF AppSendOk, AppGoto, ownVars, wireVars
  <2>2. ended = "open"
    BY <2>1 DEF ServerOK
  <2>3. QED
    BY <2>1, <2>2 DEF AbstractStep, Abstract!Next, Abstract!Reply, Verdict
<1>23. ASSUME AppSendCtx PROVE AbstractStep
  BY <1>23, Stutters DEF AppSendCtx, AppGoto, ownVars, wireVars, abstractVars
<1>24. ASSUME AppReturn PROVE AbstractStep
  <2>1. /\ app = "run" /\ ended' \in {"OK", "Err"}
        /\ UNCHANGED <<asked, heard, closed, eof, sent, got, recvErr, rpc,
                       refused>>
    BY <1>24 DEF AppReturn, AppGoto, ownVars, wireVars
  <2>2. ended = "open"
    BY <2>1 DEF ServerOK
  <2>3. QED
    BY <2>1, <2>2 DEF AbstractStep, Abstract!Next, Abstract!Finish, Verdict
<1>25. ASSUME SendTrailer PROVE AbstractStep
  BY <1>25, Stutters DEF SendTrailer, AppGoto, ownVars, wireVars, abstractVars
<1>26. ASSUME unregisterStream PROVE AbstractStep
  BY <1>26, Stutters DEF unregisterStream, AppGoto, ownVars, wireVars,
     abstractVars
<1>27. ASSUME StreamTimeout PROVE AbstractStep
  BY <1>27, Stutters DEF StreamTimeout, Fault, Registered, clientVars,
     ownVars, abstractVars
<1>28. ASSUME WriteOk PROVE AbstractStep
  BY <1>28, Stutters DEF WriteOk, clientVars, ownVars, abstractVars
<1>29. ASSUME WriteFails PROVE AbstractStep
  BY <1>29, Stutters DEF WriteFails, clientVars, ownVars, abstractVars
<1>30. CASE UNCHANGED vars
  BY <1>30, Stutters DEF vars, clientVars, ownVars, wireVars, serverVars,
     abstractVars
<1>31. QED
  BY <1>1, <1>2, <1>3, <1>4, <1>5, <1>6, <1>7, <1>8, <1>9, <1>10, <1>11,
     <1>12, <1>13, <1>14, <1>15, <1>16, <1>17, <1>18, <1>19, <1>20, <1>21,
     <1>22, <1>23, <1>24, <1>25, <1>26, <1>27, <1>28, <1>29, <1>30 DEF Next

\* The two ends of a stream and everything between them implement StreamSpec,
\* for any number of bodies, sends and faults.
THEOREM Implements == Spec => ImplementsStream
<1>1. Init => Abstract!Init
  BY DEF Init, Client!Init, Abstract!Init, Verdict
<1>2. IInv /\ [Next]_vars => [Abstract!Next]_(Abstract!vars)
  BY RefinementStep DEF AbstractStep
<1>3. QED
  BY Invariance, <1>1, <1>2, PTL DEF Spec, ImplementsStream, Abstract!Spec
=============================================================================

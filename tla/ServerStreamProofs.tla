------------------------- MODULE ServerStreamProofs -------------------------
(***************************************************************************)
(* ServerStream, for any goroutines and any number of calls: the types,    *)
(* and that what a client sees of a stream is well formed.                 *)
(***************************************************************************)
EXTENDS ServerStream, TLAPS

\* One goroutine at most writes, holding the lock; a call has an item of its
\* own; SendTrailer is called once the handler has returned.
CallsOK ==
    /\ \A g, h \in Goroutines : at[g] = "write" /\ at[h] = "write" => g = h
    /\ \A g \in Goroutines : op[g].name \in Ops => op[g].item \in Items
    /\ \A g \in Goroutines : op[g].name = "SendTrailer" => result # "none"

\* While the first Rpc is written it carries every item accepted so far, but
\* for those already lost; if headersSent is set and nothing was written or is
\* being written, all of them are.
HeaderOK ==
    /\ wire # <<>> => headersSent
    /\ ~Unlocked => (rpc.kind = "header" <=> ~headersSent)
    /\ ~Unlocked /\ rpc.headers # {} => wire = <<>>
    /\ ~Unlocked => rpc.headers \subseteq headers
    /\ ~Unlocked /\ rpc.kind = "header" => rpc.item \in rpc.headers
    /\ accepted \subseteq headers
    /\ ~Unlocked /\ wire = <<>> => accepted \subseteq rpc.headers \cup lost
    /\ Unlocked /\ headersSent /\ wire = <<>> => accepted \subseteq lost
    /\ HeadersOnFirst
    /\ HeadersOnce

\* The trailer that is written or was written is the only one; it has all the
\* trailers there will be, and the code of the handler's result.
TrailerOK ==
    /\ Trailers # {} => trailersSent
    /\ ~Unlocked /\ rpc.kind = "trailer" =>
           /\ trailersSent /\ Trailers = {}
           /\ result # "none" /\ rpc.code = trailerCode(result)
           /\ rpc.trailers = trailers
    /\ OneTrailer
    /\ FailureReported

IInv == TypeOK /\ CallsOK /\ HeaderOK /\ TrailerOK

-----------------------------------------------------------------------------
\* The lock, and what calls write.

\* Only a goroutine that begins or ends its write moves the lock.
LEMMA LockMoves ==
    ASSUME TypeOK, CallsOK, NEW g \in Goroutines
    PROVE  /\ UNCHANGED at => (Unlocked' <=> Unlocked)
           /\ at[g] # "write" /\ (\/ at' = [at EXCEPT ![g] = "idle"]
                                  \/ at' = [at EXCEPT ![g] = "call"]) =>
                  (Unlocked' <=> Unlocked)
           /\ at' = [at EXCEPT ![g] = "write"] => ~Unlocked'
           /\ at[g] = "write" => ~Unlocked
           /\ at[g] = "write" /\ at' = [at EXCEPT ![g] = "idle"] => Unlocked'
<1>1. at \in [Goroutines -> {"idle", "call", "write"}]
  BY DEF TypeOK
<1>2. UNCHANGED at => (Unlocked' <=> Unlocked)
  BY DEF Unlocked
<1>3. ASSUME at[g] # "write",
             \/ at' = [at EXCEPT ![g] = "idle"]
             \/ at' = [at EXCEPT ![g] = "call"]
      PROVE  Unlocked' <=> Unlocked
  <2>1. \A h \in Goroutines : at'[h] = "write" <=> at[h] = "write"
    BY <1>1, <1>3
  <2>2. QED
    BY <2>1 DEF Unlocked
<1>4. at' = [at EXCEPT ![g] = "write"] => ~Unlocked'
  BY <1>1 DEF Unlocked
<1>5. at[g] = "write" => ~Unlocked
  BY DEF Unlocked
<1>6. at[g] = "write" /\ at' = [at EXCEPT ![g] = "idle"] => Unlocked'
  BY <1>1 DEF Unlocked, CallsOK
<1>7. QED
  BY <1>2, <1>3, <1>4, <1>5, <1>6

\* A call that returns keeps the goroutines' types.
LEMMA ReturnsOK ==
    ASSUME TypeOK, NEW g \in Goroutines, Returns(g)
    PROVE  /\ op' \in [Goroutines -> [name : Ops \cup {"none", "SendTrailer"},
                                      item : 0..MaxCalls]]
           /\ at' \in [Goroutines -> {"idle", "call", "write"}]
           /\ op'[g] = NoOp /\ at'[g] = "idle"
           /\ \A h \in Goroutines \ {g} : op'[h] = op[h] /\ at'[h] = at[h]
<1>1. NoOp \in [name : Ops \cup {"none", "SendTrailer"}, item : 0..MaxCalls]
  BY CallBounds DEF NoOp
<1>2. QED
  BY <1>1 DEF Returns, TypeOK

\* A call that writes has an Rpc of one of the three kinds.
LEMMA RpcsOK ==
    ASSUME NEW h \in SUBSET Items, NEW n \in 0..MaxCalls, NEW c \in Codes,
           NEW t \in SUBSET Items
    PROVE  /\ [NoRpc EXCEPT !.headers = h, !.item = n] \in Rpc
           /\ [NoRpc EXCEPT !.kind = "body", !.item = n, !.headers = h] \in Rpc
           /\ [NoRpc EXCEPT !.kind = "trailer", !.code = c, !.trailers = t,
                            !.headers = h] \in Rpc
<1>1. NoRpc \in Rpc
  BY CallBounds DEF NoRpc, Rpc, Codes
<1>2. QED
  BY <1>1 DEF Rpc

-----------------------------------------------------------------------------
\* Every step keeps the types.
LEMMA TypeStep == IInv /\ [Next]_vars => TypeOK'
<1> SUFFICES ASSUME TypeOK, CallsOK, HeaderOK, [Next]_vars PROVE TypeOK'
  BY DEF IInv
<1>1. ASSUME NEW g \in Goroutines, NEW name \in Ops, Call(g, name) PROVE TypeOK'
  <2>1. [name |-> name, item |-> calls + 1] \in
            [name : Ops \cup {"none", "SendTrailer"}, item : 0..MaxCalls]
    BY <1>1, CallBounds DEF Call, TypeOK
  <2>2. calls' \in 0..MaxCalls
    BY <1>1, CallBounds DEF Call, TypeOK
  <2>3. QED
    BY <1>1, <2>1, <2>2 DEF Call, mdVars, inVars, TypeOK
<1>2. ASSUME NEW g \in Goroutines, setHeader(g) PROVE TypeOK'
  <2>1. op[g].item \in Items /\ op[g].item \in 0..MaxCalls
    BY <1>2, CallBounds DEF setHeader, Locked, CallsOK, Ops, Items
  <2>2. headers' \subseteq Items
    BY <1>2, <2>1 DEF setHeader, TypeOK
  <2>3. CASE Locked(g, "SetHeader")
    <3>1. Returns(g) /\ accepted' = accepted \cup {op[g].item} /\ UNCHANGED rpc
      BY <1>2, <2>3 DEF setHeader, Locked
    <3>2. QED
      BY <1>2, <2>1, <2>2, <3>1, ReturnsOK DEF setHeader, inVars, TypeOK
  <2>4. CASE Locked(g, "SendHeader")
    <3>1. /\ UNCHANGED <<op, accepted>>
          /\ Writes(g, [NoRpc EXCEPT !.headers = headers \cup {op[g].item},
                                     !.item = op[g].item])
      BY <1>2, <2>4 DEF setHeader, Locked
    <3>2. rpc' \in Rpc
      BY <2>1, <3>1, RpcsOK DEF Writes, TypeOK, Codes
    <3>3. at' \in [Goroutines -> {"idle", "call", "write"}]
      BY <3>1 DEF Writes, TypeOK
    <3>4. QED
      BY <1>2, <2>2, <3>1, <3>2, <3>3 DEF setHeader, inVars, TypeOK
  <2>5. QED
    BY <1>2, <2>3, <2>4 DEF setHeader
<1>3. ASSUME NEW g \in Goroutines, Refused(g) PROVE TypeOK'
  BY <1>3, ReturnsOK DEF Refused, mdVars, inVars, TypeOK
<1>4. ASSUME NEW g \in Goroutines, SetTrailer(g) PROVE TypeOK'
  <2>1. op[g].item \in Items
    BY <1>4 DEF SetTrailer, Locked, CallsOK, Ops
  <2>2. QED
    BY <1>4, <2>1, ReturnsOK DEF SetTrailer, inVars, TypeOK
<1>5. ASSUME NEW g \in Goroutines, SendMsg(g) PROVE TypeOK'
  <2>1. CASE Returns(g) /\ UNCHANGED <<rpc, headersSent>>
    BY <1>5, <2>1, ReturnsOK DEF SendMsg, inVars, TypeOK
  <2>2. CASE /\ Writes(g, [NoRpc EXCEPT !.kind = "body", !.item = op[g].item,
                                        !.headers = PendingHeaders])
             /\ headersSent' = TRUE
             /\ UNCHANGED op
    <3>1. op[g].item \in 0..MaxCalls /\ PendingHeaders \in SUBSET Items
      BY DEF TypeOK, PendingHeaders
    <3>2. rpc' \in Rpc
      BY <2>2, <3>1, RpcsOK DEF Writes, Codes, TypeOK
    <3>3. at' \in [Goroutines -> {"idle", "call", "write"}]
      BY <2>2 DEF Writes, TypeOK
    <3>4. QED
      BY <1>5, <2>2, <3>2, <3>3 DEF SendMsg, inVars, TypeOK
  <2>3. QED
    BY <1>5, <2>1, <2>2 DEF SendMsg
<1>6. ASSUME NEW g \in Goroutines, SendTrailer(g) PROVE TypeOK'
  <2>1. result \in Results /\ trailerCode(result) \in Codes
    BY <1>6 DEF SendTrailer, Locked, CallsOK, TypeOK, trailerCode, Results,
       Codes
  <2>2. trailers \in SUBSET Items /\ PendingHeaders \in SUBSET Items
    BY DEF TypeOK, PendingHeaders
  <2>3. rpc' = [NoRpc EXCEPT !.kind = "trailer",
                             !.code = trailerCode(result),
                             !.trailers = trailers,
                             !.headers = PendingHeaders]
    BY <1>6 DEF SendTrailer, Writes
  <2>4. 0 \in 0..MaxCalls
    BY CallBounds
  <2>5. rpc' \in Rpc
    BY <2>1, <2>2, <2>3, <2>4, RpcsOK
  <2>6. at' \in [Goroutines -> {"idle", "call", "write"}]
    BY <1>6 DEF SendTrailer, Writes, TypeOK
  <2>7. QED
    BY <1>6, <2>5, <2>6 DEF SendTrailer, inVars, TypeOK
<1>7. ASSUME NEW g \in Goroutines, WriteOk(g) PROVE TypeOK'
  <2>1. wire' \in Seq(Rpc)
    BY <1>7 DEF WriteOk, TypeOK
  <2>2. headersSent' \in BOOLEAN
    BY <1>7, Zenon DEF WriteOk
  <2>3. accepted' \subseteq Items
    <3>1. CASE rpc.kind = "header"
      <4>1. rpc.item \in Items /\ accepted' = accepted \cup {rpc.item}
        BY <1>7, <3>1, LockMoves DEF WriteOk, HeaderOK, TypeOK
      <4>2. QED
        BY <4>1 DEF TypeOK
    <3>2. CASE rpc.kind # "header"
      BY <1>7, <3>2 DEF WriteOk, TypeOK
    <3>3. QED
      BY <3>1, <3>2
  <2>4. QED
    BY <1>7, <2>1, <2>2, <2>3, ReturnsOK DEF WriteOk, inVars, TypeOK
<1>8. ASSUME NEW g \in Goroutines, WriteCtx(g) PROVE TypeOK'
  <2>1. lost' \subseteq Items
    BY <1>8 DEF WriteCtx, TypeOK, Rpc
  <2>2. QED
    BY <1>8, <2>1, ReturnsOK DEF WriteCtx, inVars, TypeOK
<1>9. ASSUME NEW r \in Results, HandlerReturns(r) PROVE TypeOK'
  <2>1. [name |-> "SendTrailer", item |-> 0] \in
            [name : Ops \cup {"none", "SendTrailer"}, item : 0..MaxCalls]
    BY CallBounds
  <2>2. op' \in [Goroutines -> [name : Ops \cup {"none", "SendTrailer"},
                                item : 0..MaxCalls]]
    BY <1>9, <2>1 DEF HandlerReturns, TypeOK
  <2>3. at' \in [Goroutines -> {"idle", "call", "write"}]
    BY <1>9 DEF HandlerReturns, TypeOK
  <2>4. QED
    BY <1>9, <2>2, <2>3 DEF HandlerReturns, mdVars, inVars, TypeOK
<1>10. ASSUME NEW r \in Incoming, Push(r) PROVE TypeOK'
  BY <1>10, CallBounds DEF Push, goVars, mdVars, CallsOK, TypeOK
<1>11. ASSUME RecvCall PROVE TypeOK'
  BY <1>11, CallBounds DEF RecvCall, goVars, mdVars, CallsOK, TypeOK
<1>12. ASSUME RecvMsg PROVE TypeOK'
  BY <1>12, CallBounds DEF RecvMsg, goVars, mdVars, CallsOK, TypeOK
<1>13. ASSUME HandlerCancel \/ CtxDone PROVE TypeOK'
  BY <1>13, CallBounds DEF HandlerCancel, CtxDone, goVars, mdVars, inVars,
     CallsOK, TypeOK
<1>14. CASE UNCHANGED vars
  BY <1>14 DEF vars, goVars, mdVars, inVars, TypeOK
<1>15. QED
  BY <1>1, <1>2, <1>3, <1>4, <1>5, <1>6, <1>7, <1>8, <1>9, <1>10, <1>11,
     <1>12, <1>13, <1>14 DEF Next, Method

callVars == <<at, op, result>>

\* Steps of no goroutine's call keep the calls.
LEMMA CallsFrame == CallsOK /\ UNCHANGED callVars => CallsOK'
  BY DEF CallsOK, callVars

\* A call that returns leaves the other calls as they were.
LEMMA ReturnsKeeps ==
    ASSUME TypeOK, CallsOK, NEW g \in Goroutines, Returns(g), UNCHANGED result
    PROVE  CallsOK'
  BY ReturnsOK DEF CallsOK, NoOp, Ops

\* Nor does one that takes the lock and begins to write change them.
LEMMA WritesKeeps ==
    ASSUME TypeOK, CallsOK, NEW g \in Goroutines, Unlocked,
           at' = [at EXCEPT ![g] = "write"], UNCHANGED <<op, result>>
    PROVE  CallsOK'
<1>1. \A h \in Goroutines \ {g} : at'[h] # "write"
  BY DEF Unlocked, TypeOK
<1>2. QED
  BY <1>1 DEF CallsOK

\* Every step keeps the lock, and what the calls know of it.
LEMMA CallsStep == IInv /\ [Next]_vars => CallsOK'
<1> SUFFICES ASSUME TypeOK, CallsOK, [Next]_vars PROVE CallsOK'
  BY DEF IInv
<1>1. ASSUME NEW g \in Goroutines, NEW name \in Ops, Call(g, name) PROVE CallsOK'
  <2>1. /\ \A h \in Goroutines \ {g} : op'[h] = op[h] /\ at'[h] = at[h]
        /\ op'[g].name = name /\ op'[g].item = calls + 1 /\ at'[g] = "call"
        /\ UNCHANGED result
    BY <1>1 DEF Call, TypeOK
  <2>2. calls + 1 \in Items /\ name # "SendTrailer"
    BY <1>1, CallBounds DEF Call, TypeOK, Items, Ops
  <2>3. QED
    BY <2>1, <2>2 DEF CallsOK
<1>2. ASSUME NEW g \in Goroutines, setHeader(g) PROVE CallsOK'
  <2>1. CASE Returns(g) /\ UNCHANGED result
    BY <2>1, ReturnsKeeps
  <2>2. CASE Locked(g, "SendHeader") /\ UNCHANGED <<op, result>>
             /\ at' = [at EXCEPT ![g] = "write"]
    BY <2>2, WritesKeeps DEF Locked
  <2>3. QED
    BY <1>2, <2>1, <2>2 DEF setHeader, Writes
<1>3. ASSUME NEW g \in Goroutines, Refused(g) PROVE CallsOK'
  BY <1>3, ReturnsKeeps DEF Refused
<1>4. ASSUME NEW g \in Goroutines, SetTrailer(g) PROVE CallsOK'
  BY <1>4, ReturnsKeeps DEF SetTrailer
<1>5. ASSUME NEW g \in Goroutines, SendMsg(g) PROVE CallsOK'
  <2>1. CASE Returns(g) /\ UNCHANGED result
    BY <2>1, ReturnsKeeps
  <2>2. CASE Unlocked /\ UNCHANGED <<op, result>>
             /\ at' = [at EXCEPT ![g] = "write"]
    BY <2>2, WritesKeeps
  <2>3. QED
    BY <1>5, <2>1, <2>2 DEF SendMsg, Locked, Writes
<1>6. ASSUME NEW g \in Goroutines, SendTrailer(g) PROVE CallsOK'
  BY <1>6, WritesKeeps DEF SendTrailer, Locked, Writes
<1>7. ASSUME NEW g \in Goroutines, WriteOk(g) PROVE CallsOK'
  BY <1>7, ReturnsKeeps DEF WriteOk
<1>8. ASSUME NEW g \in Goroutines, WriteCtx(g) PROVE CallsOK'
  BY <1>8, ReturnsKeeps DEF WriteCtx
<1>9. ASSUME NEW r \in Results, HandlerReturns(r) PROVE CallsOK'
  <2>1. Main \in Goroutines
    BY DEF Goroutines
  <2>2. /\ \A h \in Goroutines \ {Main} : op'[h] = op[h] /\ at'[h] = at[h]
        /\ op'[Main].name = "SendTrailer" /\ at'[Main] = "call"
        /\ result' = r
    BY <1>9, <2>1 DEF HandlerReturns, TypeOK
  <2>3. r # "none" /\ "SendTrailer" \notin Ops
    BY DEF Results, Ops
  <2>4. QED
    BY <2>2, <2>3 DEF CallsOK
<1>10. ASSUME NEW r \in Incoming, Push(r) PROVE CallsOK'
  BY <1>10, CallsFrame DEF Push, goVars, mdVars, callVars
<1>11. ASSUME RecvCall PROVE CallsOK'
  BY <1>11, CallsFrame DEF RecvCall, goVars, mdVars, callVars
<1>12. ASSUME RecvMsg PROVE CallsOK'
  BY <1>12, CallsFrame DEF RecvMsg, goVars, mdVars, callVars
<1>13. ASSUME HandlerCancel \/ CtxDone PROVE CallsOK'
  BY <1>13, CallsFrame DEF HandlerCancel, CtxDone, goVars, mdVars, inVars,
     callVars
<1>14. CASE UNCHANGED vars
  BY <1>14, CallsFrame DEF vars, goVars, mdVars, inVars, callVars
<1>15. QED
  BY <1>1, <1>2, <1>3, <1>4, <1>5, <1>6, <1>7, <1>8, <1>9, <1>10, <1>11,
     <1>12, <1>13, <1>14 DEF Next, Method

\* Steps that leave these variables and the lock alone keep the headers.
LEMMA HeaderFrame ==
    ASSUME HeaderOK, Unlocked' <=> Unlocked,
           UNCHANGED <<rpc, headers, headersSent, accepted, lost, wire>>
    PROVE  HeaderOK'
  BY DEF HeaderOK, HeadersOnFirst, HeadersOnce

\* An Rpc with a body or a trailer that begins to be written takes the headers
\* with it if nothing did before.
LEMMA CarrierOK ==
    ASSUME HeaderOK, Unlocked, ~Unlocked', headersSent' = TRUE,
           rpc'.kind # "header", rpc'.headers = PendingHeaders,
           UNCHANGED <<headers, accepted, lost, wire>>
    PROVE  HeaderOK'
<1>1. CASE headersSent
  BY <1>1 DEF HeaderOK, HeadersOnFirst, HeadersOnce, PendingHeaders
<1>2. CASE ~headersSent
  BY <1>2 DEF HeaderOK, HeadersOnFirst, HeadersOnce, PendingHeaders
<1>3. QED
  BY <1>1, <1>2

\* Every step keeps the accepted headers on their way to the first Rpc.
LEMMA HeaderStep == IInv /\ [Next]_vars => HeaderOK'
<1> SUFFICES ASSUME TypeOK, CallsOK, HeaderOK, [Next]_vars PROVE HeaderOK'
  BY DEF IInv
<1>1. ASSUME NEW g \in Goroutines, NEW name \in Ops, Call(g, name) PROVE HeaderOK'
  <2>1. Unlocked' <=> Unlocked
    BY <1>1, LockMoves DEF Call
  <2>2. QED
    BY <1>1, <2>1, HeaderFrame DEF Call, mdVars
<1>2. ASSUME NEW g \in Goroutines, setHeader(g) PROVE HeaderOK'
  <2>1. /\ ~headersSent /\ wire = <<>> /\ wire' = <<>>
        /\ UNCHANGED <<headersSent, lost>>
    BY <1>2 DEF setHeader, HeaderOK
  <2>2. Unlocked /\ at[g] = "call" /\ headers' = headers \cup {op[g].item}
    BY <1>2 DEF setHeader, Locked
  <2>3. CASE Locked(g, "SetHeader")
    <3>1. /\ at' = [at EXCEPT ![g] = "idle"]
          /\ accepted' = accepted \cup {op[g].item}
      BY <1>2, <2>3 DEF setHeader, Locked, Returns
    <3>2. Unlocked'
      BY <2>2, <3>1, LockMoves
    <3>3. QED
      BY <2>1, <2>2, <3>1, <3>2 DEF HeaderOK, HeadersOnFirst, HeadersOnce
  <2>4. CASE Locked(g, "SendHeader")
    <3>1. /\ at' = [at EXCEPT ![g] = "write"] /\ UNCHANGED accepted
          /\ rpc' = [NoRpc EXCEPT !.headers = headers \cup {op[g].item},
                                  !.item = op[g].item]
      BY <1>2, <2>4 DEF setHeader, Locked, Writes
    <3>2. ~Unlocked'
      BY <3>1, LockMoves
    <3>3. /\ rpc'.kind = "header" /\ rpc'.headers = headers'
          /\ rpc'.item \in rpc'.headers
      BY <2>2, <3>1 DEF NoRpc
    <3>4. QED
      BY <2>1, <2>2, <3>1, <3>2, <3>3 DEF HeaderOK, HeadersOnFirst,
         HeadersOnce
  <2>5. QED
    BY <1>2, <2>3, <2>4 DEF setHeader
<1>3. ASSUME NEW g \in Goroutines, Refused(g) PROVE HeaderOK'
  <2>1. at[g] # "write" /\ at' = [at EXCEPT ![g] = "idle"]
    BY <1>3 DEF Refused, Locked, Returns
  <2>2. Unlocked' <=> Unlocked
    BY <2>1, LockMoves
  <2>3. QED
    BY <1>3, <2>2, HeaderFrame DEF Refused, mdVars
<1>4. ASSUME NEW g \in Goroutines, SetTrailer(g) PROVE HeaderOK'
  <2>1. at[g] # "write" /\ at' = [at EXCEPT ![g] = "idle"]
    BY <1>4 DEF SetTrailer, Locked, Returns
  <2>2. Unlocked' <=> Unlocked
    BY <2>1, LockMoves
  <2>3. QED
    BY <1>4, <2>2, HeaderFrame DEF SetTrailer
<1>5. ASSUME NEW g \in Goroutines, SendMsg(g) PROVE HeaderOK'
  <2>1. /\ Unlocked /\ at[g] = "call"
        /\ UNCHANGED <<headers, accepted, lost, wire>>
    BY <1>5 DEF SendMsg, Locked
  <2>2. CASE Returns(g) /\ UNCHANGED <<rpc, headersSent>>
    <3>1. Unlocked' <=> Unlocked
      BY <2>1, <2>2, LockMoves DEF Returns
    <3>2. QED
      BY <2>1, <2>2, <3>1, HeaderFrame
  <2>3. CASE /\ Writes(g, [NoRpc EXCEPT !.kind = "body", !.item = op[g].item,
                                        !.headers = PendingHeaders])
             /\ headersSent' = TRUE
    <3>1. ~Unlocked'
      BY <2>3, LockMoves DEF Writes
    <3>2. rpc'.kind # "header" /\ rpc'.headers = PendingHeaders
      BY <2>3 DEF Writes, NoRpc
    <3>3. QED
      BY <2>1, <2>3, <3>1, <3>2, CarrierOK
  <2>4. QED
    BY <1>5, <2>2, <2>3 DEF SendMsg
<1>6. ASSUME NEW g \in Goroutines, SendTrailer(g) PROVE HeaderOK'
  <2>1. Unlocked /\ UNCHANGED <<headers, accepted, lost, wire>>
    BY <1>6 DEF SendTrailer, Locked
  <2>2. ~Unlocked' /\ headersSent' = TRUE
    BY <1>6, LockMoves DEF SendTrailer, Writes
  <2>3. rpc'.kind # "header" /\ rpc'.headers = PendingHeaders
    BY <1>6 DEF SendTrailer, Writes, NoRpc
  <2>4. QED
    BY <2>1, <2>2, <2>3, CarrierOK
<1>7. ASSUME NEW g \in Goroutines, WriteOk(g) PROVE HeaderOK'
  <2>1. ~Unlocked /\ Unlocked'
    BY <1>7, LockMoves DEF WriteOk, Returns
  <2>2. headersSent' = TRUE
    <3>1. headersSent' = (headersSent \/ rpc.kind = "header")
      BY <1>7 DEF WriteOk
    <3>2. headersSent \/ rpc.kind = "header"
      BY <2>1 DEF HeaderOK
    <3>3. QED
      BY <3>1, <3>2
  <2>3. wire' = Append(wire, rpc) /\ wire \in Seq(Rpc) /\ rpc \in Rpc
    BY <1>7 DEF WriteOk, TypeOK
  <2>4. /\ Len(wire) \in Nat /\ DOMAIN wire = 1..Len(wire)
        /\ DOMAIN wire' = 1..(Len(wire) + 1) /\ wire'[Len(wire) + 1] = rpc
        /\ \A i \in 1..Len(wire) : wire'[i] = wire[i]
        /\ wire' # <<>> /\ (wire = <<>> <=> Len(wire) = 0)
    BY <2>3
  <2>5. wire # <<>> => rpc.kind # "header" /\ rpc.headers = {}
    BY <2>1 DEF HeaderOK
  <2>6. rpc.kind = "header" => rpc.item \in rpc.headers
    BY <2>1 DEF HeaderOK
  <2>7. accepted' \subseteq accepted \cup rpc.headers
    BY <1>7, <2>6 DEF WriteOk
  <2>8. accepted' \subseteq headers' /\ headers' = headers
    BY <1>7, <2>1, <2>7 DEF WriteOk, HeaderOK
  <2>9. lost' = lost
    BY <1>7 DEF WriteOk
  <2>10. HeadersOnFirst'
    <3>1. CASE wire = <<>>
      <4>1. wire'[1] = rpc
        BY <2>4, <3>1
      <4>2. accepted \subseteq rpc.headers \cup lost
        BY <2>1, <3>1 DEF HeaderOK
      <4>3. QED
        BY <2>7, <2>9, <4>1, <4>2 DEF HeadersOnFirst
    <3>2. CASE wire # <<>>
      <4>1. wire'[1] = wire[1]
        BY <2>4, <3>2
      <4>2. accepted \subseteq wire[1].headers \cup lost
        BY <3>2 DEF HeaderOK, HeadersOnFirst
      <4>3. accepted' = accepted
        BY <1>7, <2>5, <3>2 DEF WriteOk
      <4>4. QED
        BY <2>9, <4>1, <4>2, <4>3 DEF HeadersOnFirst
    <3>3. QED
      BY <3>1, <3>2
  <2>11. HeadersOnce'
    <3>1. CASE wire = <<>>
      BY <2>4, <3>1 DEF HeadersOnce
    <3>2. CASE wire # <<>>
      <4>1. ASSUME NEW i \in DOMAIN wire', wire'[i].headers # {}
            PROVE  i \in DOMAIN wire /\ wire'[i] = wire[i]
        BY <2>4, <2>5, <3>2, <4>1
      <4>2. ASSUME NEW i \in DOMAIN wire', wire'[i].kind = "header"
            PROVE  i \in DOMAIN wire /\ wire'[i] = wire[i]
        BY <2>4, <2>5, <3>2, <4>2
      <4>3. QED
        BY <4>1, <4>2 DEF HeaderOK, HeadersOnce
    <3>3. QED
      BY <3>1, <3>2
  <2>12. QED
    BY <2>1, <2>2, <2>4, <2>8, <2>10, <2>11 DEF HeaderOK
<1>8. ASSUME NEW g \in Goroutines, WriteCtx(g) PROVE HeaderOK'
  <2>1. ~Unlocked /\ Unlocked'
    BY <1>8, LockMoves DEF WriteCtx, Returns
  <2>2. UNCHANGED <<rpc, headers, headersSent, accepted, wire>>
    BY <1>8 DEF WriteCtx
  <2>3. /\ lost \subseteq lost'
        /\ rpc.kind # "header" => rpc.headers \cup lost = lost'
    BY <1>8 DEF WriteCtx
  <2>4. headersSent /\ wire = <<>> => accepted \subseteq lost'
    BY <2>1, <2>3 DEF HeaderOK
  <2>5. HeadersOnFirst' /\ HeadersOnce'
    BY <2>2, <2>3 DEF HeaderOK, HeadersOnFirst, HeadersOnce
  <2>6. QED
    BY <2>1, <2>2, <2>4, <2>5 DEF HeaderOK
<1>9. ASSUME NEW r \in Results, HandlerReturns(r) PROVE HeaderOK'
  <2>1. Main \in Goroutines
    BY DEF Goroutines
  <2>2. Unlocked' <=> Unlocked
    BY <1>9, <2>1, LockMoves DEF HandlerReturns
  <2>3. QED
    BY <1>9, <2>2, HeaderFrame DEF HandlerReturns, mdVars
<1>10. ASSUME NEW r \in Incoming, Push(r) PROVE HeaderOK'
  <2>1. Unlocked' <=> Unlocked
    BY <1>10 DEF Push, goVars, Unlocked
  <2>2. QED
    BY <1>10, <2>1, HeaderFrame DEF Push, goVars, mdVars
<1>11. ASSUME RecvCall PROVE HeaderOK'
  <2>1. Unlocked' <=> Unlocked
    BY <1>11 DEF RecvCall, goVars, Unlocked
  <2>2. QED
    BY <1>11, <2>1, HeaderFrame DEF RecvCall, goVars, mdVars
<1>12. ASSUME RecvMsg PROVE HeaderOK'
  <2>1. Unlocked' <=> Unlocked
    BY <1>12 DEF RecvMsg, goVars, Unlocked
  <2>2. QED
    BY <1>12, <2>1, HeaderFrame DEF RecvMsg, goVars, mdVars
<1>13. ASSUME HandlerCancel \/ CtxDone PROVE HeaderOK'
  <2>1. Unlocked' <=> Unlocked
    BY <1>13 DEF HandlerCancel, CtxDone, goVars, Unlocked
  <2>2. QED
    BY <1>13, <2>1, HeaderFrame DEF HandlerCancel, CtxDone, goVars, mdVars
<1>14. CASE UNCHANGED vars
  <2>1. Unlocked' <=> Unlocked
    BY <1>14 DEF vars, goVars, Unlocked
  <2>2. QED
    BY <1>14, <2>1, HeaderFrame DEF vars, goVars, mdVars
<1>15. QED
  BY <1>1, <1>2, <1>3, <1>4, <1>5, <1>6, <1>7, <1>8, <1>9, <1>10, <1>11,
     <1>12, <1>13, <1>14 DEF Next, Method

\* Steps that leave these variables and the lock alone keep the trailer.
LEMMA TrailerFrame ==
    ASSUME TrailerOK, Unlocked' <=> Unlocked,
           UNCHANGED <<rpc, trailers, trailersSent, result, wire>>
    PROVE  TrailerOK'
  BY DEF TrailerOK, OneTrailer, FailureReported, Trailers

\* So does an Rpc that is no trailer when it begins to be written.
LEMMA TrailerOther ==
    ASSUME TrailerOK, rpc'.kind # "trailer",
           UNCHANGED <<trailers, trailersSent, result, wire>>
    PROVE  TrailerOK'
  BY DEF TrailerOK, OneTrailer, FailureReported, Trailers

\* Every step keeps the one trailer true to the handler's result.
LEMMA TrailerStep == IInv /\ [Next]_vars => TrailerOK'
<1> SUFFICES ASSUME TypeOK, CallsOK, HeaderOK, TrailerOK, [Next]_vars
             PROVE TrailerOK'
  BY DEF IInv
<1>1. ASSUME NEW g \in Goroutines, NEW name \in Ops, Call(g, name) PROVE TrailerOK'
  <2>1. Unlocked' <=> Unlocked
    BY <1>1, LockMoves DEF Call
  <2>2. QED
    BY <1>1, <2>1, TrailerFrame DEF Call, mdVars
<1>2. ASSUME NEW g \in Goroutines, setHeader(g) PROVE TrailerOK'
  <2>1. Unlocked /\ at[g] = "call" /\ UNCHANGED <<trailers, trailersSent, result, wire>>
    BY <1>2 DEF setHeader, Locked
  <2>2. CASE Returns(g) /\ UNCHANGED rpc
    <3>1. Unlocked' <=> Unlocked
      BY <2>1, <2>2, LockMoves DEF Returns
    <3>2. QED
      BY <2>1, <2>2, <3>1, TrailerFrame
  <2>3. CASE Writes(g, [NoRpc EXCEPT !.headers = headers \cup {op[g].item},
                                     !.item = op[g].item])
    <3>1. rpc'.kind # "trailer"
      BY <2>3 DEF Writes, NoRpc
    <3>2. QED
      BY <2>1, <3>1, TrailerOther
  <2>4. QED
    BY <1>2, <2>2, <2>3 DEF setHeader
<1>3. ASSUME NEW g \in Goroutines, Refused(g) PROVE TrailerOK'
  <2>1. at[g] # "write" /\ at' = [at EXCEPT ![g] = "idle"]
    BY <1>3 DEF Refused, Locked, Returns
  <2>2. Unlocked' <=> Unlocked
    BY <2>1, LockMoves
  <2>3. QED
    BY <1>3, <2>2, TrailerFrame DEF Refused, mdVars
<1>4. ASSUME NEW g \in Goroutines, SetTrailer(g) PROVE TrailerOK'
  <2>1. at[g] # "write" /\ at' = [at EXCEPT ![g] = "idle"] /\ Unlocked
    BY <1>4 DEF SetTrailer, Locked, Returns
  <2>2. Unlocked' /\ Trailers = {} /\ Trailers' = {}
    BY <1>4, <2>1, LockMoves DEF SetTrailer, TrailerOK, Trailers
  <2>3. QED
    BY <1>4, <2>2 DEF SetTrailer, TrailerOK, OneTrailer, FailureReported
<1>5. ASSUME NEW g \in Goroutines, SendMsg(g) PROVE TrailerOK'
  <2>1. Unlocked /\ at[g] = "call" /\ UNCHANGED <<trailers, trailersSent, result, wire>>
    BY <1>5 DEF SendMsg, Locked
  <2>2. CASE Returns(g) /\ UNCHANGED rpc
    <3>1. Unlocked' <=> Unlocked
      BY <2>1, <2>2, LockMoves DEF Returns
    <3>2. QED
      BY <2>1, <2>2, <3>1, TrailerFrame
  <2>3. CASE Writes(g, [NoRpc EXCEPT !.kind = "body", !.item = op[g].item,
                                     !.headers = PendingHeaders])
    <3>1. rpc'.kind # "trailer"
      BY <2>3 DEF Writes, NoRpc
    <3>2. QED
      BY <2>1, <3>1, TrailerOther
  <2>4. QED
    BY <1>5, <2>2, <2>3 DEF SendMsg
<1>6. ASSUME NEW g \in Goroutines, SendTrailer(g) PROVE TrailerOK'
  <2>1. result # "none" /\ Trailers = {} /\ Trailers' = {}
    BY <1>6 DEF SendTrailer, Locked, CallsOK, TrailerOK, Trailers
  <2>2. rpc'.code = trailerCode(result) /\ rpc'.trailers = trailers
    BY <1>6 DEF SendTrailer, Writes, NoRpc
  <2>3. QED
    BY <1>6, <2>1, <2>2 DEF SendTrailer, TrailerOK, OneTrailer,
       FailureReported
<1>7. ASSUME NEW g \in Goroutines, WriteOk(g) PROVE TrailerOK'
  <2>1. ~Unlocked /\ Unlocked'
    BY <1>7, LockMoves DEF WriteOk, Returns
  <2>2. /\ wire' = Append(wire, rpc) /\ wire \in Seq(Rpc) /\ rpc \in Rpc
        /\ UNCHANGED <<trailers, trailersSent, result>>
    BY <1>7 DEF WriteOk, TypeOK
  <2>3. /\ Len(wire) \in Nat /\ DOMAIN wire = 1..Len(wire)
        /\ DOMAIN wire' = 1..(Len(wire) + 1) /\ wire'[Len(wire) + 1] = rpc
        /\ \A i \in 1..Len(wire) : wire'[i] = wire[i]
    BY <2>2
  <2>4. rpc.kind \in {"header", "body", "trailer"}
    BY <2>2 DEF Rpc
  <2>5. CASE rpc.kind = "trailer"
    <3>1. /\ Trailers = {} /\ trailersSent /\ result # "none"
          /\ rpc.code = trailerCode(result) /\ rpc.trailers = trailers
      BY <2>1, <2>5 DEF TrailerOK
    <3>2. \A i \in Trailers' : i = Len(wire) + 1 /\ wire'[i] = rpc
      BY <2>3, <3>1 DEF Trailers
    <3>3. trailerCode(result) = "OK" <=> result = "nil"
      BY <3>1 DEF trailerCode, TypeOK, Results
    <3>4. OneTrailer'
      BY <2>2, <2>3, <3>1, <3>2 DEF OneTrailer
    <3>5. FailureReported'
      BY <2>2, <3>1, <3>2, <3>3 DEF FailureReported
    <3>6. QED
      BY <2>1, <2>2, <3>1, <3>4, <3>5 DEF TrailerOK
  <2>6. CASE rpc.kind # "trailer"
    <3>1. Trailers' = Trailers /\ \A i \in Trailers : wire'[i] = wire[i]
      BY <2>3, <2>6 DEF Trailers
    <3>2. wire # <<>> => rpc.kind = "body"
      BY <2>1, <2>4, <2>6 DEF HeaderOK
    <3>3. Trailers # {} => wire # <<>>
      BY DEF Trailers
    <3>4. ASSUME NEW i \in Trailers
          PROVE  /\ result' # "none" /\ wire'[i].trailers = trailers'
                 /\ \A j \in DOMAIN wire' : j > i => wire'[j].kind = "body"
      <4>1. /\ result # "none" /\ wire[i].trailers = trailers
            /\ \A j \in DOMAIN wire : j > i => wire[j].kind = "body"
        BY DEF TrailerOK, OneTrailer
      <4>2. rpc.kind = "body"
        BY <3>2, <3>3
      <4>3. ASSUME NEW j \in DOMAIN wire', j > i
            PROVE  wire'[j].kind = "body"
        <5>1. CASE j \in 1..Len(wire)
          BY <2>3, <4>1, <4>3, <5>1
        <5>2. CASE j = Len(wire) + 1
          BY <2>3, <4>2, <5>2
        <5>3. QED
          BY <2>3, <5>1, <5>2
      <4>4. QED
        BY <2>2, <3>1, <4>1, <4>3
    <3>7. OneTrailer'
      BY <3>1, <3>4 DEF OneTrailer
    <3>5. FailureReported'
      BY <2>2, <3>1 DEF TrailerOK, FailureReported
    <3>6. QED
      BY <2>1, <2>2, <3>1, <3>7, <3>5 DEF TrailerOK
  <2>7. QED
    BY <2>5, <2>6
<1>8. ASSUME NEW g \in Goroutines, WriteCtx(g) PROVE TrailerOK'
  <2>1. Unlocked'
    BY <1>8, LockMoves DEF WriteCtx, Returns
  <2>2. UNCHANGED <<rpc, trailers, trailersSent, result, wire>>
    BY <1>8 DEF WriteCtx
  <2>3. QED
    BY <2>1, <2>2 DEF TrailerOK, OneTrailer, FailureReported, Trailers
<1>9. ASSUME NEW r \in Results, HandlerReturns(r) PROVE TrailerOK'
  <2>1. Main \in Goroutines
    BY DEF Goroutines
  <2>2. Unlocked' <=> Unlocked
    BY <1>9, <2>1, LockMoves DEF HandlerReturns
  <2>3. /\ result = "none" /\ result' # "none"
        /\ UNCHANGED <<rpc, trailers, trailersSent, wire>>
    BY <1>9 DEF HandlerReturns, mdVars, Results
  <2>4. Trailers = {} /\ Trailers' = {}
    BY <2>3 DEF TrailerOK, OneTrailer, Trailers
  <2>5. QED
    BY <2>2, <2>3, <2>4 DEF TrailerOK, OneTrailer, FailureReported
<1>10. ASSUME NEW r \in Incoming, Push(r) PROVE TrailerOK'
  <2>1. Unlocked' <=> Unlocked
    BY <1>10 DEF Push, goVars, Unlocked
  <2>2. QED
    BY <1>10, <2>1, TrailerFrame DEF Push, goVars, mdVars
<1>11. ASSUME RecvCall PROVE TrailerOK'
  <2>1. Unlocked' <=> Unlocked
    BY <1>11 DEF RecvCall, goVars, Unlocked
  <2>2. QED
    BY <1>11, <2>1, TrailerFrame DEF RecvCall, goVars, mdVars
<1>12. ASSUME RecvMsg PROVE TrailerOK'
  <2>1. Unlocked' <=> Unlocked
    BY <1>12 DEF RecvMsg, goVars, Unlocked
  <2>2. QED
    BY <1>12, <2>1, TrailerFrame DEF RecvMsg, goVars, mdVars
<1>13. ASSUME HandlerCancel \/ CtxDone PROVE TrailerOK'
  <2>1. Unlocked' <=> Unlocked
    BY <1>13 DEF HandlerCancel, CtxDone, goVars, Unlocked
  <2>2. QED
    BY <1>13, <2>1, TrailerFrame DEF HandlerCancel, CtxDone, goVars, mdVars
<1>14. CASE UNCHANGED vars
  <2>1. Unlocked' <=> Unlocked
    BY <1>14 DEF vars, goVars, Unlocked
  <2>2. QED
    BY <1>14, <2>1, TrailerFrame DEF vars, goVars, mdVars
<1>15. QED
  BY <1>1, <1>2, <1>3, <1>4, <1>5, <1>6, <1>7, <1>8, <1>9, <1>10, <1>11,
     <1>12, <1>13, <1>14 DEF Next, Method

-----------------------------------------------------------------------------
\* The invariant holds of every reachable state.
THEOREM Invariance == Spec => []IInv
<1>1. ASSUME Init PROVE IInv
  <2>1. NoOp \in [name : Ops \cup {"none", "SendTrailer"}, item : 0..MaxCalls]
    BY CallBounds DEF NoOp
  <2>2. NoRpc \in Rpc
    BY CallBounds DEF NoRpc, Rpc, Codes
  <2>3. TypeOK
    <3>1. op \in [Goroutines -> [name : Ops \cup {"none", "SendTrailer"},
                                item : 0..MaxCalls]]
      BY <1>1, <2>1 DEF Init
    <3>2. at \in [Goroutines -> {"idle", "call", "write"}]
      BY <1>1 DEF Init
    <3>3. headersSent \in BOOLEAN /\ trailersSent \in BOOLEAN
      BY <1>1, Zenon DEF Init
    <3>4. wire \in Seq(Rpc) /\ ch \in Seq(Incoming) /\ Len(ch) <= 1
      BY <1>1 DEF Init
    <3>5. calls \in 0..MaxCalls /\ pushed \in 0..MaxIn
      BY <1>1, CallBounds DEF Init
    <3>6. QED
      BY <1>1, <2>2, <3>1, <3>2, <3>3, <3>4, <3>5 DEF Init, TypeOK
  <2>4. CallsOK
    BY <1>1 DEF Init, CallsOK, NoOp, Ops
  <2>5. Unlocked
    BY <1>1 DEF Init, Unlocked
  <2>6. HeaderOK
    BY <1>1, <2>5 DEF Init, HeaderOK, HeadersOnFirst, HeadersOnce
  <2>7. TrailerOK
    BY <1>1, <2>5 DEF Init, TrailerOK, OneTrailer, FailureReported, Trailers
  <2>8. QED
    BY <2>3, <2>4, <2>6, <2>7 DEF IInv
<1>2. IInv /\ [Next]_vars => IInv'
  BY TypeStep, CallsStep, HeaderStep, TrailerStep DEF IInv
<1>3. QED
  BY <1>1, <1>2, PTL DEF Spec

\* Every variable of the stream keeps its type.
THEOREM TypeCorrect == Spec => []TypeOK
<1>1. IInv => TypeOK
  BY DEF IInv
<1>2. QED
  BY <1>1, Invariance, PTL

\* Whatever goroutines a handler starts and however their calls race, a client
\* sees the accepted headers on the first Rpc, even if that is the trailer, and
\* once, and one trailer with all trailers and the code of what the handler
\* returned; only headers on a body or a trailer that was not written are lost.
THEOREM RepliesAreWellFormed == Spec => []RepliesWellFormed
<1>1. IInv => RepliesWellFormed
  BY DEF IInv, HeaderOK, TrailerOK, RepliesWellFormed
<1>2. QED
  BY <1>1, Invariance, PTL

=============================================================================

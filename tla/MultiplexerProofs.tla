------------------------- MODULE MultiplexerProofs -------------------------
(***************************************************************************)
(* Multiplexer, for any number of calls and replies: its types, the        *)
(* absence of channel panics, and the integrity of the replies.            *)
(***************************************************************************)
EXTENDS Multiplexer, TLAPS

\* Ids are handed out once.
IdsOK ==
    /\ \A c \in Calls : callId[c] <= streamCounter
    /\ \A c \in Calls : pc[c] \in {"start", "alloc"} => callId[c] = 0
    /\ \A c \in Calls :
           pc[c] \notin {"start", "alloc", "done"} => callId[c] # 0
    /\ \A c, d \in Calls : callId[c] = callId[d] /\ callId[c] # 0 => c = d

\* What is registered is open, and belongs to the call with that id, which
\* has registered and not yet returned.
HandlersOK ==
    \A i \in DOMAIN handlers :
        /\ i # 0
        /\ callId[handlers[i]] = i
        /\ handlers[i] \notin closed
        /\ pc[handlers[i]] \notin {"start", "alloc", "register", "done"}

\* A call has its channel closed, and its request written, only after it
\* registered.
StartedOK ==
    /\ \A c \in closed :
           pc[c] \notin {"start", "alloc", "register"} /\ callId[c] # 0
    /\ \A c \in written :
           pc[c] \notin {"start", "alloc", "register", "write"}
               /\ callId[c] # 0

\* The reply in readLoop's hand is the last one sent to its call; while it is
\* being delivered, the mutex keeps the call registered.
HandOK ==
    /\ loop \in {"handle", "deliver"} => hand \in Rpc \ {NoRpc}
    /\ loop \notin {"handle", "deliver"} => hand = NoRpc
    /\ hand # NoRpc => /\ hand.id = callId[hand.call]
                       /\ hand.call \in written
                       /\ hand.n = sent[hand.call]
    /\ loop = "deliver" => hand.id \in DOMAIN handlers

Registry == IdsOK /\ HandlersOK /\ StartedOK /\ HandOK /\ NoPanic

\* Nothing was sent to, or taken by, a call that has not written.
FreshOK ==
    \A c \in Calls \ written :
        sent[c] = 0 /\ recvd[c] = <<>> /\ respChan[c] = NoRpc

\* The reply in a channel is the next one its call will take.
SlotOK ==
    \A c \in Calls : respChan[c] # NoRpc =>
        respChan[c].call = c /\ respChan[c].n = Len(recvd[c]) + 1

Replies == FreshOK /\ SlotOK /\ NothingLost /\ InOrder

\* A unary call's channel is closed by its own return or by closeError.
ClosedOK ==
    /\ \A c \in closed \cap Unary : rErr # "nil" \/ pc[c] = "done"
    /\ ClosedMeansFailed

\* The inductive invariant, proved in the four stages below.
IInv == TypeOK /\ Registry /\ Replies /\ ClosedOK
-----------------------------------------------------------------------------
\* Types.

\* The send of handleResponse keeps the type of a channel's content.
LEMMA SendType ==
    ASSUME NEW T, respChan \in [Calls -> T], hand \in T, NEW d, SendTo(d)
    PROVE  respChan' \in [Calls -> T]
  BY DEF SendTo

\* Every step of the calls and of the read loop keeps the types.
LEMMA TypeStep == TypeOK /\ [Next]_vars => TypeOK'
<1> SUFFICES ASSUME TypeOK, [Next]_vars PROVE TypeOK'
  OBVIOUS
<1>1. CASE \E c \in Calls : CheckDone(c)
  BY <1>1 DEF TypeOK, CheckDone, Returns, Goto, Steps, Results, callVars,
     chanVars, loopVars
<1>2. CASE \E c \in Calls : AllocId(c)
  BY <1>2 DEF TypeOK, AllocId, Goto, Steps, callVars, chanVars, loopVars
<1>3. CASE \E c \in Calls : registerHandler(c)
  BY <1>3 DEF TypeOK, registerHandler, Goto, Steps, callVars, chanVars,
     loopVars
<1>4. CASE \E c \in Calls : WriteOk(c)
  BY <1>4 DEF TypeOK, WriteOk, Goto, Steps, callVars, chanVars, loopVars
<1>5. CASE \E c \in Calls : WriteFails(c)
  BY <1>5 DEF TypeOK, WriteFails, Returns, Goto, Steps, Results, callVars,
     chanVars, loopVars
<1>6. CASE \E c \in Calls : Cancel(c)
  BY <1>6 DEF TypeOK, Cancel, callVars, chanVars, loopVars
<1>7. CASE \E c \in Unary : UnaryReply(c)
  BY <1>7 DEF TypeOK, UnaryReply, Take, Returns, Goto, Outcome, Steps,
     Results, Calls, callVars, chanVars, loopVars
<1>8. CASE \E c \in Unary : UnaryClosed(c)
  BY <1>8 DEF TypeOK, UnaryClosed, FindsClosed, Returns, Goto, Steps,
     Results, Calls, callVars, chanVars, loopVars
<1>9. CASE \E c \in Unary : UnaryCtxDone(c)
  BY <1>9 DEF TypeOK, UnaryCtxDone, Returns, Goto, Steps, Results, Calls,
     callVars, chanVars, loopVars
<1>10. CASE \E c \in Unary : UnaryReturn(c)
  BY <1>10 DEF TypeOK, UnaryReturn, unregisterHandler, DropHandlers, Goto,
     Steps, Calls, callVars, chanVars, loopVars
<1>11. CASE \E c \in Streams : StreamRead(c)
  BY <1>11 DEF TypeOK, StreamRead, Take, Calls, callVars, chanVars, loopVars
<1>12. CASE \E c \in Streams : StreamReadClosed(c)
  BY <1>12 DEF TypeOK, StreamReadClosed, FindsClosed, Returns, Goto, Steps,
     Results, Calls, callVars, chanVars, loopVars
<1>13. CASE \E c \in Streams : StreamCtxDone(c)
  BY <1>13 DEF TypeOK, StreamCtxDone, Returns, Goto, Steps, Results, Calls,
     callVars, chanVars, loopVars
<1>14. CASE \E c \in Streams : StreamEnd(c)
  BY <1>14 DEF TypeOK, StreamEnd, Returns, Goto, Steps, Results, Calls,
     callVars, chanVars, loopVars
<1>15. CASE \E c \in Streams : readErrorIfDone(c)
  BY <1>15 DEF TypeOK, readErrorIfDone, Returns, Goto, Steps, Results,
     Calls, callVars, chanVars, loopVars
<1>16. CASE \E c \in Streams : SenderTeardown(c)
  BY <1>16 DEF TypeOK, SenderTeardown, unregisterHandler, DropHandlers,
     Calls, callVars, chanVars, loopVars
<1>17. CASE \E c \in Streams : Teardown(c)
  BY <1>17 DEF TypeOK, Teardown, unregisterHandler, DropHandlers, Goto,
     Steps, Calls, callVars, chanVars, loopVars
<1>18. CASE \E c \in Calls : ReadRpc(c)
  BY <1>18, ReplyShapes DEF TypeOK, ReadRpc, callVars, chanVars, loopVars,
     Rpc
<1>19. CASE LookupHandler
  BY <1>19 DEF TypeOK, LookupHandler, callVars, chanVars, loopVars
<1>20. CASE Deliver
  <2>1. respChan' \in [Calls -> Rpc \cup {NoRpc}]
    BY <1>20, SendType DEF TypeOK, Deliver
  <2>2. panics' \subseteq {"close", "send"}
    BY <1>20 DEF TypeOK, Deliver, SendTo
  <2>3. QED
    BY <1>20, <2>1, <2>2 DEF TypeOK, Deliver, callVars
<1>21. CASE ReadFails
  BY <1>21 DEF TypeOK, ReadFails, callVars, chanVars, loopVars
<1>22. CASE CloseError
  BY <1>22 DEF TypeOK, CloseError, DropHandlers, callVars, chanVars,
     loopVars
<1>23. CASE Close
  BY <1>23 DEF TypeOK, Close, callVars, chanVars, loopVars
<1>24. CASE UNCHANGED vars
  BY <1>24 DEF TypeOK, vars, callVars, chanVars, loopVars
<1>25. QED
  BY <1>1, <1>2, <1>3, <1>4, <1>5, <1>6, <1>7, <1>8, <1>9, <1>10, <1>11,
     <1>12, <1>13, <1>14, <1>15, <1>16, <1>17, <1>18, <1>19, <1>20, <1>21,
     <1>22, <1>23, <1>24
     DEF Next, UnaryProgress, StreamProgress, LoopProgress, ReadCancelled,
         Calls

\* Every variable of the multiplexer keeps its type.
THEOREM TypeCorrect == Spec => []TypeOK
<1>1. Init => TypeOK
  BY DEF Init, TypeOK, Steps, Results
<1>2. QED
  BY <1>1, TypeStep, PTL DEF Spec

-----------------------------------------------------------------------------
\* The registry of channels.

\* Every step keeps handlers, ids and closed channels consistent.
LEMMA RegistryStep == TypeOK /\ Registry /\ [Next]_vars => Registry'
<1> SUFFICES ASSUME TypeOK, Registry, [Next]_vars PROVE Registry'
  OBVIOUS
<1>1. ASSUME NEW c \in Calls, CheckDone(c) PROVE Registry'
  <2>1. IdsOK'
    <3>1. CASE rErr = "nil"
      BY <1>1, <3>1 DEF CheckDone, Goto, IdsOK, Registry, TypeOK
    <3>2. CASE rErr # "nil"
      BY <1>1, <3>2 DEF CheckDone, Returns, Goto, IdsOK, Registry, TypeOK
    <3>3. QED
      BY <3>1, <3>2
  <2>2. HandlersOK'
    BY <1>1 DEF CheckDone, Returns, Goto, callVars, chanVars, loopVars,
       TypeOK, Registry, HandlersOK, IdsOK, StartedOK, HandOK, NoPanic
  <2>3. StartedOK'
    BY <1>1 DEF CheckDone, Returns, Goto, callVars, chanVars, loopVars,
       TypeOK, Registry, StartedOK, IdsOK, HandlersOK, HandOK, NoPanic
  <2>4. HandOK'
    BY <1>1 DEF CheckDone, Returns, Goto, callVars, chanVars, loopVars,
       TypeOK, Registry, HandOK, IdsOK, HandlersOK, StartedOK, NoPanic
  <2>5. NoPanic'
    BY <1>1 DEF CheckDone, Returns, Goto, callVars, chanVars, loopVars,
       TypeOK, Registry, NoPanic, IdsOK, HandlersOK, StartedOK, HandOK
  <2>6. QED
    BY <2>1, <2>2, <2>3, <2>4, <2>5 DEF Registry
<1>2. ASSUME NEW c \in Calls, AllocId(c) PROVE Registry'
  <2>1. IdsOK'
    BY <1>2 DEF AllocId, Goto, callVars, chanVars, loopVars, TypeOK, Registry,
       IdsOK
  <2>2. HandlersOK'
    BY <1>2 DEF AllocId, Goto, callVars, chanVars, loopVars, TypeOK, Registry,
       HandlersOK, IdsOK, StartedOK, HandOK, NoPanic
  <2>3. StartedOK'
    BY <1>2 DEF AllocId, Goto, callVars, chanVars, loopVars, TypeOK, Registry,
       StartedOK, IdsOK, HandlersOK, HandOK, NoPanic
  <2>4. HandOK'
    BY <1>2 DEF AllocId, Goto, callVars, chanVars, loopVars, TypeOK, Registry,
       HandOK, IdsOK, HandlersOK, StartedOK, NoPanic
  <2>5. NoPanic'
    BY <1>2 DEF AllocId, Goto, callVars, chanVars, loopVars, TypeOK, Registry,
       NoPanic, IdsOK, HandlersOK, StartedOK, HandOK
  <2>6. QED
    BY <2>1, <2>2, <2>3, <2>4, <2>5 DEF Registry
<1>3. ASSUME NEW c \in Calls, registerHandler(c) PROVE Registry'
  <2>1. IdsOK'
    BY <1>3 DEF registerHandler, Goto, callVars, chanVars, loopVars, TypeOK,
       Registry, IdsOK
  <2>2. HandlersOK'
    <3>1. callId[c] # 0 /\ c \notin closed
      BY <1>3 DEF registerHandler, Registry, IdsOK, StartedOK
    <3>2. \A d \in Calls : pc'[d] = IF d = c THEN "write" ELSE pc[d]
      BY <1>3 DEF registerHandler, Goto, TypeOK
    <3>3. QED
      BY <1>3, <3>1, <3>2 DEF registerHandler, Registry, HandlersOK, TypeOK
  <2>3. StartedOK'
    BY <1>3 DEF registerHandler, Goto, callVars, chanVars, loopVars, TypeOK,
       Registry, StartedOK, IdsOK, HandlersOK, HandOK, NoPanic
  <2>4. HandOK'
    BY <1>3 DEF registerHandler, Goto, callVars, chanVars, loopVars, TypeOK,
       Registry, HandOK, IdsOK, HandlersOK, StartedOK, NoPanic
  <2>5. NoPanic'
    BY <1>3 DEF registerHandler, Goto, callVars, chanVars, loopVars, TypeOK,
       Registry, NoPanic, IdsOK, HandlersOK, StartedOK, HandOK
  <2>6. QED
    BY <2>1, <2>2, <2>3, <2>4, <2>5 DEF Registry
<1>4. ASSUME NEW c \in Calls, WriteOk(c) PROVE Registry'
  BY <1>4 DEF WriteOk, Goto, callVars, chanVars, loopVars, TypeOK, Registry,
     IdsOK, HandlersOK, StartedOK, HandOK, NoPanic
<1>5. ASSUME NEW c \in Calls, WriteFails(c) PROVE Registry'
  BY <1>5 DEF WriteFails, Returns, Goto, callVars, chanVars, loopVars,
     TypeOK, Registry, IdsOK, HandlersOK, StartedOK, HandOK, NoPanic
<1>6. ASSUME NEW c \in Calls, Cancel(c) PROVE Registry'
  BY <1>6 DEF Cancel, callVars, chanVars, loopVars, TypeOK, Registry, IdsOK,
     HandlersOK, StartedOK, HandOK, NoPanic
<1>7. ASSUME NEW c \in Unary, UnaryReply(c) PROVE Registry'
  BY <1>7 DEF UnaryReply, Take, Returns, Goto, callVars, chanVars, loopVars,
     Calls, TypeOK, Registry, IdsOK, HandlersOK, StartedOK, HandOK, NoPanic
<1>8. ASSUME NEW c \in Unary, UnaryClosed(c) PROVE Registry'
  BY <1>8 DEF UnaryClosed, FindsClosed, Returns, Goto, callVars, chanVars,
     loopVars, Calls, TypeOK, Registry, IdsOK, HandlersOK, StartedOK,
     HandOK, NoPanic
<1>9. ASSUME NEW c \in Unary, UnaryCtxDone(c) PROVE Registry'
  BY <1>9 DEF UnaryCtxDone, Returns, Goto, callVars, chanVars, loopVars,
     Calls, TypeOK, Registry, IdsOK, HandlersOK, StartedOK, HandOK, NoPanic
<1>10. ASSUME NEW c \in Unary, UnaryReturn(c) PROVE Registry'
  <2>1. IdsOK'
    BY <1>10 DEF UnaryReturn, unregisterHandler, DropHandlers, Unlocked, Goto,
       callVars, chanVars, loopVars, Calls, TypeOK, Registry, IdsOK
  <2>2. HandlersOK'
    BY <1>10 DEF UnaryReturn, unregisterHandler, DropHandlers, Unlocked, Goto,
       callVars, chanVars, loopVars, Calls, TypeOK, Registry, HandlersOK,
       IdsOK, StartedOK, HandOK, NoPanic
  <2>3. StartedOK'
    BY <1>10 DEF UnaryReturn, unregisterHandler, DropHandlers, Unlocked, Goto,
       callVars, chanVars, loopVars, Calls, TypeOK, Registry, StartedOK,
       IdsOK, HandlersOK, HandOK, NoPanic
  <2>4. HandOK'
    BY <1>10 DEF UnaryReturn, unregisterHandler, DropHandlers, Unlocked, Goto,
       callVars, chanVars, loopVars, Calls, TypeOK, Registry, HandOK, IdsOK,
       HandlersOK, StartedOK, NoPanic
  <2>5. NoPanic'
    BY <1>10 DEF UnaryReturn, unregisterHandler, DropHandlers, Unlocked, Goto,
       callVars, chanVars, loopVars, Calls, TypeOK, Registry, NoPanic,
       IdsOK, HandlersOK, StartedOK, HandOK
  <2>6. QED
    BY <2>1, <2>2, <2>3, <2>4, <2>5 DEF Registry
<1>11. ASSUME NEW c \in Streams, StreamRead(c) PROVE Registry'
  BY <1>11 DEF StreamRead, Take, callVars, chanVars, loopVars, Calls,
     TypeOK, Registry, IdsOK, HandlersOK, StartedOK, HandOK, NoPanic
<1>12. ASSUME NEW c \in Streams, StreamReadClosed(c) PROVE Registry'
  BY <1>12 DEF StreamReadClosed, FindsClosed, Returns, Goto, callVars,
     chanVars, loopVars, Calls, TypeOK, Registry, IdsOK, HandlersOK,
     StartedOK, HandOK, NoPanic
<1>13. ASSUME NEW c \in Streams, StreamCtxDone(c) PROVE Registry'
  BY <1>13 DEF StreamCtxDone, Returns, Goto, callVars, chanVars, loopVars,
     Calls, TypeOK, Registry, IdsOK, HandlersOK, StartedOK, HandOK, NoPanic
<1>14. ASSUME NEW c \in Streams, StreamEnd(c) PROVE Registry'
  BY <1>14 DEF StreamEnd, Returns, Goto, callVars, chanVars, loopVars,
     Calls, TypeOK, Registry, IdsOK, HandlersOK, StartedOK, HandOK, NoPanic
<1>15. ASSUME NEW c \in Streams, readErrorIfDone(c) PROVE Registry'
  BY <1>15 DEF readErrorIfDone, Returns, Goto, callVars, chanVars, loopVars,
     Calls, TypeOK, Registry, IdsOK, HandlersOK, StartedOK, HandOK, NoPanic
<1>16. ASSUME NEW c \in Streams, SenderTeardown(c) PROVE Registry'
  BY <1>16 DEF SenderTeardown, unregisterHandler, DropHandlers, Unlocked,
     callVars, chanVars, loopVars, Calls, TypeOK, Registry, IdsOK,
     HandlersOK, StartedOK, HandOK, NoPanic
<1>17. ASSUME NEW c \in Streams, Teardown(c) PROVE Registry'
  BY <1>17 DEF Teardown, unregisterHandler, DropHandlers, Unlocked, Goto,
     callVars, chanVars, loopVars, Calls, TypeOK, Registry, IdsOK,
     HandlersOK, StartedOK, HandOK, NoPanic
<1>18. ASSUME NEW c \in Calls, ReadRpc(c) PROVE Registry'
  <2>1. IdsOK'
    BY <1>18 DEF ReadRpc, callVars, chanVars, loopVars, TypeOK, Registry, IdsOK
  <2>2. HandlersOK'
    BY <1>18 DEF ReadRpc, callVars, chanVars, loopVars, TypeOK, Registry,
       HandlersOK, IdsOK, StartedOK, HandOK, NoPanic
  <2>3. StartedOK'
    BY <1>18 DEF ReadRpc, callVars, chanVars, loopVars, TypeOK, Registry,
       StartedOK, IdsOK, HandlersOK, HandOK, NoPanic
  <2>4. HandOK'
    <3>1. hand' \in Rpc
      BY <1>18, ReplyShapes DEF ReadRpc, Rpc, TypeOK
    <3>2. /\ hand'.id = callId[c] /\ hand'.call = c
          /\ hand'.n = sent'[c] /\ hand'.n # 0
      BY <1>18 DEF ReadRpc, TypeOK
    <3>3. hand' # NoRpc
      BY <3>2 DEF NoRpc
    <3>4. QED
      BY <3>3, <1>18, <3>1, <3>2 DEF ReadRpc, HandOK, callVars
  <2>5. NoPanic'
    BY <1>18 DEF ReadRpc, callVars, chanVars, loopVars, TypeOK, Registry,
       NoPanic, IdsOK, HandlersOK, StartedOK, HandOK
  <2>6. QED
    BY <2>1, <2>2, <2>3, <2>4, <2>5 DEF Registry
<1>19. ASSUME LookupHandler PROVE Registry'
  BY <1>19 DEF LookupHandler, callVars, chanVars, loopVars, TypeOK,
     Registry, IdsOK, HandlersOK, StartedOK, HandOK, NoPanic
<1>20. ASSUME Deliver PROVE Registry'
  <2>1. IdsOK'
    BY <1>20 DEF Deliver, SendTo, callVars, chanVars, loopVars, TypeOK,
       Registry, IdsOK
  <2>2. HandlersOK'
    BY <1>20 DEF Deliver, SendTo, callVars, chanVars, loopVars, TypeOK,
       Registry, HandlersOK, IdsOK, StartedOK, HandOK, NoPanic
  <2>3. StartedOK'
    BY <1>20 DEF Deliver, SendTo, callVars, chanVars, loopVars, TypeOK,
       Registry, StartedOK, IdsOK, HandlersOK, HandOK, NoPanic
  <2>4. HandOK'
    BY <1>20 DEF Deliver, SendTo, callVars, chanVars, loopVars, TypeOK,
       Registry, HandOK, IdsOK, HandlersOK, StartedOK, NoPanic
  <2>5. NoPanic'
    BY <1>20 DEF Deliver, SendTo, callVars, chanVars, loopVars, TypeOK,
       Registry, NoPanic, IdsOK, HandlersOK, StartedOK, HandOK
  <2>6. QED
    BY <2>1, <2>2, <2>3, <2>4, <2>5 DEF Registry
<1>21. ASSUME ReadFails PROVE Registry'
  BY <1>21 DEF ReadFails, callVars, chanVars, loopVars, TypeOK, Registry,
     IdsOK, HandlersOK, StartedOK, HandOK, NoPanic
<1>22. ASSUME CloseError PROVE Registry'
  <2>1. IdsOK'
    BY <1>22 DEF CloseError, DropHandlers, callVars, chanVars, loopVars,
       TypeOK, Registry, IdsOK
  <2>2. HandlersOK'
    BY <1>22 DEF CloseError, DropHandlers, callVars, chanVars, loopVars,
       TypeOK, Registry, HandlersOK, IdsOK, StartedOK, HandOK, NoPanic
  <2>3. StartedOK'
    BY <1>22 DEF CloseError, DropHandlers, callVars, chanVars, loopVars,
       TypeOK, Registry, StartedOK, IdsOK, HandlersOK, HandOK, NoPanic
  <2>4. HandOK'
    BY <1>22 DEF CloseError, DropHandlers, callVars, chanVars, loopVars,
       TypeOK, Registry, HandOK, IdsOK, HandlersOK, StartedOK, NoPanic
  <2>5. NoPanic'
    BY <1>22 DEF CloseError, DropHandlers, callVars, chanVars, loopVars,
       TypeOK, Registry, NoPanic, IdsOK, HandlersOK, StartedOK, HandOK
  <2>6. QED
    BY <2>1, <2>2, <2>3, <2>4, <2>5 DEF Registry
<1>23. ASSUME Close PROVE Registry'
  BY <1>23 DEF Close, callVars, chanVars, loopVars, TypeOK, Registry, IdsOK,
     HandlersOK, StartedOK, HandOK, NoPanic
<1>24. CASE UNCHANGED vars
  BY <1>24 DEF vars, callVars, chanVars, loopVars, Registry, IdsOK,
     HandlersOK, StartedOK, HandOK, NoPanic
<1>25. QED
  BY <1>1, <1>2, <1>3, <1>4, <1>5, <1>6, <1>7, <1>8, <1>9, <1>10, <1>11,
     <1>12, <1>13, <1>14, <1>15, <1>16, <1>17, <1>18, <1>19, <1>20, <1>21,
     <1>22, <1>23, <1>24
     DEF Next, UnaryProgress, StreamProgress, LoopProgress, ReadCancelled,
         Calls

\* The registry is consistent in every reachable state.
LEMMA RegistryInv == Spec => []Registry
<1>1. Init => Registry
  BY DEF Init, Registry, IdsOK, HandlersOK, StartedOK, HandOK, NoPanic
<1>2. QED
  BY <1>1, TypeCorrect, RegistryStep, PTL DEF Spec

\* unregisterHandler, teardown, closeError and handleResponse never close a
\* channel twice and never send on a closed one, for any number of calls.
THEOREM NeverPanics == Spec => []NoPanic
  BY RegistryInv, PTL DEF Registry

\* A unary call that has returned, and a stream that was torn down, has no
\* entry in handlers, for any number of calls.
THEOREM ReturnReleases == Spec => []HandlersReleased
<1>1. TypeOK /\ Registry => HandlersReleased
  BY DEF TypeOK, Registry, HandlersOK, IdsOK, HandlersReleased
<1>2. QED
  BY <1>1, TypeCorrect, RegistryInv, PTL

-----------------------------------------------------------------------------
\* Replies.

\* Every step keeps the replies to a call in order on their way to it.
LEMMA RepliesStep == TypeOK /\ Registry /\ Replies /\ [Next]_vars => Replies'
<1> SUFFICES ASSUME TypeOK, Registry, Replies, [Next]_vars PROVE Replies'
  OBVIOUS
<1>1. ASSUME NEW c \in Calls, CheckDone(c) PROVE Replies'
  BY <1>1 DEF CheckDone, callVars, chanVars, loopVars, Replies, FreshOK,
     SlotOK, NothingLost, InOrder, InChan, InHand
<1>2. ASSUME NEW c \in Calls, AllocId(c) PROVE Replies'
  <2>1. FreshOK'
    BY <1>2 DEF AllocId, Goto, callVars, chanVars, loopVars, TypeOK, Registry,
       Replies, StartedOK, HandOK, FreshOK
  <2>2. SlotOK'
    BY <1>2 DEF AllocId, Goto, callVars, chanVars, loopVars, TypeOK, Registry,
       Replies, HandOK, SlotOK
  <2>3. NothingLost'
    <3>1. /\ callId'[c] \notin DOMAIN handlers'
          /\ \A d \in Calls \ {c} : callId'[d] = callId[d]
      BY <1>2 DEF AllocId, chanVars, TypeOK, Registry, IdsOK, HandlersOK
    <3>2. UNCHANGED <<handlers, sent, recvd, respChan, hand>>
      BY <1>2 DEF AllocId, chanVars, loopVars
    <3>3. QED
      BY <3>1, <3>2 DEF NothingLost, InChan, InHand, Replies
  <2>4. InOrder'
    BY <1>2 DEF AllocId, Goto, callVars, chanVars, loopVars, TypeOK, Registry,
       Replies, SlotOK, InOrder
  <2>5. QED
    BY <2>1, <2>2, <2>3, <2>4 DEF Replies
<1>3. ASSUME NEW c \in Calls, registerHandler(c) PROVE Replies'
  <2>1. FreshOK'
    BY <1>3 DEF registerHandler, Goto, callVars, chanVars, loopVars, TypeOK,
       Registry, Replies, StartedOK, HandOK, FreshOK
  <2>2. SlotOK'
    BY <1>3 DEF registerHandler, Goto, callVars, chanVars, loopVars, TypeOK,
       Registry, Replies, HandOK, SlotOK
  <2>3. NothingLost'
    <3>1. UNCHANGED <<callId, sent, recvd, respChan, hand>>
      BY <1>3 DEF registerHandler, loopVars
    <3>2. /\ sent[c] = 0 /\ recvd[c] = <<>> /\ respChan[c] = NoRpc
          /\ hand # NoRpc => hand.call # c
      BY <1>3 DEF registerHandler, Registry, StartedOK, HandOK, Replies,
                FreshOK
    <3>3. \A d \in Calls \ {c} : callId[d] \in DOMAIN handlers' =>
                                    callId[d] \in DOMAIN handlers
      BY <1>3 DEF registerHandler, Registry, IdsOK, TypeOK
    <3> SUFFICES ASSUME NEW e \in Calls, callId'[e] \in DOMAIN handlers'
                 PROVE  sent'[e] = Len(recvd'[e]) + InChan(e)' + InHand(e)'
      BY DEF NothingLost
    <3>8. CASE e = c
      <4>1. InChan(e)' = 0 /\ InHand(e)' = 0
        BY <3>1, <3>2, <3>8 DEF InChan, InHand
      <4>2. QED
        BY <3>1, <3>2, <3>8, <4>1
    <3>9. CASE e # c
      BY <3>1, <3>3, <3>9 DEF NothingLost, InChan, InHand, Replies
    <3> QED
      BY <3>8, <3>9
  <2>4. InOrder'
    BY <1>3 DEF registerHandler, Goto, callVars, chanVars, loopVars, TypeOK,
       Registry, Replies, SlotOK, InOrder
  <2>5. QED
    BY <2>1, <2>2, <2>3, <2>4 DEF Replies
<1>4. ASSUME NEW c \in Calls, WriteOk(c) PROVE Replies'
  BY <1>4 DEF WriteOk, callVars, chanVars, loopVars, Replies, FreshOK,
     SlotOK, NothingLost, InOrder, InChan, InHand
<1>5. ASSUME NEW c \in Calls, WriteFails(c) PROVE Replies'
  BY <1>5 DEF WriteFails, callVars, chanVars, loopVars, Replies, FreshOK,
     SlotOK, NothingLost, InOrder, InChan, InHand
<1>6. ASSUME NEW c \in Calls, Cancel(c) PROVE Replies'
  BY <1>6 DEF Cancel, callVars, chanVars, loopVars, Replies, FreshOK,
     SlotOK, NothingLost, InOrder, InChan, InHand
<1>7. ASSUME NEW c \in Unary, UnaryReply(c) PROVE Replies'
  <2>1. FreshOK'
    BY <1>7 DEF UnaryReply, Take, Returns, Goto, callVars, chanVars, loopVars,
       Calls, TypeOK, Registry, Replies, StartedOK, HandOK, FreshOK
  <2>2. SlotOK'
    BY <1>7 DEF UnaryReply, Take, Returns, Goto, callVars, chanVars, loopVars,
       Calls, TypeOK, Registry, Replies, HandOK, SlotOK
  <2>3. NothingLost'
    <3>1. /\ Len(recvd'[c]) = Len(recvd[c]) + 1
          /\ respChan'[c] = NoRpc /\ respChan[c] # NoRpc
      BY <1>7 DEF UnaryReply, Take, TypeOK, Calls
    <3>2. /\ \A d \in Calls \ {c} :
                 recvd'[d] = recvd[d] /\ respChan'[d] = respChan[d]
          /\ UNCHANGED <<callId, handlers, sent, hand>>
      BY <1>7 DEF UnaryReply, Take, TypeOK, loopVars
    <3> SUFFICES ASSUME NEW e \in Calls, callId'[e] \in DOMAIN handlers'
                 PROVE  sent'[e] = Len(recvd'[e]) + InChan(e)' + InHand(e)'
      BY DEF NothingLost
    <3>8. CASE e = c
      <4>1. InChan(e) = 1 /\ InChan(e)' = 0 /\ InHand(e)' = InHand(e)
        BY <3>1, <3>2, <3>8 DEF InChan, InHand
      <4>2. InHand(e) \in Nat
        BY DEF InHand
      <4>3. sent[e] = Len(recvd[e]) + InChan(e) + InHand(e)
        BY <3>2 DEF NothingLost, Replies
      <4>4. QED
        BY <3>1, <3>2, <3>8, <4>1, <4>2, <4>3 DEF TypeOK
    <3>9. CASE e # c
      BY <3>2, <3>9 DEF NothingLost, InChan, InHand, Replies, TypeOK
    <3> QED
      BY <3>8, <3>9
  <2>4. InOrder'
    BY <1>7 DEF UnaryReply, Take, Returns, Goto, callVars, chanVars, loopVars,
       Calls, TypeOK, Registry, Replies, SlotOK, InOrder
  <2>5. QED
    BY <2>1, <2>2, <2>3, <2>4 DEF Replies
<1>8. ASSUME NEW c \in Unary, UnaryClosed(c) PROVE Replies'
  BY <1>8 DEF UnaryClosed, callVars, chanVars, loopVars, Replies, FreshOK,
     SlotOK, NothingLost, InOrder, InChan, InHand
<1>9. ASSUME NEW c \in Unary, UnaryCtxDone(c) PROVE Replies'
  BY <1>9 DEF UnaryCtxDone, callVars, chanVars, loopVars, Replies, FreshOK,
     SlotOK, NothingLost, InOrder, InChan, InHand
<1>10. ASSUME NEW c \in Unary, UnaryReturn(c) PROVE Replies'
  BY <1>10 DEF UnaryReturn, unregisterHandler, DropHandlers, callVars,
     chanVars, loopVars, Replies, FreshOK, SlotOK, NothingLost, InOrder,
     InChan, InHand
<1>11. ASSUME NEW c \in Streams, StreamRead(c) PROVE Replies'
  <2>1. FreshOK'
    BY <1>11 DEF StreamRead, Take, callVars, chanVars, loopVars, Calls, TypeOK,
       Registry, Replies, StartedOK, HandOK, FreshOK
  <2>2. SlotOK'
    BY <1>11 DEF StreamRead, Take, callVars, chanVars, loopVars, Calls, TypeOK,
       Registry, Replies, HandOK, SlotOK
  <2>3. NothingLost'
    <3>1. /\ Len(recvd'[c]) = Len(recvd[c]) + 1
          /\ respChan'[c] = NoRpc /\ respChan[c] # NoRpc
      BY <1>11 DEF StreamRead, Take, TypeOK, Calls
    <3>2. /\ \A d \in Calls \ {c} :
                 recvd'[d] = recvd[d] /\ respChan'[d] = respChan[d]
          /\ UNCHANGED <<callId, handlers, sent, hand>>
      BY <1>11 DEF StreamRead, Take, TypeOK, loopVars
    <3> SUFFICES ASSUME NEW e \in Calls, callId'[e] \in DOMAIN handlers'
                 PROVE  sent'[e] = Len(recvd'[e]) + InChan(e)' + InHand(e)'
      BY DEF NothingLost
    <3>8. CASE e = c
      <4>1. InChan(e) = 1 /\ InChan(e)' = 0 /\ InHand(e)' = InHand(e)
        BY <3>1, <3>2, <3>8 DEF InChan, InHand
      <4>2. InHand(e) \in Nat
        BY DEF InHand
      <4>3. sent[e] = Len(recvd[e]) + InChan(e) + InHand(e)
        BY <3>2 DEF NothingLost, Replies
      <4>4. QED
        BY <3>1, <3>2, <3>8, <4>1, <4>2, <4>3 DEF TypeOK
    <3>9. CASE e # c
      BY <3>2, <3>9 DEF NothingLost, InChan, InHand, Replies, TypeOK
    <3> QED
      BY <3>8, <3>9
  <2>4. InOrder'
    BY <1>11 DEF StreamRead, Take, callVars, chanVars, loopVars, Calls, TypeOK,
       Registry, Replies, SlotOK, InOrder
  <2>5. QED
    BY <2>1, <2>2, <2>3, <2>4 DEF Replies
<1>12. ASSUME NEW c \in Streams, StreamReadClosed(c) PROVE Replies'
  BY <1>12 DEF StreamReadClosed, callVars, chanVars, loopVars, Replies,
     FreshOK, SlotOK, NothingLost, InOrder, InChan, InHand
<1>13. ASSUME NEW c \in Streams, StreamCtxDone(c) PROVE Replies'
  BY <1>13 DEF StreamCtxDone, callVars, chanVars, loopVars, Replies,
     FreshOK, SlotOK, NothingLost, InOrder, InChan, InHand
<1>14. ASSUME NEW c \in Streams, StreamEnd(c) PROVE Replies'
  BY <1>14 DEF StreamEnd, callVars, chanVars, loopVars, Replies, FreshOK,
     SlotOK, NothingLost, InOrder, InChan, InHand
<1>15. ASSUME NEW c \in Streams, readErrorIfDone(c) PROVE Replies'
  BY <1>15 DEF readErrorIfDone, callVars, chanVars, loopVars, Replies,
     FreshOK, SlotOK, NothingLost, InOrder, InChan, InHand
<1>16. ASSUME NEW c \in Streams, SenderTeardown(c) PROVE Replies'
  BY <1>16 DEF SenderTeardown, unregisterHandler, DropHandlers, callVars,
     chanVars, loopVars, Replies, FreshOK, SlotOK, NothingLost, InOrder,
     InChan, InHand
<1>17. ASSUME NEW c \in Streams, Teardown(c) PROVE Replies'
  BY <1>17 DEF Teardown, unregisterHandler, DropHandlers, callVars,
     chanVars, loopVars, Replies, FreshOK, SlotOK, NothingLost, InOrder,
     InChan, InHand
<1>18. ASSUME NEW c \in Calls, ReadRpc(c) PROVE Replies'
  <2>1. FreshOK'
    BY <1>18 DEF ReadRpc, callVars, chanVars, loopVars, TypeOK, Registry,
       Replies, StartedOK, HandOK, FreshOK
  <2>2. SlotOK'
    BY <1>18 DEF ReadRpc, callVars, chanVars, loopVars, TypeOK, Registry,
       Replies, HandOK, SlotOK
  <2>3. NothingLost'
    <3>1. /\ hand = NoRpc
          /\ hand'.call = c /\ hand'.n = sent[c] + 1
          /\ sent'[c] = sent[c] + 1
          /\ \A d \in Calls \ {c} : sent'[d] = sent[d]
          /\ UNCHANGED <<callId, handlers, recvd, respChan>>
      BY <1>18 DEF ReadRpc, Registry, HandOK, TypeOK, callVars, chanVars
    <3>2. hand' # NoRpc
      BY <3>1 DEF NoRpc, TypeOK
    <3> SUFFICES ASSUME NEW e \in Calls, callId'[e] \in DOMAIN handlers'
                 PROVE  sent'[e] = Len(recvd'[e]) + InChan(e)' + InHand(e)'
      BY DEF NothingLost
    <3>8. CASE e = c
      <4>1. InChan(e)' = InChan(e) /\ InHand(e) = 0 /\ InHand(e)' = 1
        BY <3>1, <3>2, <3>8 DEF InChan, InHand
      <4>2. InChan(e) \in Nat
        BY DEF InChan
      <4>3. sent[e] = Len(recvd[e]) + InChan(e) + InHand(e)
        BY <3>1 DEF NothingLost, Replies
      <4>4. QED
        BY <3>1, <3>8, <4>1, <4>2, <4>3 DEF TypeOK
    <3>9. CASE e # c
      BY <3>1, <3>9 DEF NothingLost, InChan, InHand, Replies, TypeOK
    <3> QED
      BY <3>8, <3>9
  <2>4. InOrder'
    BY <1>18 DEF ReadRpc, callVars, chanVars, loopVars, TypeOK, Registry,
       Replies, SlotOK, InOrder
  <2>5. QED
    BY <2>1, <2>2, <2>3, <2>4 DEF Replies
<1>19. ASSUME LookupHandler PROVE Replies'
  <2>1. FreshOK'
    BY <1>19 DEF LookupHandler, callVars, chanVars, loopVars, TypeOK, Registry,
       Replies, StartedOK, HandOK, FreshOK
  <2>2. SlotOK'
    BY <1>19 DEF LookupHandler, callVars, chanVars, loopVars, TypeOK, Registry,
       Replies, HandOK, SlotOK
  <2>3. NothingLost'
    <3>1. UNCHANGED <<callId, handlers, sent, recvd, respChan>>
      BY <1>19 DEF LookupHandler, callVars, chanVars
    <3>2. CASE hand' = hand
      BY <3>1, <3>2 DEF NothingLost, InChan, InHand, Replies
    <3>3. CASE hand.id \notin DOMAIN handlers /\ hand' = NoRpc
      <4>1. \A d \in Calls : callId[d] \in DOMAIN handlers =>
                                hand = NoRpc \/ hand.call # d
        BY <3>3 DEF Registry, HandOK
      <4>2. QED
        BY <3>1, <3>3, <4>1 DEF NothingLost, InChan, InHand, Replies
    <3>4. QED
      BY <1>19, <3>2, <3>3 DEF LookupHandler
  <2>4. InOrder'
    BY <1>19 DEF LookupHandler, callVars, chanVars, loopVars, TypeOK, Registry,
       Replies, SlotOK, InOrder
  <2>5. QED
    BY <2>1, <2>2, <2>3, <2>4 DEF Replies
<1>20. ASSUME Deliver PROVE Replies'
  <2> DEFINE d == hand.call
  <2>1. hand # NoRpc /\ d \in Calls
    BY <1>20 DEF Deliver, Registry, HandOK, Rpc
  <2>2. /\ hand.n = sent[d] /\ callId[d] \in DOMAIN handlers
        /\ handlers[hand.id] = d /\ d \notin closed
    BY <1>20, <2>1 DEF Deliver, Registry, IdsOK, HandlersOK, HandOK, TypeOK
  <2>3. /\ respChan[d] = NoRpc
        /\ respChan' = [respChan EXCEPT ![d] = hand]
        /\ hand' = NoRpc
        /\ UNCHANGED <<callId, handlers, sent, recvd, written>>
    BY <1>20, <2>2 DEF Deliver, SendTo, callVars
  <2>4. sent[d] = Len(recvd[d]) + 1
    <3>1. InChan(d) = 0 /\ InHand(d) = 1
      BY <2>1, <2>3 DEF InChan, InHand
    <3>2. QED
      BY <2>1, <2>2, <3>1 DEF Replies, NothingLost, TypeOK
  <2>5. FreshOK'
    BY <2>1, <2>3, <1>20 DEF Replies, FreshOK, Registry, HandOK, Deliver, TypeOK
  <2>6. SlotOK'
    BY <2>1, <2>2, <2>3, <2>4 DEF Replies, SlotOK, TypeOK
  <2>7. NothingLost'
    <3> SUFFICES ASSUME NEW e \in Calls, callId'[e] \in DOMAIN handlers'
                 PROVE  sent'[e] = Len(recvd'[e]) + InChan(e)' + InHand(e)'
      BY DEF NothingLost
    <3>1. InHand(e)' = 0
      BY <2>3 DEF InHand
    <3>2. CASE e = d
      <4>1. InChan(e)' = 1
        BY <2>1, <2>3, <3>2 DEF InChan, TypeOK
      <4>2. QED
        BY <2>3, <2>4, <3>1, <3>2, <4>1 DEF TypeOK
    <3>3. CASE e # d
      <4>1. InChan(e)' = InChan(e) /\ InHand(e) = 0
        BY <2>3, <3>3 DEF InChan, InHand, TypeOK
      <4>2. QED
        BY <2>3, <3>1, <4>1 DEF Replies, NothingLost
    <3>4. QED
      BY <3>2, <3>3
  <2>8. InOrder'
    BY <2>3 DEF Replies, InOrder
  <2>9. QED
    BY <2>5, <2>6, <2>7, <2>8 DEF Replies
<1>21. ASSUME ReadFails PROVE Replies'
  BY <1>21 DEF ReadFails, callVars, chanVars, loopVars, Replies, FreshOK,
     SlotOK, NothingLost, InOrder, InChan, InHand
<1>22. ASSUME CloseError PROVE Replies'
  BY <1>22 DEF CloseError, DropHandlers, callVars, chanVars, loopVars,
     Replies, FreshOK, SlotOK, NothingLost, InOrder, InChan, InHand
<1>23. ASSUME Close PROVE Replies'
  BY <1>23 DEF Close, callVars, chanVars, loopVars, Replies, FreshOK,
     SlotOK, NothingLost, InOrder, InChan, InHand
<1>24. CASE UNCHANGED vars
  BY <1>24 DEF vars, callVars, chanVars, loopVars, Replies, InChan, InHand,
     FreshOK, SlotOK, NothingLost, InOrder
<1>25. QED
  BY <1>1, <1>2, <1>3, <1>4, <1>5, <1>6, <1>7, <1>8, <1>9, <1>10, <1>11,
     <1>12, <1>13, <1>14, <1>15, <1>16, <1>17, <1>18, <1>19, <1>20, <1>21,
     <1>22, <1>23, <1>24
     DEF Next, UnaryProgress, StreamProgress, LoopProgress, ReadCancelled,
         Calls

\* Replies are in order in every reachable state.
LEMMA RepliesInv == Spec => []Replies
<1>1. Init => Replies
  BY DEF Init, Replies, FreshOK, SlotOK, NothingLost, InOrder
<1>2. QED
  BY <1>1, TypeCorrect, RegistryInv, RepliesStep, PTL DEF Spec

\* Every call takes the replies to its own request, in order and without
\* gaps, for any number of calls sharing the connection.
THEOREM RepliesInOrder == Spec => []InOrder
  BY RepliesInv, PTL DEF Replies

\* No reply to a registered call is ever dropped, for any number of calls.
THEOREM RepliesNotLost == Spec => []NothingLost
  BY RepliesInv, PTL DEF Replies

-----------------------------------------------------------------------------
\* Closed channels.

\* Every step keeps a waiting call's channel open until the connection fails.
LEMMA ClosedStep == TypeOK /\ Registry /\ ClosedOK /\ [Next]_vars => ClosedOK'
<1> SUFFICES ASSUME TypeOK, Registry, ClosedOK, [Next]_vars PROVE ClosedOK'
  OBVIOUS
<1>1. ASSUME NEW c \in Calls, CheckDone(c) PROVE ClosedOK'
  BY <1>1 DEF CheckDone, Returns, Goto, callVars, chanVars, loopVars,
     TypeOK, ClosedOK, ClosedMeansFailed
<1>2. ASSUME NEW c \in Calls, AllocId(c) PROVE ClosedOK'
  BY <1>2 DEF AllocId, Goto, callVars, chanVars, loopVars, TypeOK, ClosedOK,
     ClosedMeansFailed
<1>3. ASSUME NEW c \in Calls, registerHandler(c) PROVE ClosedOK'
  BY <1>3 DEF registerHandler, Goto, callVars, chanVars, loopVars, TypeOK,
     ClosedOK, ClosedMeansFailed
<1>4. ASSUME NEW c \in Calls, WriteOk(c) PROVE ClosedOK'
  BY <1>4 DEF WriteOk, Goto, callVars, chanVars, loopVars, TypeOK, ClosedOK,
     ClosedMeansFailed
<1>5. ASSUME NEW c \in Calls, WriteFails(c) PROVE ClosedOK'
  BY <1>5 DEF WriteFails, Returns, Goto, callVars, chanVars, loopVars,
     TypeOK, ClosedOK, ClosedMeansFailed
<1>6. ASSUME NEW c \in Calls, Cancel(c) PROVE ClosedOK'
  BY <1>6 DEF Cancel, callVars, chanVars, loopVars, TypeOK, ClosedOK,
     ClosedMeansFailed
<1>7. ASSUME NEW c \in Unary, UnaryReply(c) PROVE ClosedOK'
  BY <1>7 DEF UnaryReply, Take, Returns, Goto, Outcome, callVars, chanVars,
     loopVars, Calls, TypeOK, ClosedOK, ClosedMeansFailed
<1>8. ASSUME NEW c \in Unary, UnaryClosed(c) PROVE ClosedOK'
  BY <1>8 DEF UnaryClosed, FindsClosed, Returns, Goto, callVars, chanVars,
     loopVars, Calls, TypeOK, ClosedOK, ClosedMeansFailed
<1>9. ASSUME NEW c \in Unary, UnaryCtxDone(c) PROVE ClosedOK'
  BY <1>9 DEF UnaryCtxDone, Returns, Goto, callVars, chanVars, loopVars,
     Calls, TypeOK, ClosedOK, ClosedMeansFailed
<1>10. ASSUME NEW c \in Unary, UnaryReturn(c) PROVE ClosedOK'
  BY <1>10 DEF UnaryReturn, unregisterHandler, DropHandlers, Goto, callVars,
     chanVars, loopVars, Calls, Registry, HandlersOK, IdsOK, TypeOK,
     ClosedOK, ClosedMeansFailed
<1>11. ASSUME NEW c \in Streams, StreamRead(c) PROVE ClosedOK'
  BY <1>11, DisjointCalls DEF StreamRead, Take, callVars, chanVars,
     loopVars, Calls, TypeOK, ClosedOK, ClosedMeansFailed
<1>12. ASSUME NEW c \in Streams, StreamReadClosed(c) PROVE ClosedOK'
  BY <1>12, DisjointCalls DEF StreamReadClosed, FindsClosed, Returns, Goto,
     callVars, chanVars, loopVars, Calls, TypeOK, ClosedOK,
     ClosedMeansFailed
<1>13. ASSUME NEW c \in Streams, StreamCtxDone(c) PROVE ClosedOK'
  BY <1>13, DisjointCalls DEF StreamCtxDone, Returns, Goto, callVars,
     chanVars, loopVars, Calls, TypeOK, ClosedOK, ClosedMeansFailed
<1>14. ASSUME NEW c \in Streams, StreamEnd(c) PROVE ClosedOK'
  BY <1>14, DisjointCalls DEF StreamEnd, Returns, Goto, callVars, chanVars,
     loopVars, Calls, TypeOK, ClosedOK, ClosedMeansFailed
<1>15. ASSUME NEW c \in Streams, readErrorIfDone(c) PROVE ClosedOK'
  BY <1>15, DisjointCalls DEF readErrorIfDone, Returns, Goto, callVars,
     chanVars, loopVars, Calls, TypeOK, ClosedOK, ClosedMeansFailed
<1>16. ASSUME NEW c \in Streams, SenderTeardown(c) PROVE ClosedOK'
  <2>1. closed' \subseteq closed \cup {c}
    <3>1. callId[c] \in DOMAIN handlers => handlers[callId[c]] = c
      BY DEF Registry, HandlersOK, IdsOK, TypeOK, Calls
    <3>2. QED
      BY <1>16, <3>1 DEF SenderTeardown, unregisterHandler, DropHandlers
  <2>2. UNCHANGED <<pc, result, rErr>>
    BY <1>16 DEF SenderTeardown, callVars, loopVars
  <2>3. QED
    BY <2>1, <2>2, DisjointCalls DEF ClosedOK, ClosedMeansFailed
<1>17. ASSUME NEW c \in Streams, Teardown(c) PROVE ClosedOK'
  BY <1>17, DisjointCalls DEF Teardown, unregisterHandler, DropHandlers,
     Goto, callVars, chanVars, loopVars, Calls, Registry, HandlersOK, IdsOK,
     TypeOK, ClosedOK, ClosedMeansFailed
<1>18. ASSUME NEW c \in Calls, ReadRpc(c) PROVE ClosedOK'
  BY <1>18 DEF ReadRpc, callVars, chanVars, loopVars, TypeOK, ClosedOK,
     ClosedMeansFailed
<1>19. ASSUME LookupHandler PROVE ClosedOK'
  BY <1>19 DEF LookupHandler, callVars, chanVars, loopVars, TypeOK,
     ClosedOK, ClosedMeansFailed
<1>20. ASSUME Deliver PROVE ClosedOK'
  BY <1>20 DEF Deliver, SendTo, callVars, chanVars, loopVars, TypeOK,
     ClosedOK, ClosedMeansFailed
<1>21. ASSUME ReadFails PROVE ClosedOK'
  BY <1>21 DEF ReadFails, callVars, chanVars, loopVars, TypeOK, ClosedOK,
     ClosedMeansFailed
<1>22. ASSUME CloseError PROVE ClosedOK'
  BY <1>22 DEF CloseError, DropHandlers, callVars, chanVars, loopVars,
     Calls, Registry, HandlersOK, IdsOK, TypeOK, ClosedOK, ClosedMeansFailed
<1>23. ASSUME Close PROVE ClosedOK'
  BY <1>23 DEF Close, callVars, chanVars, loopVars, TypeOK, ClosedOK,
     ClosedMeansFailed
<1>24. CASE UNCHANGED vars
  BY <1>24 DEF vars, callVars, chanVars, loopVars, ClosedOK,
     ClosedMeansFailed
<1>25. QED
  BY <1>1, <1>2, <1>3, <1>4, <1>5, <1>6, <1>7, <1>8, <1>9, <1>10, <1>11,
     <1>12, <1>13, <1>14, <1>15, <1>16, <1>17, <1>18, <1>19, <1>20, <1>21,
     <1>22, <1>23, <1>24
     DEF Next, UnaryProgress, StreamProgress, LoopProgress, ReadCancelled,
         Calls

\* A unary caller is told "respChan closed" only when the connection failed,
\* whatever other calls return or are torn down.
THEOREM ClosedOnlyOnFailure == Spec => []ClosedMeansFailed
<1>1. Init => ClosedOK
  BY DEF Init, ClosedOK, ClosedMeansFailed, Calls
<1>2. ClosedOK => ClosedMeansFailed
  BY DEF ClosedOK
<1>3. QED
  BY <1>1, <1>2, TypeCorrect, RegistryInv, ClosedStep, PTL DEF Spec
=============================================================================

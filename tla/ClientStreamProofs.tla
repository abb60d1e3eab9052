------------------------- MODULE ClientStreamProofs -------------------------
(***************************************************************************)
(* ClientStream, for any number of bodies and sends: types, RecvMsg's      *)
(* assertion, when the server is reset, and the integrity of the bodies.   *)
(***************************************************************************)
EXTENDS ClientStream, TLAPS

\* rCh is closed and done is published within one holding of the lock.
LockOK ==
    /\ rCh = "closed" <=> loop \in {"rst", "unregister", "cancel", "publish",
                                     "exit"}
    /\ done = "yes" <=> loop = "exit"
    /\ recv = "closed" => rCh = "closed"
    /\ NoAssertion

\* What has ended the context, and what allows a reset.
ResetOK ==
    /\ loop \in {"read", "header", "check", "push", "lock", "rst"} => rst = 0
    /\ loop \in {"read", "header", "check", "push"} => loopTrailer = "nil"
    /\ loop = "rst" => loopTrailer = "nil" /\ ctx = "done"
    /\ ctx = "done" => \/ user = "cancelled" \/ sendErr = "yes"
                       \/ loop \in {"publish", "exit"}
    /\ send \in {"unregister", "cancel"} => sendErr = "yes"
    /\ ResetOnlyIfAbandoned

Reading == loop \in {"read", "header", "check", "push"}
HasBody(r) == r.trailer = "no" /\ r.body # 0
LoopBody == IF loop \in {"header", "check", "push"} /\ HasBody(rpc)
            THEN 1 ELSE 0
SlotBody == IF \E r \in slot : HasBody(r) THEN 1 ELSE 0

\* The last Rpc is the last, and its body is handed to nobody.
LastOK ==
    /\ \A r, q \in slot : r = q
    /\ \A r \in slot : r.trailer = "yes" => ended # "open"
    /\ loop \in {"header", "check"} /\ rpc.trailer = "yes" =>
           slot = {} /\ ended # "open"
    /\ loopTrailer = "set" => ended # "open" /\ Len(got) = sent
    /\ loop = "push" => HasBody(rpc)

\* Every body sent is accounted for while readLoop reads, and they are
\* numbered in the order in which they will be received.
BodiesOK ==
    /\ Reading => sent = Len(got) + LoopBody + SlotBody
    /\ Reading /\ LoopBody = 1 => rpc.body = Len(got) + 1
    /\ Reading => \A r \in slot : HasBody(r) =>
                     r.body = Len(got) + LoopBody + 1
    /\ \A i \in 1..Len(got) : got[i] = i

\* EOF and a status come from the last Rpc.
ErrorsOK ==
    /\ loopErr \in {"EOF", "status"} => loopTrailer = "set"
    /\ rErr \in {"EOF", "status"} => loopTrailer = "set"
    /\ recvErr \in {"EOF", "status"} => loopTrailer = "set"

Integrity == LastOK /\ BodiesOK /\ ErrorsOK

-----------------------------------------------------------------------------
\* Types.

\* Every step of the stream, its server and its caller keeps the types.
LEMMA TypeStep == TypeOK /\ [Next]_vars => TypeOK'
<1> SUFFICES ASSUME TypeOK, [Next]_vars PROVE TypeOK'
  OBVIOUS
<1>1. ASSUME LoopRead PROVE TypeOK'
  BY <1>1 DEF LoopRead, ctxVars, recvVars, sendVars, TypeOK
<1>2. ASSUME LoopReadCtx PROVE TypeOK'
  BY <1>2 DEF LoopReadCtx, LoopReadErr, onReady, ctxVars, netVars, recvVars,
     sendVars, TypeOK, Errors
<1>3. ASSUME LoopReadClosed PROVE TypeOK'
  BY <1>3 DEF LoopReadClosed, LoopReadErr, onReady, ctxVars, netVars,
     recvVars, sendVars, TypeOK, Errors
<1>4. ASSUME LoopHeader PROVE TypeOK'
  BY <1>4 DEF LoopHeader, onReady, ctxVars, netVars, recvVars, sendVars,
     TypeOK
<1>5. ASSUME LoopCheck PROVE TypeOK'
  BY <1>5 DEF LoopCheck, errorIfDone, ctxVars, netVars, recvVars, sendVars,
     TypeOK, Errors
<1>6. ASSUME LoopPushCtx PROVE TypeOK'
  BY <1>6 DEF LoopPushCtx, ctxVars, netVars, recvVars, sendVars, TypeOK,
     Errors
<1>7. ASSUME LoopExit PROVE TypeOK'
  BY <1>7 DEF LoopExit, ctxVars, netVars, recvVars, sendVars, TypeOK
<1>8. ASSUME LoopReset PROVE TypeOK'
  BY <1>8 DEF LoopReset, ctxVars, netVars, recvVars, sendVars, TypeOK
<1>9. ASSUME LoopUnregister PROVE TypeOK'
  BY <1>9 DEF LoopUnregister, ctxVars, recvVars, sendVars, TypeOK
<1>10. ASSUME LoopCancel PROVE TypeOK'
  BY <1>10 DEF LoopCancel, netVars, recvVars, sendVars, TypeOK
<1>11. ASSUME LoopPublish PROVE TypeOK'
  BY <1>11 DEF LoopPublish, ctxVars, netVars, recvVars, sendVars, TypeOK
<1>12. ASSUME RecvCall PROVE TypeOK'
  BY <1>12 DEF RecvCall, RecvReturns, loopVars, ctxVars, netVars, sendVars,
     TypeOK, Errors
<1>13. ASSUME RecvCtx PROVE TypeOK'
  BY <1>13 DEF RecvCtx, RecvReturns, loopVars, ctxVars, netVars, sendVars,
     TypeOK, Errors
<1>14. ASSUME RecvBody PROVE TypeOK'
  BY <1>14 DEF RecvBody, ctxVars, netVars, sendVars, TypeOK, Rpc, Errors
<1>15. ASSUME RecvFindsClosed PROVE TypeOK'
  BY <1>15 DEF RecvFindsClosed, loopVars, ctxVars, netVars, sendVars, TypeOK
<1>16. ASSUME RecvAfterClose PROVE TypeOK'
  BY <1>16 DEF RecvAfterClose, RecvReturns, loopVars, ctxVars, netVars,
     sendVars, TypeOK, Errors
<1>17. ASSUME SendCall PROVE TypeOK'
  BY <1>17, StreamBounds, HeaderKinds DEF SendCall, loopVars, ctxVars,
     netVars, recvVars, TypeOK
<1>18. ASSUME SendMarshal PROVE TypeOK'
  BY <1>18 DEF SendMarshal, SendStep, SendFails, loopVars, ctxVars, netVars,
     recvVars, TypeOK
<1>19. ASSUME SendWrite PROVE TypeOK'
  BY <1>19 DEF SendWrite, SendStep, SendFails, loopVars, ctxVars, netVars,
     recvVars, TypeOK
<1>20. ASSUME SendUnregister PROVE TypeOK'
  BY <1>20 DEF SendUnregister, SendStep, loopVars, ctxVars, recvVars, TypeOK
<1>21. ASSUME SendCancel PROVE TypeOK'
  BY <1>21 DEF SendCancel, SendStep, loopVars, netVars, recvVars, TypeOK
<1>22. ASSUME CloseSendCall PROVE TypeOK'
  BY <1>22, StreamBounds, HeaderKinds DEF CloseSendCall, loopVars, ctxVars,
     netVars, recvVars, TypeOK
<1>23. ASSUME CloseSend PROVE TypeOK'
  BY <1>23 DEF CloseSend, SendStep, loopVars, ctxVars, netVars, recvVars,
     TypeOK
<1>24. ASSUME Header PROVE TypeOK'
  BY <1>24 DEF Header, loopVars, ctxVars, netVars, recvVars, sendVars,
     TypeOK
<1>25. ASSUME ServerBody PROVE TypeOK'
  <2>1. PICK h \in Headers :
            ServerSends([NoRpc EXCEPT !.hdr = h, !.body = sent + 1])
    BY <1>25 DEF ServerBody
  <2>2. sent + 1 \in 0..MaxBodies
    BY <1>25, StreamBounds DEF ServerBody, TypeOK
  <2>3. [NoRpc EXCEPT !.hdr = h, !.body = sent + 1] \in Rpc
    BY <2>2, HeaderKinds DEF NoRpc, Rpc, Statuses
  <2>4. slot' \subseteq Rpc /\ sent' \in 0..MaxBodies /\ UNCHANGED ended
    BY <1>25, <2>1, <2>2, <2>3 DEF ServerBody, ServerSends
  <2>5. UNCHANGED <<torn, loopVars, ctxVars, recvVars, sendVars, head>>
    BY <2>1 DEF ServerSends
  <2>6. QED
    BY <2>4, <2>5 DEF loopVars, ctxVars, recvVars, sendVars, TypeOK
<1>26. ASSUME ServerHeader PROVE TypeOK'
  BY <1>26, StreamBounds, HeaderKinds DEF ServerHeader, ServerSends,
     loopVars, ctxVars, recvVars, sendVars, TypeOK, Rpc, NoRpc, Statuses
<1>27. ASSUME ServerLast PROVE TypeOK'
  <2>1. PICK h \in Headers, s \in {"OK", "Err"}, b \in {0, sent + 1} :
            /\ b <= MaxBodies
            /\ ServerSends([hdr |-> h, body |-> b, trailer |-> "yes",
                            status |-> s])
            /\ ended' = s
    BY <1>27 DEF ServerLast
  <2>2. b \in 0..MaxBodies
    BY <2>1, StreamBounds DEF TypeOK
  <2>3. [hdr |-> h, body |-> b, trailer |-> "yes", status |-> s] \in Rpc
    BY <2>2, HeaderKinds DEF Rpc, Statuses
  <2>4. slot' \subseteq Rpc
    BY <2>1, <2>3 DEF ServerSends
  <2>5. ended' \in {"open"} \cup Statuses /\ UNCHANGED sent
    BY <1>27, <2>1 DEF ServerLast, Statuses
  <2>6. UNCHANGED <<torn, loopVars, ctxVars, recvVars, sendVars, head>>
    BY <2>1 DEF ServerSends
  <2>7. QED
    BY <2>4, <2>5, <2>6 DEF loopVars, ctxVars, recvVars, sendVars, TypeOK
<1>28. ASSUME ServerResets PROVE TypeOK'
  BY <1>28, StreamBounds DEF ServerResets, ServerSends, loopVars, ctxVars,
     recvVars, sendVars, TypeOK, Rpc, NoRpc, Statuses
<1>29. ASSUME ConnectionFails PROVE TypeOK'
  BY <1>29 DEF ConnectionFails, loopVars, ctxVars, recvVars, sendVars,
     TypeOK
<1>30. ASSUME UserCancel PROVE TypeOK'
  BY <1>30 DEF UserCancel, loopVars, netVars, recvVars, sendVars, TypeOK
<1>31. CASE UNCHANGED vars
  BY <1>31 DEF vars, loopVars, ctxVars, netVars, recvVars, sendVars, TypeOK
<1>32. QED
  BY <1>1, <1>2, <1>3, <1>4, <1>5, <1>6, <1>7, <1>8, <1>9, <1>10, <1>11,
     <1>12, <1>13, <1>14, <1>15, <1>16, <1>17, <1>18, <1>19, <1>20, <1>21,
     <1>22, <1>23, <1>24, <1>25, <1>26, <1>27, <1>28, <1>29, <1>30, <1>31
     DEF Next, LoopProgress, RecvProgress, SendProgress, Environment

\* Every variable of the stream keeps its type.
THEOREM TypeCorrect == Spec => []TypeOK
<1>1. Init => TypeOK
  BY StreamBounds DEF Init, TypeOK, Rpc, NoRpc, Statuses, Errors
<1>2. QED
  BY <1>1, TypeStep, PTL DEF Spec

-----------------------------------------------------------------------------
\* The protected lock.

\* Every step keeps the order in which readLoop's exit closes rCh and sets done.
LEMMA LockStep == LockOK /\ [Next]_vars => LockOK'
<1> SUFFICES ASSUME LockOK, [Next]_vars PROVE LockOK'
  OBVIOUS
<1>1. ASSUME LoopRead PROVE LockOK'
  BY <1>1 DEF LoopRead, ctxVars, recvVars, sendVars, LockOK, NoAssertion
<1>2. ASSUME LoopReadCtx PROVE LockOK'
  BY <1>2 DEF LoopReadCtx, LoopReadErr, onReady, ctxVars, netVars, recvVars,
     sendVars, LockOK, NoAssertion
<1>3. ASSUME LoopReadClosed PROVE LockOK'
  BY <1>3 DEF LoopReadClosed, LoopReadErr, onReady, ctxVars, netVars,
     recvVars, sendVars, LockOK, NoAssertion
<1>4. ASSUME LoopHeader PROVE LockOK'
  BY <1>4 DEF LoopHeader, onReady, ctxVars, netVars, recvVars, sendVars,
     LockOK, NoAssertion
<1>5. ASSUME LoopCheck PROVE LockOK'
  BY <1>5 DEF LoopCheck, ctxVars, netVars, recvVars, sendVars, LockOK,
     NoAssertion
<1>6. ASSUME LoopPushCtx PROVE LockOK'
  BY <1>6 DEF LoopPushCtx, ctxVars, netVars, recvVars, sendVars, LockOK,
     NoAssertion
<1>7. ASSUME LoopExit PROVE LockOK'
  BY <1>7 DEF LoopExit, MustReset, ctxVars, netVars, recvVars, sendVars,
     LockOK, NoAssertion
<1>8. ASSUME LoopReset PROVE LockOK'
  BY <1>8 DEF LoopReset, ctxVars, netVars, recvVars, sendVars, LockOK,
     NoAssertion
<1>9. ASSUME LoopUnregister PROVE LockOK'
  BY <1>9 DEF LoopUnregister, ctxVars, recvVars, sendVars, LockOK,
     NoAssertion
<1>10. ASSUME LoopCancel PROVE LockOK'
  BY <1>10 DEF LoopCancel, netVars, recvVars, sendVars, LockOK, NoAssertion
<1>11. ASSUME LoopPublish PROVE LockOK'
  BY <1>11 DEF LoopPublish, ctxVars, netVars, recvVars, sendVars, LockOK,
     NoAssertion
<1>12. ASSUME RecvCall PROVE LockOK'
  BY <1>12 DEF RecvCall, RecvReturns, loopVars, ctxVars, netVars, sendVars,
     LockOK, NoAssertion
<1>13. ASSUME RecvCtx PROVE LockOK'
  BY <1>13 DEF RecvCtx, RecvReturns, loopVars, ctxVars, netVars, sendVars,
     LockOK, NoAssertion
<1>14. ASSUME RecvBody PROVE LockOK'
  BY <1>14 DEF RecvBody, ctxVars, netVars, sendVars, LockOK, NoAssertion
<1>15. ASSUME RecvFindsClosed PROVE LockOK'
  BY <1>15 DEF RecvFindsClosed, loopVars, ctxVars, netVars, sendVars,
     LockOK, NoAssertion
<1>16. ASSUME RecvAfterClose PROVE LockOK'
  BY <1>16 DEF RecvAfterClose, RecvReturns, Unlocked, loopVars, ctxVars,
     netVars, sendVars, LockOK, NoAssertion
<1>17. ASSUME SendCall PROVE LockOK'
  BY <1>17 DEF SendCall, loopVars, ctxVars, netVars, recvVars, LockOK,
     NoAssertion
<1>18. ASSUME SendMarshal PROVE LockOK'
  BY <1>18 DEF SendMarshal, SendStep, SendFails, loopVars, ctxVars, netVars,
     recvVars, LockOK, NoAssertion
<1>19. ASSUME SendWrite PROVE LockOK'
  BY <1>19 DEF SendWrite, SendStep, SendFails, loopVars, ctxVars, netVars,
     recvVars, LockOK, NoAssertion
<1>20. ASSUME SendUnregister PROVE LockOK'
  BY <1>20 DEF SendUnregister, SendStep, loopVars, ctxVars, recvVars,
     LockOK, NoAssertion
<1>21. ASSUME SendCancel PROVE LockOK'
  BY <1>21 DEF SendCancel, SendStep, loopVars, netVars, recvVars, LockOK,
     NoAssertion
<1>22. ASSUME CloseSendCall PROVE LockOK'
  BY <1>22 DEF CloseSendCall, loopVars, ctxVars, netVars, recvVars, LockOK,
     NoAssertion
<1>23. ASSUME CloseSend PROVE LockOK'
  BY <1>23 DEF CloseSend, SendStep, loopVars, ctxVars, netVars, recvVars,
     LockOK, NoAssertion
<1>24. ASSUME Header PROVE LockOK'
  BY <1>24 DEF Header, loopVars, ctxVars, netVars, recvVars, sendVars,
     LockOK, NoAssertion
<1>25. ASSUME ServerBody PROVE LockOK'
  BY <1>25 DEF ServerBody, ServerSends, loopVars, ctxVars, recvVars,
     sendVars, LockOK, NoAssertion
<1>26. ASSUME ServerHeader PROVE LockOK'
  BY <1>26 DEF ServerHeader, ServerSends, loopVars, ctxVars, recvVars,
     sendVars, LockOK, NoAssertion
<1>27. ASSUME ServerLast PROVE LockOK'
  BY <1>27 DEF ServerLast, ServerSends, loopVars, ctxVars, recvVars,
     sendVars, LockOK, NoAssertion
<1>28. ASSUME ServerResets PROVE LockOK'
  BY <1>28 DEF ServerResets, ServerSends, loopVars, ctxVars, recvVars,
     sendVars, LockOK, NoAssertion
<1>29. ASSUME ConnectionFails PROVE LockOK'
  BY <1>29 DEF ConnectionFails, loopVars, ctxVars, recvVars, sendVars,
     LockOK, NoAssertion
<1>30. ASSUME UserCancel PROVE LockOK'
  BY <1>30 DEF UserCancel, loopVars, netVars, recvVars, sendVars, LockOK,
     NoAssertion
<1>31. CASE UNCHANGED vars
  BY <1>31 DEF vars, loopVars, ctxVars, netVars, recvVars, sendVars, LockOK,
     NoAssertion
<1>32. QED
  BY <1>1, <1>2, <1>3, <1>4, <1>5, <1>6, <1>7, <1>8, <1>9, <1>10, <1>11,
     <1>12, <1>13, <1>14, <1>15, <1>16, <1>17, <1>18, <1>19, <1>20, <1>21,
     <1>22, <1>23, <1>24, <1>25, <1>26, <1>27, <1>28, <1>29, <1>30, <1>31
     DEF Next, LoopProgress, RecvProgress, SendProgress, Environment

\* RecvMsg's panic, "cs.rCh was closed but cs.done == false!", is unreachable
\* whatever the server, the connection, the sender and the caller do.
THEOREM AssertionHolds == Spec => []NoAssertion
<1>1. Init => LockOK
  BY DEF Init, LockOK, NoAssertion
<1>2. LockOK => NoAssertion
  BY DEF LockOK
<1>3. QED
  BY <1>1, <1>2, LockStep, PTL DEF Spec

-----------------------------------------------------------------------------
\* Resets.

\* Every step keeps what a reset, and a context that is done, stem from.
LEMMA ResetStep == TypeOK /\ ResetOK /\ [Next]_vars => ResetOK'
<1> SUFFICES ASSUME TypeOK, ResetOK, [Next]_vars PROVE ResetOK'
  OBVIOUS
<1>1. ASSUME LoopRead PROVE ResetOK'
  BY <1>1 DEF LoopRead, ctxVars, recvVars, sendVars, ResetOK,
     ResetOnlyIfAbandoned
<1>2. ASSUME LoopReadCtx PROVE ResetOK'
  BY <1>2 DEF LoopReadCtx, LoopReadErr, onReady, ctxVars, netVars, recvVars,
     sendVars, ResetOK, ResetOnlyIfAbandoned
<1>3. ASSUME LoopReadClosed PROVE ResetOK'
  BY <1>3 DEF LoopReadClosed, LoopReadErr, onReady, ctxVars, netVars,
     recvVars, sendVars, ResetOK, ResetOnlyIfAbandoned
<1>4. ASSUME LoopHeader PROVE ResetOK'
  BY <1>4 DEF LoopHeader, onReady, ctxVars, netVars, recvVars, sendVars,
     ResetOK, ResetOnlyIfAbandoned
<1>5. ASSUME LoopCheck PROVE ResetOK'
  BY <1>5 DEF LoopCheck, ctxVars, netVars, recvVars, sendVars, ResetOK,
     ResetOnlyIfAbandoned
<1>6. ASSUME LoopPushCtx PROVE ResetOK'
  BY <1>6 DEF LoopPushCtx, ctxVars, netVars, recvVars, sendVars, ResetOK,
     ResetOnlyIfAbandoned
<1>7. ASSUME LoopExit PROVE ResetOK'
  BY <1>7 DEF LoopExit, MustReset, ctxVars, netVars, recvVars, sendVars,
     ResetOK, ResetOnlyIfAbandoned
<1>8. ASSUME LoopReset PROVE ResetOK'
  BY <1>8 DEF LoopReset, ctxVars, netVars, recvVars, sendVars, ResetOK,
     ResetOnlyIfAbandoned
<1>9. ASSUME LoopUnregister PROVE ResetOK'
  BY <1>9 DEF LoopUnregister, ctxVars, recvVars, sendVars, ResetOK,
     ResetOnlyIfAbandoned
<1>10. ASSUME LoopCancel PROVE ResetOK'
  BY <1>10 DEF LoopCancel, netVars, recvVars, sendVars, ResetOK,
     ResetOnlyIfAbandoned
<1>11. ASSUME LoopPublish PROVE ResetOK'
  BY <1>11 DEF LoopPublish, ctxVars, netVars, recvVars, sendVars, ResetOK,
     ResetOnlyIfAbandoned
<1>12. ASSUME RecvCall PROVE ResetOK'
  BY <1>12 DEF RecvCall, RecvReturns, loopVars, ctxVars, netVars, sendVars,
     ResetOK, ResetOnlyIfAbandoned
<1>13. ASSUME RecvCtx PROVE ResetOK'
  BY <1>13 DEF RecvCtx, RecvReturns, loopVars, ctxVars, netVars, sendVars,
     ResetOK, ResetOnlyIfAbandoned
<1>14. ASSUME RecvBody PROVE ResetOK'
  BY <1>14 DEF RecvBody, ctxVars, netVars, sendVars, ResetOK,
     ResetOnlyIfAbandoned
<1>15. ASSUME RecvFindsClosed PROVE ResetOK'
  BY <1>15 DEF RecvFindsClosed, loopVars, ctxVars, netVars, sendVars,
     ResetOK, ResetOnlyIfAbandoned
<1>16. ASSUME RecvAfterClose PROVE ResetOK'
  BY <1>16 DEF RecvAfterClose, RecvReturns, Unlocked, loopVars, ctxVars,
     netVars, sendVars, ResetOK, ResetOnlyIfAbandoned
<1>17. ASSUME SendCall PROVE ResetOK'
  BY <1>17 DEF SendCall, loopVars, ctxVars, netVars, recvVars, ResetOK,
     ResetOnlyIfAbandoned
<1>18. ASSUME SendMarshal PROVE ResetOK'
  BY <1>18 DEF SendMarshal, SendStep, SendFails, loopVars, ctxVars, netVars,
     recvVars, ResetOK, ResetOnlyIfAbandoned
<1>19. ASSUME SendWrite PROVE ResetOK'
  BY <1>19 DEF SendWrite, SendStep, SendFails, loopVars, ctxVars, netVars,
     recvVars, ResetOK, ResetOnlyIfAbandoned
<1>20. ASSUME SendUnregister PROVE ResetOK'
  BY <1>20 DEF SendUnregister, SendStep, loopVars, ctxVars, recvVars,
     ResetOK, ResetOnlyIfAbandoned
<1>21. ASSUME SendCancel PROVE ResetOK'
  BY <1>21 DEF SendCancel, SendStep, loopVars, netVars, recvVars, ResetOK,
     ResetOnlyIfAbandoned
<1>22. ASSUME CloseSendCall PROVE ResetOK'
  BY <1>22 DEF CloseSendCall, loopVars, ctxVars, netVars, recvVars, ResetOK,
     ResetOnlyIfAbandoned
<1>23. ASSUME CloseSend PROVE ResetOK'
  BY <1>23 DEF CloseSend, SendStep, loopVars, ctxVars, netVars, recvVars,
     ResetOK, ResetOnlyIfAbandoned
<1>24. ASSUME Header PROVE ResetOK'
  BY <1>24 DEF Header, loopVars, ctxVars, netVars, recvVars, sendVars,
     ResetOK, ResetOnlyIfAbandoned
<1>25. ASSUME ServerBody PROVE ResetOK'
  BY <1>25 DEF ServerBody, ServerSends, loopVars, ctxVars, recvVars,
     sendVars, ResetOK, ResetOnlyIfAbandoned
<1>26. ASSUME ServerHeader PROVE ResetOK'
  BY <1>26 DEF ServerHeader, ServerSends, loopVars, ctxVars, recvVars,
     sendVars, ResetOK, ResetOnlyIfAbandoned
<1>27. ASSUME ServerLast PROVE ResetOK'
  BY <1>27 DEF ServerLast, ServerSends, loopVars, ctxVars, recvVars,
     sendVars, ResetOK, ResetOnlyIfAbandoned
<1>28. ASSUME ServerResets PROVE ResetOK'
  BY <1>28 DEF ServerResets, ServerSends, loopVars, ctxVars, recvVars,
     sendVars, ResetOK, ResetOnlyIfAbandoned
<1>29. ASSUME ConnectionFails PROVE ResetOK'
  BY <1>29 DEF ConnectionFails, loopVars, ctxVars, recvVars, sendVars,
     ResetOK, ResetOnlyIfAbandoned
<1>30. ASSUME UserCancel PROVE ResetOK'
  BY <1>30 DEF UserCancel, loopVars, netVars, recvVars, sendVars, ResetOK,
     ResetOnlyIfAbandoned
<1>31. CASE UNCHANGED vars
  BY <1>31 DEF vars, loopVars, ctxVars, netVars, recvVars, sendVars,
     ResetOK, ResetOnlyIfAbandoned
<1>32. QED
  BY <1>1, <1>2, <1>3, <1>4, <1>5, <1>6, <1>7, <1>8, <1>9, <1>10, <1>11,
     <1>12, <1>13, <1>14, <1>15, <1>16, <1>17, <1>18, <1>19, <1>20, <1>21,
     <1>22, <1>23, <1>24, <1>25, <1>26, <1>27, <1>28, <1>29, <1>30, <1>31
     DEF Next, LoopProgress, RecvProgress, SendProgress, Environment

\* The server is reset at most once, never after its last Rpc was seen, and
\* only if the caller cancelled or a send failed.
THEOREM ResetsJustified == Spec => []ResetOnlyIfAbandoned
<1>1. Init => ResetOK
  BY DEF Init, ResetOK, ResetOnlyIfAbandoned
<1>2. ResetOK => ResetOnlyIfAbandoned
  BY DEF ResetOK
<1>3. QED
  BY <1>1, <1>2, TypeCorrect, ResetStep, PTL DEF Spec

-----------------------------------------------------------------------------
\* The bodies.

bodyVars == <<loop, rpc, slot, sent, ended, got, loopTrailer, loopErr, rErr,
              recvErr>>

\* Steps that leave these variables alone keep the account of the bodies.
LEMMA BodyFrame == Integrity /\ UNCHANGED bodyVars => Integrity'
  BY DEF Integrity, LastOK, BodiesOK, ErrorsOK, Reading, LoopBody, SlotBody,
     HasBody, bodyVars

\* The server's last Rpc, with or without a body, adds no body to receive.
LEMMA LastFrame ==
    ASSUME Integrity, NEW r, r.trailer = "yes",
           slot = {}, slot' = {r}, ended = "open", ended' # "open",
           UNCHANGED <<sent, loop, rpc, loopTrailer, loopErr, rErr, got,
                       recvErr>>
    PROVE Integrity'
<1>1. LoopBody' = LoopBody /\ SlotBody = 0 /\ SlotBody' = 0
  BY DEF LoopBody, SlotBody, HasBody
<1>2. LastOK'
  BY DEF Integrity, LastOK, HasBody
<1>3. BodiesOK' /\ ErrorsOK'
  BY <1>1 DEF Integrity, BodiesOK, ErrorsOK, Reading, HasBody
<1>4. QED
  BY <1>2, <1>3 DEF Integrity

\* Every step keeps every body in its place between the server and RecvMsg.
LEMMA BodyStep ==
    TypeOK /\ LockOK /\ ResetOK /\ Integrity /\ [Next]_vars => Integrity'
<1> SUFFICES ASSUME TypeOK, LockOK, ResetOK, Integrity, [Next]_vars
             PROVE Integrity'
  OBVIOUS
<1>0. /\ sent \in Nat /\ Len(got) \in Nat /\ rpc.body \in Nat
      /\ \A r \in slot : r.body \in Nat
  BY StreamBounds DEF TypeOK, Rpc
<1>1. ASSUME LoopRead PROVE Integrity'
  BY <1>1, <1>0 DEF LoopRead, ctxVars, recvVars, sendVars, Integrity,
     LastOK, BodiesOK, ErrorsOK, Reading, LoopBody, SlotBody, HasBody
<1>2. ASSUME LoopReadCtx PROVE Integrity'
  BY <1>2, <1>0 DEF LoopReadCtx, LoopReadErr, onReady, ctxVars, netVars,
     recvVars, sendVars, Integrity, LastOK, BodiesOK, ErrorsOK, Reading,
     LoopBody, SlotBody, HasBody
<1>3. ASSUME LoopReadClosed PROVE Integrity'
  BY <1>3, <1>0 DEF LoopReadClosed, LoopReadErr, onReady, ctxVars, netVars,
     recvVars, sendVars, Integrity, LastOK, BodiesOK, ErrorsOK, Reading,
     LoopBody, SlotBody, HasBody
<1>4. ASSUME LoopHeader PROVE Integrity'
  BY <1>4, <1>0 DEF LoopHeader, onReady, ctxVars, netVars, recvVars,
     sendVars, Integrity, LastOK, BodiesOK, ErrorsOK, Reading, LoopBody,
     SlotBody, HasBody
<1>5. ASSUME LoopCheck PROVE Integrity'
  <2>1. CASE rpc.trailer = "yes"
    <3>1. LoopBody = 0 /\ SlotBody = 0 /\ Reading /\ ended # "open"
      BY <1>5, <2>1 DEF LoopCheck, Integrity, LastOK, LoopBody, SlotBody,
         HasBody, Reading
    <3>2. Len(got) = sent
      BY <1>0, <3>1 DEF Integrity, BodiesOK
    <3>3. /\ loop' = "lock" /\ loopTrailer' = "set"
          /\ UNCHANGED <<rpc, slot, sent, ended, got, rErr, recvErr>>
      BY <1>5, <2>1 DEF LoopCheck, netVars, recvVars
    <3>4. LastOK'
      BY <3>1, <3>2, <3>3 DEF Integrity, LastOK, HasBody
    <3>5. BodiesOK' /\ ErrorsOK'
      BY <3>3 DEF Integrity, BodiesOK, ErrorsOK, Reading, HasBody
    <3>6. QED
      BY <3>4, <3>5 DEF Integrity
  <2>2. CASE rpc.trailer = "no"
    BY <1>5, <1>0, <2>2 DEF LoopCheck, netVars, recvVars, Integrity, LastOK,
       BodiesOK, ErrorsOK, Reading, LoopBody, SlotBody, HasBody
  <2>3. QED
    BY <1>5, <2>1, <2>2 DEF LoopCheck
<1>6. ASSUME LoopPushCtx PROVE Integrity'
  BY <1>6, <1>0 DEF LoopPushCtx, ctxVars, netVars, recvVars, sendVars,
     Integrity, LastOK, BodiesOK, ErrorsOK, Reading, LoopBody, SlotBody, HasBody
<1>7. ASSUME LoopExit PROVE Integrity'
  BY <1>7, <1>0 DEF LoopExit, MustReset, ctxVars, netVars, recvVars,
     sendVars, Integrity, LastOK, BodiesOK, ErrorsOK, Reading, LoopBody,
     SlotBody, HasBody
<1>8. ASSUME LoopReset PROVE Integrity'
  BY <1>8, <1>0 DEF LoopReset, ctxVars, netVars, recvVars, sendVars,
     Integrity, LastOK, BodiesOK, ErrorsOK, Reading, LoopBody, SlotBody, HasBody
<1>9. ASSUME LoopUnregister PROVE Integrity'
  BY <1>9, <1>0 DEF LoopUnregister, ctxVars, recvVars, sendVars, Integrity,
     LastOK, BodiesOK, ErrorsOK, Reading, LoopBody, SlotBody, HasBody
<1>10. ASSUME LoopCancel PROVE Integrity'
  BY <1>10, <1>0 DEF LoopCancel, netVars, recvVars, sendVars, Integrity,
     LastOK, BodiesOK, ErrorsOK, Reading, LoopBody, SlotBody, HasBody
<1>11. ASSUME LoopPublish PROVE Integrity'
  BY <1>11, <1>0 DEF LoopPublish, ctxVars, netVars, recvVars, sendVars,
     Integrity, LastOK, BodiesOK, ErrorsOK, Reading, LoopBody, SlotBody, HasBody
<1>12. ASSUME RecvCall PROVE Integrity'
  BY <1>12, <1>0 DEF RecvCall, RecvReturns, loopVars, ctxVars, netVars,
     sendVars, Integrity, LastOK, BodiesOK, ErrorsOK, Reading, LoopBody,
     SlotBody, HasBody
<1>13. ASSUME RecvCtx PROVE Integrity'
  BY <1>13, <1>0 DEF RecvCtx, RecvReturns, loopVars, ctxVars, netVars,
     sendVars, Integrity, LastOK, BodiesOK, ErrorsOK, Reading, LoopBody,
     SlotBody, HasBody
<1>14. ASSUME RecvBody PROVE Integrity'
  <2>1. /\ loop = "push" /\ loop' = "read" /\ got' = Append(got, rpc.body)
        /\ recvErr' \in {recvErr, "codec"}
        /\ UNCHANGED <<rpc, slot, sent, ended, loopTrailer, loopErr, rErr>>
    BY <1>14 DEF RecvBody, netVars
  <2>2. LoopBody = 1 /\ LoopBody' = 0 /\ SlotBody' = SlotBody
    BY <2>1 DEF Integrity, LastOK, LoopBody, SlotBody
  <2>3. rpc.body = Len(got) + 1 /\ loopTrailer = "nil"
    BY <2>1, <2>2 DEF Integrity, BodiesOK, Reading, ResetOK
  <2>4. /\ Len(got') = Len(got) + 1
        /\ \A i \in 1..Len(got') : got'[i] = i
    BY <1>0, <2>1, <2>3 DEF TypeOK, Integrity, BodiesOK
  <2>5. LastOK'
    BY <2>1, <2>3 DEF Integrity, LastOK, HasBody
  <2>6. SlotBody \in {0, 1}
    BY DEF SlotBody
  <2>7. BodiesOK'
    BY <1>0, <2>1, <2>2, <2>4, <2>6 DEF Integrity, BodiesOK, Reading, HasBody
  <2>8. ErrorsOK'
    BY <2>1 DEF Integrity, ErrorsOK
  <2>9. QED
    BY <2>5, <2>7, <2>8 DEF Integrity
<1>15. ASSUME RecvFindsClosed PROVE Integrity'
  BY <1>15, BodyFrame DEF RecvFindsClosed, loopVars, ctxVars, netVars,
     sendVars, bodyVars
<1>16. ASSUME RecvAfterClose PROVE Integrity'
  BY <1>16, <1>0 DEF RecvAfterClose, RecvReturns, Unlocked, loopVars,
     ctxVars, netVars, sendVars, Integrity, LastOK, BodiesOK, ErrorsOK,
     Reading, LoopBody, SlotBody, HasBody
<1>17. ASSUME SendCall PROVE Integrity'
  BY <1>17, BodyFrame DEF SendCall, loopVars, ctxVars, netVars, recvVars,
     bodyVars
<1>18. ASSUME SendMarshal PROVE Integrity'
  BY <1>18, BodyFrame DEF SendMarshal, SendStep, SendFails, loopVars, ctxVars,
     netVars, recvVars, bodyVars
<1>19. ASSUME SendWrite PROVE Integrity'
  BY <1>19, BodyFrame DEF SendWrite, SendStep, SendFails, loopVars, ctxVars,
     netVars, recvVars, bodyVars
<1>20. ASSUME SendUnregister PROVE Integrity'
  BY <1>20, BodyFrame DEF SendUnregister, SendStep, loopVars, ctxVars,
     recvVars, bodyVars
<1>21. ASSUME SendCancel PROVE Integrity'
  BY <1>21, BodyFrame DEF SendCancel, SendStep, loopVars, netVars, recvVars,
     bodyVars
<1>22. ASSUME CloseSendCall PROVE Integrity'
  BY <1>22, BodyFrame DEF CloseSendCall, loopVars, ctxVars, netVars, recvVars,
     bodyVars
<1>23. ASSUME CloseSend PROVE Integrity'
  BY <1>23, BodyFrame DEF CloseSend, SendStep, loopVars, ctxVars, netVars,
     recvVars, bodyVars
<1>24. ASSUME Header PROVE Integrity'
  BY <1>24, BodyFrame DEF Header, loopVars, ctxVars, netVars, recvVars,
     sendVars, bodyVars
<1>25. ASSUME ServerBody PROVE Integrity'
  <2>1. PICK h \in Headers :
            ServerSends([NoRpc EXCEPT !.hdr = h, !.body = sent + 1])
    BY <1>25 DEF ServerBody
  <2> DEFINE r == [NoRpc EXCEPT !.hdr = h, !.body = sent + 1]
  <2>2. /\ slot = {} /\ slot' = {r} /\ sent' = sent + 1
        /\ ended = "open" /\ ended' = "open"
        /\ UNCHANGED <<loop, rpc, loopTrailer, loopErr, rErr, got, recvErr>>
    BY <1>25, <2>1 DEF ServerBody, ServerSends, loopVars, recvVars
  <2>3. r.body = sent + 1 /\ r.trailer = "no"
    BY DEF NoRpc
  <2> HIDE DEF r
  <2>4. LoopBody' = LoopBody /\ SlotBody = 0 /\ SlotBody' = 1
    BY <1>0, <2>2, <2>3 DEF LoopBody, SlotBody, HasBody
  <2>5. LastOK'
    BY <2>2, <2>3 DEF Integrity, LastOK, HasBody
  <2>6. LoopBody \in {0, 1}
    BY DEF LoopBody
  <2>7. BodiesOK'
    BY <1>0, <2>2, <2>3, <2>4, <2>6 DEF Integrity, BodiesOK, Reading, HasBody
  <2>8. ErrorsOK'
    BY <2>2 DEF Integrity, ErrorsOK
  <2>9. QED
    BY <2>5, <2>7, <2>8 DEF Integrity
<1>26. ASSUME ServerHeader PROVE Integrity'
  <2>1. PICK h \in Headers : ServerSends([NoRpc EXCEPT !.hdr = h])
    BY <1>26 DEF ServerHeader
  <2> DEFINE r == [NoRpc EXCEPT !.hdr = h]
  <2>2. /\ slot = {} /\ slot' = {r} /\ ended = "open"
        /\ UNCHANGED <<sent, ended, loop, rpc, loopTrailer, loopErr, rErr, got,
                       recvErr>>
    BY <1>26, <2>1 DEF ServerHeader, ServerSends, loopVars, recvVars
  <2>3. r.body = 0 /\ r.trailer = "no"
    BY DEF NoRpc
  <2> HIDE DEF r
  <2>4. LoopBody' = LoopBody /\ SlotBody = 0 /\ SlotBody' = 0
    BY <2>2, <2>3 DEF LoopBody, SlotBody, HasBody
  <2>5. LastOK'
    BY <2>2, <2>3 DEF Integrity, LastOK, HasBody
  <2>6. BodiesOK' /\ ErrorsOK'
    BY <2>2, <2>3, <2>4 DEF Integrity, BodiesOK, ErrorsOK, Reading, HasBody
  <2>7. QED
    BY <2>5, <2>6 DEF Integrity
<1>27. ASSUME ServerLast PROVE Integrity'
  <2>1. PICK h \in Headers, s \in {"OK", "Err"}, b \in {0, sent + 1} :
            /\ b <= MaxBodies
            /\ ServerSends([hdr |-> h, body |-> b, trailer |-> "yes",
                            status |-> s])
            /\ ended' = s
    BY <1>27 DEF ServerLast
  <2> DEFINE r == [hdr |-> h, body |-> b, trailer |-> "yes", status |-> s]
  <2>2. /\ slot = {} /\ slot' = {r} /\ ended = "open" /\ ended' # "open"
        /\ UNCHANGED <<sent, loop, rpc, loopTrailer, loopErr, rErr, got,
                       recvErr>>
    BY <1>27, <2>1 DEF ServerLast, ServerSends, loopVars, recvVars
  <2>3. r.trailer = "yes"
    OBVIOUS
  <2> HIDE DEF r
  <2>4. QED
    BY <2>2, <2>3, LastFrame
<1>28. ASSUME ServerResets PROVE Integrity'
  <2> DEFINE r == [NoRpc EXCEPT !.trailer = "yes"]
  <2>1. /\ slot = {} /\ slot' = {r} /\ ended = "open" /\ ended' # "open"
        /\ UNCHANGED <<sent, loop, rpc, loopTrailer, loopErr, rErr, got,
                       recvErr>>
    BY <1>28 DEF ServerResets, ServerSends, loopVars, recvVars
  <2>2. r.trailer = "yes"
    BY DEF NoRpc
  <2> HIDE DEF r
  <2>3. QED
    BY <2>1, <2>2, LastFrame
<1>29. ASSUME ConnectionFails PROVE Integrity'
  BY <1>29, BodyFrame DEF ConnectionFails, loopVars, ctxVars, recvVars,
     sendVars, bodyVars
<1>30. ASSUME UserCancel PROVE Integrity'
  BY <1>30, BodyFrame DEF UserCancel, loopVars, netVars, recvVars, sendVars,
     bodyVars
<1>31. CASE UNCHANGED vars
  BY <1>31, BodyFrame DEF vars, loopVars, netVars, recvVars, bodyVars
<1>32. QED
  BY <1>1, <1>2, <1>3, <1>4, <1>5, <1>6, <1>7, <1>8, <1>9, <1>10, <1>11,
     <1>12, <1>13, <1>14, <1>15, <1>16, <1>17, <1>18, <1>19, <1>20, <1>21,
     <1>22, <1>23, <1>24, <1>25, <1>26, <1>27, <1>28, <1>29, <1>30, <1>31
     DEF Next, LoopProgress, RecvProgress, SendProgress, Environment

\* Bodies arrive in order and without gaps, and all those sent ahead of the
\* last Rpc before RecvMsg reports the end of the stream, for any number of
\* bodies and whether or not the last Rpc carries one more.
THEOREM BodiesIntact == Spec => []AllBodiesBeforeEnd
<1>1. Init => LockOK /\ ResetOK /\ Integrity
  BY DEF Init, LockOK, NoAssertion, ResetOK, ResetOnlyIfAbandoned, Integrity,
     LastOK, BodiesOK, ErrorsOK, Reading, LoopBody, SlotBody, HasBody
<1>2. Integrity => AllBodiesBeforeEnd
  BY DEF Integrity, LastOK, BodiesOK, ErrorsOK, AllBodiesBeforeEnd
<1>3. QED
  BY <1>1, <1>2, TypeCorrect, LockStep, ResetStep, BodyStep, PTL DEF Spec

-----------------------------------------------------------------------------
\* The errors RecvMsg reports.

\* The last Rpc carries the status the server ended with; once readLoop has
\* met that Rpc it leaves with, publishes and yields the matching error.
EndOK ==
    /\ \A r \in slot : r.trailer = "yes" => r.status = ended
    /\ loop \in {"header", "check"} /\ rpc.trailer = "yes" =>
           rpc.status = ended
    /\ loopTrailer = "set" =>
           loopErr = IF ended = "Err" THEN "status" ELSE "EOF"
    /\ done = "yes" => rErr = loopErr
    /\ recvErr = "EOF" => ended \notin {"open", "Err"}
    /\ recvErr = "status" => ended = "Err"

endVars == <<loop, rpc, loopErr, loopTrailer, done, rErr, slot, ended, recvErr>>

\* Steps that leave these variables alone keep the explanation.
LEMMA EndFrame == EndOK /\ UNCHANGED endVars => EndOK'
  BY DEF EndOK, endVars

\* The server ends the stream once, so an end met or reported stays true.
LEMMA EndsOnce ==
    ASSUME Integrity, EndOK, ended = "open", \A r \in slot' : r.status = ended',
           UNCHANGED <<loopVars, recvVars>>
    PROVE EndOK'
<1>1. loopTrailer # "set" /\ recvErr \notin {"EOF", "status"}
  BY DEF Integrity, LastOK, ErrorsOK, EndOK
<1>2. ~(loop \in {"header", "check"} /\ rpc.trailer = "yes")
  BY DEF Integrity, LastOK, HasBody
<1>3. QED
  BY <1>1, <1>2 DEF loopVars, recvVars, EndOK

\* Every step keeps the explanation of each error on its way to RecvMsg.
LEMMA EndStep ==
    TypeOK /\ LockOK /\ ResetOK /\ Integrity /\ EndOK /\ [Next]_vars => EndOK'
<1> SUFFICES ASSUME TypeOK, LockOK, ResetOK, Integrity, EndOK, [Next]_vars
             PROVE EndOK'
  OBVIOUS
<1>1. ASSUME LoopRead PROVE EndOK'
  BY <1>1 DEF LoopRead, ctxVars, recvVars, sendVars, Integrity, LastOK, EndOK,
     Reading
<1>2. ASSUME LoopReadCtx PROVE EndOK'
  BY <1>2 DEF LoopReadCtx, LoopReadErr, onReady, ctxVars, netVars, recvVars,
     sendVars, Unlocked, TypeOK, ResetOK, LockOK, EndOK, Reading
<1>3. ASSUME LoopReadClosed PROVE EndOK'
  BY <1>3 DEF LoopReadClosed, LoopReadErr, onReady, ctxVars, netVars,
     recvVars, sendVars, Unlocked, LockOK, ResetOK, EndOK, Reading
<1>4. ASSUME LoopHeader PROVE EndOK'
  BY <1>4 DEF LoopHeader, onReady, ctxVars, netVars, recvVars, sendVars,
     Unlocked, TypeOK, Rpc, EndOK, Reading
<1>5. ASSUME LoopCheck PROVE EndOK'
  BY <1>5 DEF LoopCheck, errorIfDone, ctxVars, netVars, recvVars, sendVars,
     TypeOK, Rpc, Statuses, ResetOK, LockOK, EndOK, Reading
<1>6. ASSUME LoopPushCtx PROVE EndOK'
  BY <1>6 DEF LoopPushCtx, ctxVars, netVars, recvVars, sendVars, TypeOK,
     ResetOK, LockOK, EndOK, Reading
<1>7. ASSUME LoopExit PROVE EndOK'
  BY <1>7 DEF LoopExit, MustReset, ctxVars, netVars, recvVars, sendVars,
     TypeOK, ResetOK, LockOK, EndOK, Reading
<1>8. ASSUME LoopReset PROVE EndOK'
  BY <1>8 DEF LoopReset, ctxVars, netVars, recvVars, sendVars, EndOK, Reading
<1>9. ASSUME LoopUnregister PROVE EndOK'
  BY <1>9 DEF LoopUnregister, ctxVars, recvVars, sendVars, EndOK,
     Reading
<1>10. ASSUME LoopCancel PROVE EndOK'
  BY <1>10 DEF LoopCancel, netVars, recvVars, sendVars, LockOK, EndOK, Reading
<1>11. ASSUME LoopPublish PROVE EndOK'
  BY <1>11 DEF LoopPublish, ctxVars, netVars, recvVars, sendVars, LockOK,
     EndOK, Reading
<1>12. ASSUME RecvCall PROVE EndOK'
  BY <1>12 DEF RecvCall, Unlocked, RecvReturns, loopVars, ctxVars, netVars,
     sendVars, TypeOK, ResetOK, LockOK, Integrity, LastOK,
     ErrorsOK, EndOK
<1>13. ASSUME RecvCtx PROVE EndOK'
  BY <1>13 DEF RecvCtx, RecvReturns, loopVars, ctxVars, netVars, sendVars,
     LockOK, ResetOK, EndOK, Reading
<1>14. ASSUME RecvBody PROVE EndOK'
  BY <1>14 DEF RecvBody, ctxVars, netVars, sendVars, EndOK
<1>15. ASSUME RecvFindsClosed PROVE EndOK'
  BY <1>15 DEF RecvFindsClosed, loopVars, ctxVars, netVars, sendVars, EndOK
<1>16. ASSUME RecvAfterClose PROVE EndOK'
  BY <1>16 DEF RecvAfterClose, Unlocked, RecvReturns, loopVars, ctxVars,
     netVars, sendVars, TypeOK, ResetOK, LockOK, Integrity, LastOK,
     ErrorsOK, EndOK
<1>17. ASSUME SendCall PROVE EndOK'
  BY <1>17, EndFrame DEF SendCall, Unlocked, loopVars, ctxVars, netVars,
     recvVars, endVars
<1>18. ASSUME SendMarshal PROVE EndOK'
  BY <1>18 DEF SendMarshal, SendStep, SendFails, loopVars, ctxVars, netVars,
     recvVars, EndOK, Reading
<1>19. ASSUME SendWrite PROVE EndOK'
  BY <1>19 DEF SendWrite, SendStep, SendFails, loopVars, ctxVars, netVars,
     recvVars, EndOK, Reading
<1>20. ASSUME SendUnregister PROVE EndOK'
  BY <1>20, EndFrame DEF SendUnregister, SendStep, loopVars, ctxVars,
     recvVars, endVars
<1>21. ASSUME SendCancel PROVE EndOK'
  BY <1>21, EndFrame DEF SendCancel, SendStep, loopVars, netVars, recvVars,
     endVars
<1>22. ASSUME CloseSendCall PROVE EndOK'
  BY <1>22, EndFrame DEF CloseSendCall, loopVars, ctxVars, netVars, recvVars,
     endVars
<1>23. ASSUME CloseSend PROVE EndOK'
  BY <1>23, EndFrame DEF CloseSend, SendStep, loopVars, ctxVars, netVars,
     recvVars, endVars
<1>24. ASSUME Header PROVE EndOK'
  BY <1>24, EndFrame DEF Header, Unlocked, loopVars, ctxVars, netVars,
     recvVars, sendVars, endVars
<1>25. ASSUME ServerBody PROVE EndOK'
  <2>1. PICK h \in Headers :
            ServerSends([NoRpc EXCEPT !.hdr = h, !.body = sent + 1])
    BY <1>25 DEF ServerBody
  <2> DEFINE r == [NoRpc EXCEPT !.hdr = h, !.body = sent + 1]
  <2>2. r.trailer = "no"
    BY DEF NoRpc
  <2>3. /\ slot' = {r} /\ UNCHANGED ended
        /\ UNCHANGED <<loopVars, ctxVars, recvVars, sendVars>>
    BY <1>25, <2>1 DEF ServerBody, ServerSends
  <2> HIDE DEF r
  <2>4. QED
    BY <2>2, <2>3 DEF loopVars, ctxVars, recvVars, sendVars, EndOK, Reading
<1>26. ASSUME ServerHeader PROVE EndOK'
  <2>1. PICK h \in Headers :
            ServerSends([NoRpc EXCEPT !.hdr = h])
    BY <1>26 DEF ServerHeader
  <2> DEFINE r == [NoRpc EXCEPT !.hdr = h]
  <2>2. r.trailer = "no"
    BY DEF NoRpc
  <2>3. /\ slot' = {r} /\ UNCHANGED ended
        /\ UNCHANGED <<loopVars, ctxVars, recvVars, sendVars>>
    BY <1>26, <2>1 DEF ServerHeader, ServerSends
  <2> HIDE DEF r
  <2>4. QED
    BY <2>2, <2>3 DEF loopVars, ctxVars, recvVars, sendVars, EndOK, Reading
<1>27. ASSUME ServerLast PROVE EndOK'
  <2>1. PICK h \in Headers, s \in {"OK", "Err"}, b \in {0, sent + 1} :
            /\ b <= MaxBodies
            /\ ServerSends([hdr |-> h, body |-> b, trailer |-> "yes",
                            status |-> s])
            /\ ended' = s
    BY <1>27 DEF ServerLast
  <2>2. /\ ended = "open" /\ \A r \in slot' : r.status = ended'
        /\ UNCHANGED <<loopVars, recvVars>>
    BY <2>1 DEF ServerSends
  <2>3. QED
    BY <2>2, EndsOnce
<1>28. ASSUME ServerResets PROVE EndOK'
  <2>1. /\ ended = "open" /\ \A r \in slot' : r.status = ended'
        /\ UNCHANGED <<loopVars, recvVars>>
    BY <1>28 DEF ServerResets, ServerSends, NoRpc
  <2>2. QED
    BY <2>1, EndsOnce
<1>29. ASSUME ConnectionFails PROVE EndOK'
  BY <1>29, EndFrame DEF ConnectionFails, loopVars, ctxVars, recvVars,
     sendVars, endVars
<1>30. ASSUME UserCancel PROVE EndOK'
  BY <1>30 DEF UserCancel, loopVars, netVars, recvVars, sendVars, EndOK, Reading
<1>31. CASE UNCHANGED vars
  BY <1>31, EndFrame DEF vars, loopVars, ctxVars, netVars, recvVars, sendVars,
     endVars
<1>32. QED
  BY <1>1, <1>2, <1>3, <1>4, <1>5, <1>6, <1>7, <1>8, <1>9, <1>10, <1>11,
     <1>12, <1>13, <1>14, <1>15, <1>16, <1>17, <1>18, <1>19, <1>20, <1>21,
     <1>22, <1>23, <1>24, <1>25, <1>26, <1>27, <1>28, <1>29, <1>30, <1>31
     DEF Next,
     LoopProgress, RecvProgress, SendProgress, Environment

\* RecvMsg makes up neither success nor failure: io.EOF is not reported before
\* the server's last Rpc nor for one with an error, a status only for one with
\* an error; and a regular end that readLoop has met is the one it publishes,
\* whatever the caller, the connection and the sender do meanwhile.
THEOREM EndsAreServers == Spec => []EndIsServers
<1>1. Init => LockOK /\ ResetOK /\ Integrity /\ EndOK
  BY DEF Init, LockOK, NoAssertion, ResetOK, ResetOnlyIfAbandoned, Integrity,
     LastOK, BodiesOK, ErrorsOK, Reading, LoopBody, SlotBody, HasBody, EndOK
<1>2. EndOK => EndIsServers
  BY DEF EndOK, EndIsServers
<1>3. QED
  BY <1>1, <1>2, TypeCorrect, LockStep, ResetStep, BodyStep, EndStep, PTL
     DEF Spec

=============================================================================

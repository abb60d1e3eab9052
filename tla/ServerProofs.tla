---------------------------- MODULE ServerProofs ----------------------------
(***************************************************************************)
(* The server's side of a connection.  ServerHandler, for any number of    *)
(* streams, workers and Rpcs: types, the agreement between h.streams and   *)
(* the running handlers, and the orderly end of Serve.  Then Conversions,  *)
(* for timeouts, metadata, routes and interceptor chains of any size: each *)
(* computes what it should.                                                *)
(***************************************************************************)
EXTENDS ServerHandler, Conversions, WellFoundedInduction, SequenceTheorems,
        FiniteSetTheorems, TLAPS

\* The serve loop has an Rpc in hand while it processes one.
MsgOK == serve \in {"lock", "push", "reset"} => msg \in [id : Ids, kind : Kinds]

\* The done channel of a registered stream is empty.
DoneEmpty == streams \cap signalled = {}

\* Once Serve has returned, no stream is registered.
ReturnedEmpty == serve = "returned" => streams = {}

\* The inductive invariant.
IInv == TypeOK /\ MsgOK /\ OneHandlerPerId /\ DoneEmpty /\ ReturnedEmpty

-----------------------------------------------------------------------------
\* Types.

\* Every step of serve, the streams and the workers keeps the types.
LEMMA TypeStep == TypeOK /\ MsgOK /\ [Next]_vars => TypeOK' /\ MsgOK'
<1> SUFFICES ASSUME TypeOK, MsgOK, [Next]_vars PROVE (TypeOK /\ MsgOK)'
  OBVIOUS
<1>1. ASSUME ReadFails PROVE (TypeOK /\ MsgOK)'
  BY <1>1 DEF ReadFails, JustGoto, Goto, ctxVars, streamVars, poolVars,
     TypeOK, MsgOK
<1>2. ASSUME ReadIgnored PROVE (TypeOK /\ MsgOK)'
  BY <1>2, ReadBound DEF ReadIgnored, ctxVars, streamVars, poolVars, TypeOK,
     MsgOK
<1>3. ASSUME ReadUnary PROVE (TypeOK /\ MsgOK)'
  BY <1>3, ReadBound DEF ReadUnary, Goto, ctxVars, streamVars, poolVars,
     TypeOK, MsgOK
<1>4. ASSUME NEW w \in Workers, Dispatch(w) PROVE (TypeOK /\ MsgOK)'
  BY <1>4 DEF Dispatch, Goto, ctxVars, streamVars, TypeOK, MsgOK
<1>5. ASSUME DispatchCancelled PROVE (TypeOK /\ MsgOK)'
  BY <1>5 DEF DispatchCancelled, JustGoto, Goto, ctxVars, streamVars,
     poolVars, TypeOK, MsgOK
<1>6. ASSUME NEW id \in Ids, NEW kind \in Kinds \ {"reset"},
             ReadStream(id, kind)
      PROVE  (TypeOK /\ MsgOK)'
  BY <1>6, ReadBound DEF ReadStream, Goto, ctxVars, streamVars, poolVars,
     TypeOK, MsgOK, Kinds
<1>7. ASSUME NEW id \in Ids, PeerResets(id) PROVE (TypeOK /\ MsgOK)'
  BY <1>7, ReadBound DEF PeerResets, ctxVars, streamVars, poolVars, TypeOK,
     MsgOK
<1>8. ASSUME NEW id \in Ids, ReadReset(id) PROVE (TypeOK /\ MsgOK)'
  BY <1>8 DEF ReadReset, Goto, ctxVars, streamVars, poolVars, TypeOK, MsgOK,
     Kinds
<1>9. ASSUME StreamReset PROVE (TypeOK /\ MsgOK)'
  BY <1>9 DEF StreamReset, Goto, ctxVars, poolVars, TypeOK, MsgOK
<1>10. ASSUME StreamPush PROVE (TypeOK /\ MsgOK)'
  BY <1>10 DEF StreamPush, JustGoto, Goto, ctxVars, streamVars, poolVars,
     TypeOK, MsgOK
<1>11. ASSUME PushOk PROVE (TypeOK /\ MsgOK)'
  BY <1>11 DEF PushOk, Goto, ctxVars, poolVars, TypeOK, MsgOK
<1>12. ASSUME PushCancelled PROVE (TypeOK /\ MsgOK)'
  BY <1>12 DEF PushCancelled, JustGoto, Goto, ctxVars, streamVars, poolVars,
     TypeOK, MsgOK
<1>13. ASSUME StreamTrailer PROVE (TypeOK /\ MsgOK)'
  BY <1>13 DEF StreamTrailer, JustGoto, Goto, ctxVars, streamVars, poolVars,
     TypeOK, MsgOK
<1>14. ASSUME StreamReject PROVE (TypeOK /\ MsgOK)'
  BY <1>14 DEF StreamReject, JustGoto, Goto, ctxVars, streamVars, poolVars,
     TypeOK, MsgOK
<1>15. ASSUME ResetOk PROVE (TypeOK /\ MsgOK)'
  BY <1>15 DEF ResetOk, JustGoto, Goto, ctxVars, streamVars, poolVars,
     TypeOK, MsgOK
<1>16. ASSUME ResetFails PROVE (TypeOK /\ MsgOK)'
  BY <1>16 DEF ResetFails, JustGoto, Goto, ctxVars, streamVars, poolVars,
     TypeOK, MsgOK
<1>17. ASSUME StreamOpen PROVE (TypeOK /\ MsgOK)'
  BY <1>17 DEF StreamOpen, Goto, ctxVars, poolVars, TypeOK, MsgOK, Active
<1>18. ASSUME ServeExit PROVE (TypeOK /\ MsgOK)'
  BY <1>18 DEF ServeExit, Goto, streamVars, poolVars, TypeOK, MsgOK
<1>19. ASSUME NEW id \in Ids, PickStream(id) PROVE (TypeOK /\ MsgOK)'
  BY <1>19 DEF PickStream, Goto, ctxVars, poolVars, TypeOK, MsgOK
<1>20. ASSUME StreamDone PROVE (TypeOK /\ MsgOK)'
  BY <1>20 DEF StreamDone, Goto, ctxVars, poolVars, TypeOK, MsgOK
<1>21. ASSUME ServeReturns PROVE (TypeOK /\ MsgOK)'
  BY <1>21 DEF ServeReturns, JustGoto, Goto, ctxVars, streamVars, poolVars,
     TypeOK, MsgOK
<1>22. ASSUME NEW id \in Ids, AppRecv(id) PROVE (TypeOK /\ MsgOK)'
  BY <1>22 DEF AppRecv, loopVars, ctxVars, poolVars, TypeOK, MsgOK
<1>23. ASSUME NEW id \in Ids, AppSend(id) PROVE (TypeOK /\ MsgOK)'
  BY <1>23 DEF AppSend, AppStep, loopVars, ctxVars, poolVars, TypeOK, MsgOK,
     Active
<1>24. ASSUME NEW id \in Ids, AppReturn(id) PROVE (TypeOK /\ MsgOK)'
  BY <1>24 DEF AppReturn, AppStep, loopVars, ctxVars, poolVars, TypeOK,
     MsgOK, Active
<1>25. ASSUME NEW id \in Ids, StreamWrite(id) PROVE (TypeOK /\ MsgOK)'
  BY <1>25 DEF StreamWrite, SendDone, TrailerDone, AppStep, HandToWriter,
     loopVars, ctxVars, TypeOK, MsgOK, Active
<1>26. ASSUME NEW id \in Ids, StreamWriteCancelled(id) PROVE (TypeOK /\ MsgOK)'
  BY <1>26 DEF StreamWriteCancelled, SendDone, TrailerDone, AppStep,
     loopVars, ctxVars, poolVars, TypeOK, MsgOK, Active
<1>27. ASSUME NEW id \in Ids, unregisterStream(id) PROVE (TypeOK /\ MsgOK)'
  BY <1>27 DEF unregisterStream, Unlocked, loopVars, ctxVars, poolVars,
     TypeOK, MsgOK
<1>28. ASSUME NEW id \in Ids, StreamTimeout(id) PROVE (TypeOK /\ MsgOK)'
  BY <1>28 DEF StreamTimeout, loopVars, ctxVars, poolVars, TypeOK, MsgOK
<1>29. ASSUME NEW w \in Workers, processUnaryRpc(w) PROVE (TypeOK /\ MsgOK)'
  BY <1>29 DEF processUnaryRpc, loopVars, ctxVars, streamVars, TypeOK, MsgOK
<1>30. ASSUME NEW w \in Workers, WorkerReply(w) PROVE (TypeOK /\ MsgOK)'
  BY <1>30 DEF WorkerReply, HandToWriter, loopVars, ctxVars, streamVars,
     TypeOK, MsgOK
<1>31. ASSUME NEW w \in Workers, WorkerExit(w) PROVE (TypeOK /\ MsgOK)'
  BY <1>31 DEF WorkerExit, loopVars, ctxVars, streamVars, TypeOK, MsgOK
<1>32. ASSUME WriteOk PROVE (TypeOK /\ MsgOK)'
  BY <1>32 DEF WriteOk, loopVars, ctxVars, streamVars, TypeOK, MsgOK
<1>33. ASSUME WriteFails PROVE (TypeOK /\ MsgOK)'
  BY <1>33 DEF WriteFails, loopVars, streamVars, TypeOK, MsgOK
<1>34. ASSUME WriterExit PROVE (TypeOK /\ MsgOK)'
  BY <1>34 DEF WriterExit, loopVars, ctxVars, streamVars, TypeOK, MsgOK
<1>35. ASSUME Stop PROVE (TypeOK /\ MsgOK)'
  BY <1>35 DEF Stop, loopVars, streamVars, poolVars, TypeOK, MsgOK
<1>36. ASSUME ClientCtxDone PROVE (TypeOK /\ MsgOK)'
  BY <1>36 DEF ClientCtxDone, loopVars, poolVars, TypeOK, MsgOK
<1>37. CASE UNCHANGED vars
  BY <1>37 DEF vars, loopVars, ctxVars, streamVars, poolVars, TypeOK, MsgOK
<1>38. QED
  BY <1>1, <1>2, <1>3, <1>4, <1>5, <1>6, <1>7, <1>8, <1>9, <1>10, <1>11,
     <1>12, <1>13, <1>14, <1>15, <1>16, <1>17, <1>18, <1>19, <1>20, <1>21,
     <1>22, <1>23, <1>24, <1>25, <1>26, <1>27, <1>28, <1>29, <1>30, <1>31,
     <1>32, <1>33, <1>34, <1>35, <1>36, <1>37
     DEF Next, ServeProgress, ResetWrite, Write, StreamProgress, AppUnary,
         WorkerProgress, ReadCancelled

\* Every variable of the handler keeps its type; in particular no stream's ch
\* ever holds more than one Rpc.
THEOREM TypeCorrect == Spec => []TypeOK
<1>1. Init => TypeOK /\ MsgOK
  BY ReadBound DEF Init, TypeOK, MsgOK
<1>2. QED
  BY <1>1, TypeStep, PTL DEF Spec

-----------------------------------------------------------------------------
\* Registered streams and running handlers.

\* Every step keeps h.streams and the running handlers the same.
LEMMA StreamsStep ==
    TypeOK /\ MsgOK /\ OneHandlerPerId /\ [Next]_vars => OneHandlerPerId'
<1> SUFFICES ASSUME TypeOK, MsgOK, OneHandlerPerId, [Next]_vars
             PROVE  OneHandlerPerId'
  OBVIOUS
<1>1. ASSUME ReadFails PROVE OneHandlerPerId'
  BY <1>1 DEF ReadFails, JustGoto, Goto, ctxVars, streamVars, poolVars,
     OneHandlerPerId
<1>2. ASSUME ReadIgnored PROVE OneHandlerPerId'
  BY <1>2 DEF ReadIgnored, ctxVars, streamVars, poolVars, OneHandlerPerId
<1>3. ASSUME ReadUnary PROVE OneHandlerPerId'
  BY <1>3 DEF ReadUnary, Goto, ctxVars, streamVars, poolVars,
     OneHandlerPerId
<1>4. ASSUME NEW w \in Workers, Dispatch(w) PROVE OneHandlerPerId'
  BY <1>4 DEF Dispatch, Goto, ctxVars, streamVars, OneHandlerPerId
<1>5. ASSUME DispatchCancelled PROVE OneHandlerPerId'
  BY <1>5 DEF DispatchCancelled, JustGoto, Goto, ctxVars, streamVars,
     poolVars, OneHandlerPerId
<1>6. ASSUME NEW id \in Ids, NEW kind \in Kinds \ {"reset"},
             ReadStream(id, kind)
      PROVE  OneHandlerPerId'
  BY <1>6 DEF ReadStream, Goto, ctxVars, streamVars, poolVars,
     OneHandlerPerId
<1>7. ASSUME NEW id \in Ids, PeerResets(id) PROVE OneHandlerPerId'
  BY <1>7 DEF PeerResets, ctxVars, streamVars, poolVars, OneHandlerPerId
<1>8. ASSUME NEW id \in Ids, ReadReset(id) PROVE OneHandlerPerId'
  BY <1>8 DEF ReadReset, Goto, ctxVars, streamVars, poolVars,
     OneHandlerPerId
<1>9. ASSUME StreamReset PROVE OneHandlerPerId'
  BY <1>9 DEF StreamReset, Goto, ctxVars, poolVars, OneHandlerPerId
<1>10. ASSUME StreamPush PROVE OneHandlerPerId'
  BY <1>10 DEF StreamPush, JustGoto, Goto, ctxVars, streamVars, poolVars,
     OneHandlerPerId
<1>11. ASSUME PushOk PROVE OneHandlerPerId'
  BY <1>11 DEF PushOk, Goto, ctxVars, poolVars, OneHandlerPerId
<1>12. ASSUME PushCancelled PROVE OneHandlerPerId'
  BY <1>12 DEF PushCancelled, JustGoto, Goto, ctxVars, streamVars, poolVars,
     OneHandlerPerId
<1>13. ASSUME StreamTrailer PROVE OneHandlerPerId'
  BY <1>13 DEF StreamTrailer, JustGoto, Goto, ctxVars, streamVars, poolVars,
     OneHandlerPerId
<1>14. ASSUME StreamReject PROVE OneHandlerPerId'
  BY <1>14 DEF StreamReject, JustGoto, Goto, ctxVars, streamVars, poolVars,
     OneHandlerPerId
<1>15. ASSUME ResetOk PROVE OneHandlerPerId'
  BY <1>15 DEF ResetOk, JustGoto, Goto, ctxVars, streamVars, poolVars,
     OneHandlerPerId
<1>16. ASSUME ResetFails PROVE OneHandlerPerId'
  BY <1>16 DEF ResetFails, JustGoto, Goto, ctxVars, streamVars, poolVars,
     OneHandlerPerId
<1>17. ASSUME StreamOpen PROVE OneHandlerPerId'
  BY <1>17 DEF StreamOpen, Goto, ctxVars, poolVars, OneHandlerPerId, Active,
     TypeOK, MsgOK
<1>18. ASSUME ServeExit PROVE OneHandlerPerId'
  BY <1>18 DEF ServeExit, Goto, streamVars, poolVars, OneHandlerPerId
<1>19. ASSUME NEW id \in Ids, PickStream(id) PROVE OneHandlerPerId'
  BY <1>19 DEF PickStream, Goto, ctxVars, poolVars, OneHandlerPerId
<1>20. ASSUME StreamDone PROVE OneHandlerPerId'
  BY <1>20 DEF StreamDone, Goto, ctxVars, poolVars, OneHandlerPerId
<1>21. ASSUME ServeReturns PROVE OneHandlerPerId'
  BY <1>21 DEF ServeReturns, JustGoto, Goto, ctxVars, streamVars, poolVars,
     OneHandlerPerId
<1>22. ASSUME NEW id \in Ids, AppRecv(id) PROVE OneHandlerPerId'
  BY <1>22 DEF AppRecv, loopVars, ctxVars, poolVars, OneHandlerPerId
<1>23. ASSUME NEW id \in Ids, AppSend(id) PROVE OneHandlerPerId'
  BY <1>23 DEF AppSend, AppStep, loopVars, ctxVars, poolVars,
     OneHandlerPerId, Active, TypeOK, MsgOK
<1>24. ASSUME NEW id \in Ids, AppReturn(id) PROVE OneHandlerPerId'
  BY <1>24 DEF AppReturn, AppStep, loopVars, ctxVars, poolVars,
     OneHandlerPerId, Active, TypeOK, MsgOK
<1>25. ASSUME NEW id \in Ids, StreamWrite(id) PROVE OneHandlerPerId'
  BY <1>25 DEF StreamWrite, SendDone, TrailerDone, AppStep, HandToWriter,
     loopVars, ctxVars, OneHandlerPerId, Active, TypeOK, MsgOK
<1>26. ASSUME NEW id \in Ids, StreamWriteCancelled(id) PROVE OneHandlerPerId'
  BY <1>26 DEF StreamWriteCancelled, SendDone, TrailerDone, AppStep,
     loopVars, ctxVars, poolVars, OneHandlerPerId, Active, TypeOK, MsgOK
<1>27. ASSUME NEW id \in Ids, unregisterStream(id) PROVE OneHandlerPerId'
  BY <1>27 DEF unregisterStream, Unlocked, loopVars, ctxVars, poolVars,
     OneHandlerPerId, Active, TypeOK, MsgOK
<1>28. ASSUME NEW id \in Ids, StreamTimeout(id) PROVE OneHandlerPerId'
  BY <1>28 DEF StreamTimeout, loopVars, ctxVars, poolVars, OneHandlerPerId
<1>29. ASSUME NEW w \in Workers, processUnaryRpc(w) PROVE OneHandlerPerId'
  BY <1>29 DEF processUnaryRpc, loopVars, ctxVars, streamVars,
     OneHandlerPerId
<1>30. ASSUME NEW w \in Workers, WorkerReply(w) PROVE OneHandlerPerId'
  BY <1>30 DEF WorkerReply, HandToWriter, loopVars, ctxVars, streamVars,
     OneHandlerPerId
<1>31. ASSUME NEW w \in Workers, WorkerExit(w) PROVE OneHandlerPerId'
  BY <1>31 DEF WorkerExit, loopVars, ctxVars, streamVars, OneHandlerPerId
<1>32. ASSUME WriteOk PROVE OneHandlerPerId'
  BY <1>32 DEF WriteOk, loopVars, ctxVars, streamVars, OneHandlerPerId
<1>33. ASSUME WriteFails PROVE OneHandlerPerId'
  BY <1>33 DEF WriteFails, loopVars, streamVars, OneHandlerPerId
<1>34. ASSUME WriterExit PROVE OneHandlerPerId'
  BY <1>34 DEF WriterExit, loopVars, ctxVars, streamVars, OneHandlerPerId
<1>35. ASSUME Stop PROVE OneHandlerPerId'
  BY <1>35 DEF Stop, loopVars, streamVars, poolVars, OneHandlerPerId
<1>36. ASSUME ClientCtxDone PROVE OneHandlerPerId'
  BY <1>36 DEF ClientCtxDone, loopVars, poolVars, OneHandlerPerId
<1>37. CASE UNCHANGED vars
  BY <1>37 DEF vars, loopVars, ctxVars, streamVars, poolVars,
     OneHandlerPerId
<1>38. QED
  BY <1>1, <1>2, <1>3, <1>4, <1>5, <1>6, <1>7, <1>8, <1>9, <1>10, <1>11,
     <1>12, <1>13, <1>14, <1>15, <1>16, <1>17, <1>18, <1>19, <1>20, <1>21,
     <1>22, <1>23, <1>24, <1>25, <1>26, <1>27, <1>28, <1>29, <1>30, <1>31,
     <1>32, <1>33, <1>34, <1>35, <1>36, <1>37
     DEF Next, ServeProgress, ResetWrite, Write, StreamProgress, AppUnary,
         WorkerProgress, ReadCancelled

\* h.streams is the set of running handlers in every reachable state.
LEMMA StreamsInv == Spec => [](TypeOK /\ MsgOK /\ OneHandlerPerId)
<1>1. Init => TypeOK /\ MsgOK /\ OneHandlerPerId
  BY ReadBound DEF Init, TypeOK, MsgOK, OneHandlerPerId, Active
<1>2. QED
  BY <1>1, TypeStep, StreamsStep, PTL DEF Spec

\* An id never has two handlers, for any number of streams: the ids in
\* h.streams are exactly those whose goroutine is running.
THEOREM HandlersMatchStreams == Spec => []OneHandlerPerId
  BY StreamsInv, PTL

-----------------------------------------------------------------------------
\* The done channels and the end of Serve.

\* Every step keeps what shutdown relies on: done channels and the wait.
LEMMA EndStep ==
    /\ TypeOK /\ MsgOK /\ OneHandlerPerId
    /\ DoneEmpty /\ ReturnedEmpty /\ [Next]_vars
    => (DoneEmpty /\ ReturnedEmpty)'
<1> SUFFICES ASSUME TypeOK, MsgOK, OneHandlerPerId, DoneEmpty, ReturnedEmpty,
                    [Next]_vars
             PROVE  (DoneEmpty /\ ReturnedEmpty)'
  OBVIOUS
<1>1. ASSUME ReadFails PROVE (DoneEmpty /\ ReturnedEmpty)'
  BY <1>1 DEF ReadFails, JustGoto, Goto, ctxVars, streamVars, poolVars,
     DoneEmpty, ReturnedEmpty
<1>2. ASSUME ReadIgnored PROVE (DoneEmpty /\ ReturnedEmpty)'
  BY <1>2 DEF ReadIgnored, ctxVars, streamVars, poolVars, DoneEmpty,
     ReturnedEmpty
<1>3. ASSUME ReadUnary PROVE (DoneEmpty /\ ReturnedEmpty)'
  BY <1>3 DEF ReadUnary, Goto, ctxVars, streamVars, poolVars, DoneEmpty,
     ReturnedEmpty
<1>4. ASSUME NEW w \in Workers, Dispatch(w) PROVE (DoneEmpty /\ ReturnedEmpty)'
  BY <1>4 DEF Dispatch, Goto, ctxVars, streamVars, DoneEmpty, ReturnedEmpty
<1>5. ASSUME DispatchCancelled PROVE (DoneEmpty /\ ReturnedEmpty)'
  BY <1>5 DEF DispatchCancelled, JustGoto, Goto, ctxVars, streamVars,
     poolVars, DoneEmpty, ReturnedEmpty
<1>6. ASSUME NEW id \in Ids, NEW kind \in Kinds \ {"reset"},
             ReadStream(id, kind)
      PROVE  (DoneEmpty /\ ReturnedEmpty)'
  BY <1>6 DEF ReadStream, Goto, ctxVars, streamVars, poolVars, DoneEmpty,
     ReturnedEmpty
<1>7. ASSUME NEW id \in Ids, PeerResets(id) PROVE (DoneEmpty /\ ReturnedEmpty)'
  BY <1>7 DEF PeerResets, ctxVars, streamVars, poolVars, DoneEmpty,
     ReturnedEmpty
<1>8. ASSUME NEW id \in Ids, ReadReset(id) PROVE (DoneEmpty /\ ReturnedEmpty)'
  BY <1>8 DEF ReadReset, Goto, ctxVars, streamVars, poolVars, DoneEmpty,
     ReturnedEmpty
<1>9. ASSUME StreamReset PROVE (DoneEmpty /\ ReturnedEmpty)'
  BY <1>9 DEF StreamReset, Goto, ctxVars, poolVars, DoneEmpty, ReturnedEmpty
<1>10. ASSUME StreamPush PROVE (DoneEmpty /\ ReturnedEmpty)'
  BY <1>10 DEF StreamPush, JustGoto, Goto, ctxVars, streamVars, poolVars,
     DoneEmpty, ReturnedEmpty
<1>11. ASSUME PushOk PROVE (DoneEmpty /\ ReturnedEmpty)'
  BY <1>11 DEF PushOk, Goto, ctxVars, poolVars, DoneEmpty, ReturnedEmpty
<1>12. ASSUME PushCancelled PROVE (DoneEmpty /\ ReturnedEmpty)'
  BY <1>12 DEF PushCancelled, JustGoto, Goto, ctxVars, streamVars, poolVars,
     DoneEmpty, ReturnedEmpty
<1>13. ASSUME StreamTrailer PROVE (DoneEmpty /\ ReturnedEmpty)'
  BY <1>13 DEF StreamTrailer, JustGoto, Goto, ctxVars, streamVars, poolVars,
     DoneEmpty, ReturnedEmpty
<1>14. ASSUME StreamReject PROVE (DoneEmpty /\ ReturnedEmpty)'
  BY <1>14 DEF StreamReject, JustGoto, Goto, ctxVars, streamVars, poolVars,
     DoneEmpty, ReturnedEmpty
<1>15. ASSUME ResetOk PROVE (DoneEmpty /\ ReturnedEmpty)'
  BY <1>15 DEF ResetOk, JustGoto, Goto, ctxVars, streamVars, poolVars,
     DoneEmpty, ReturnedEmpty
<1>16. ASSUME ResetFails PROVE (DoneEmpty /\ ReturnedEmpty)'
  BY <1>16 DEF ResetFails, JustGoto, Goto, ctxVars, streamVars, poolVars,
     DoneEmpty, ReturnedEmpty
<1>17. ASSUME StreamOpen PROVE (DoneEmpty /\ ReturnedEmpty)'
  BY <1>17 DEF StreamOpen, Goto, ctxVars, poolVars, DoneEmpty, ReturnedEmpty
<1>18. ASSUME ServeExit PROVE (DoneEmpty /\ ReturnedEmpty)'
  BY <1>18 DEF ServeExit, Goto, streamVars, poolVars, DoneEmpty,
     ReturnedEmpty
<1>19. ASSUME NEW id \in Ids, PickStream(id) PROVE (DoneEmpty /\ ReturnedEmpty)'
  BY <1>19 DEF PickStream, Goto, ctxVars, poolVars, DoneEmpty, ReturnedEmpty
<1>20. ASSUME StreamDone PROVE (DoneEmpty /\ ReturnedEmpty)'
  BY <1>20 DEF StreamDone, Goto, ctxVars, poolVars, DoneEmpty, ReturnedEmpty
<1>21. ASSUME ServeReturns PROVE (DoneEmpty /\ ReturnedEmpty)'
  BY <1>21 DEF ServeReturns, JustGoto, Goto, ctxVars, streamVars, poolVars,
     DoneEmpty, ReturnedEmpty
<1>22. ASSUME NEW id \in Ids, AppRecv(id) PROVE (DoneEmpty /\ ReturnedEmpty)'
  BY <1>22 DEF AppRecv, loopVars, ctxVars, poolVars, DoneEmpty,
     ReturnedEmpty
<1>23. ASSUME NEW id \in Ids, AppSend(id) PROVE (DoneEmpty /\ ReturnedEmpty)'
  BY <1>23 DEF AppSend, AppStep, loopVars, ctxVars, poolVars, DoneEmpty,
     ReturnedEmpty
<1>24. ASSUME NEW id \in Ids, AppReturn(id) PROVE (DoneEmpty /\ ReturnedEmpty)'
  BY <1>24 DEF AppReturn, AppStep, loopVars, ctxVars, poolVars, DoneEmpty,
     ReturnedEmpty
<1>25. ASSUME NEW id \in Ids, StreamWrite(id) PROVE (DoneEmpty /\ ReturnedEmpty)'
  BY <1>25 DEF StreamWrite, SendDone, TrailerDone, AppStep, HandToWriter,
     loopVars, ctxVars, DoneEmpty, ReturnedEmpty
<1>26. ASSUME NEW id \in Ids, StreamWriteCancelled(id) PROVE (DoneEmpty /\ ReturnedEmpty)'
  BY <1>26 DEF StreamWriteCancelled, SendDone, TrailerDone, AppStep,
     loopVars, ctxVars, poolVars, DoneEmpty, ReturnedEmpty
<1>27. ASSUME NEW id \in Ids, unregisterStream(id) PROVE (DoneEmpty /\ ReturnedEmpty)'
  BY <1>27 DEF unregisterStream, Unlocked, loopVars, ctxVars, poolVars,
     DoneEmpty, ReturnedEmpty
<1>28. ASSUME NEW id \in Ids, StreamTimeout(id) PROVE (DoneEmpty /\ ReturnedEmpty)'
  BY <1>28 DEF StreamTimeout, loopVars, ctxVars, poolVars, DoneEmpty,
     ReturnedEmpty
<1>29. ASSUME NEW w \in Workers, processUnaryRpc(w) PROVE (DoneEmpty /\ ReturnedEmpty)'
  BY <1>29 DEF processUnaryRpc, loopVars, ctxVars, streamVars, DoneEmpty,
     ReturnedEmpty
<1>30. ASSUME NEW w \in Workers, WorkerReply(w) PROVE (DoneEmpty /\ ReturnedEmpty)'
  BY <1>30 DEF WorkerReply, HandToWriter, loopVars, ctxVars, streamVars,
     DoneEmpty, ReturnedEmpty
<1>31. ASSUME NEW w \in Workers, WorkerExit(w) PROVE (DoneEmpty /\ ReturnedEmpty)'
  BY <1>31 DEF WorkerExit, loopVars, ctxVars, streamVars, DoneEmpty,
     ReturnedEmpty
<1>32. ASSUME WriteOk PROVE (DoneEmpty /\ ReturnedEmpty)'
  BY <1>32 DEF WriteOk, loopVars, ctxVars, streamVars, DoneEmpty,
     ReturnedEmpty
<1>33. ASSUME WriteFails PROVE (DoneEmpty /\ ReturnedEmpty)'
  BY <1>33 DEF WriteFails, loopVars, streamVars, DoneEmpty, ReturnedEmpty
<1>34. ASSUME WriterExit PROVE (DoneEmpty /\ ReturnedEmpty)'
  BY <1>34 DEF WriterExit, loopVars, ctxVars, streamVars, DoneEmpty,
     ReturnedEmpty
<1>35. ASSUME Stop PROVE (DoneEmpty /\ ReturnedEmpty)'
  BY <1>35 DEF Stop, loopVars, streamVars, poolVars, DoneEmpty,
     ReturnedEmpty
<1>36. ASSUME ClientCtxDone PROVE (DoneEmpty /\ ReturnedEmpty)'
  BY <1>36 DEF ClientCtxDone, loopVars, poolVars, DoneEmpty, ReturnedEmpty
<1>37. CASE UNCHANGED vars
  BY <1>37 DEF vars, loopVars, ctxVars, streamVars, poolVars, DoneEmpty,
     ReturnedEmpty
<1>38. QED
  BY <1>1, <1>2, <1>3, <1>4, <1>5, <1>6, <1>7, <1>8, <1>9, <1>10, <1>11,
     <1>12, <1>13, <1>14, <1>15, <1>16, <1>17, <1>18, <1>19, <1>20, <1>21,
     <1>22, <1>23, <1>24, <1>25, <1>26, <1>27, <1>28, <1>29, <1>30, <1>31,
     <1>32, <1>33, <1>34, <1>35, <1>36, <1>37
     DEF Next, ServeProgress, ResetWrite, Write, StreamProgress, AppUnary,
         WorkerProgress, ReadCancelled

\* The inductive invariant holds in every reachable state.
LEMMA EndInv == Spec => []IInv
<1>1. Init => DoneEmpty /\ ReturnedEmpty
  BY DEF Init, DoneEmpty, ReturnedEmpty
<1>2. QED
  BY <1>1, StreamsInv, EndStep, PTL DEF Spec, IInv

\* unregisterStream never blocks on done with h.mu held, for any number of
\* streams and any reuse of ids.
THEOREM SignalNeverBlocks == Spec => []DoneNeverBlocks
<1>1. IInv => DoneNeverBlocks
  BY DEF IInv, OneHandlerPerId, DoneEmpty, DoneNeverBlocks, Active
<1>2. QED
  BY <1>1, EndInv, PTL

\* When Serve has returned, no stream handler is running, for any number of
\* streams.
THEOREM ServeReturnsLast == Spec => []ReturnedMeansStopped
<1>1. IInv => ReturnedMeansStopped
  BY DEF IInv, OneHandlerPerId, ReturnedEmpty, ReturnedMeansStopped
<1>2. QED
  BY <1>1, EndInv, PTL

-----------------------------------------------------------------------------
(* Conversions.  Their recursive functions are proved equal to closed forms, *)
(* by induction over a set of naturals, which the well-foundedness of < on   *)
(* Nat gives.                                                                *)

\* A set of naturals that is not empty has a least element.
LEMMA Least ==
  ASSUME NEW S, S \subseteq Nat, S # {}
  PROVE \E x \in S : \A y \in S : x <= y
<1> DEFINE R == {ss \in Nat \X Nat : ss[1] < ss[2]}
<1>1. IsWellFoundedOn(R, Nat)
  BY NatLessThanWellFounded DEF OpToRel
<1>2. PICK x \in S : \A y \in S : ~ (<<y, x>> \in R)
  <2> HIDE DEF R
  <2> QED BY <1>1, WFMin
<1>3. ASSUME NEW y \in S PROVE x <= y
  <2>1. <<y, x>> \in Nat \X Nat
    OBVIOUS
  <2>2. ~(<<y, x>>[1] < <<y, x>>[2])
    <3>1. ~(<<y, x>> \in R)
      BY <1>2
    <3> QED BY <2>1, <3>1
  <2>3. ~(y < x)
    BY <2>2
  <2> QED BY <2>3
<1> QED BY <1>3
\* Induction over the naturals, for a set in place of a predicate.
LEMMA Induction ==
  ASSUME NEW S, 0 \in S, \A n \in Nat : n \in S => n + 1 \in S
  PROVE  Nat \subseteq S
<1> DEFINE T == Nat \ S
<1> SUFFICES ASSUME T # {} PROVE FALSE
  OBVIOUS
<1>1. PICK x \in T : \A y \in T : x <= y
  <2>1. T \subseteq Nat
    OBVIOUS
  <2> HIDE DEF T
  <2> QED BY <2>1, Least
<1>2. x \in Nat /\ x # 0
  OBVIOUS
<1>3. x - 1 \in Nat /\ x - 1 \notin T
  BY <1>1, <1>2
<1>4. x - 1 + 1 \in S
  BY <1>3
<1> QED BY <1>2, <1>4
\* The same up to N.
LEMMA InductionUpTo ==
  ASSUME NEW N \in Nat, NEW S, 0 \in S, \A k \in 1..N : k - 1 \in S => k \in S
  PROVE  0..N \subseteq S
<1> DEFINE T == {k \in Nat : k <= N => k \in S}
<1>1. 0 \in T
  OBVIOUS
<1>2. ASSUME NEW k \in Nat, k \in T PROVE k + 1 \in T
  <2> SUFFICES ASSUME k + 1 <= N PROVE k + 1 \in S
    OBVIOUS
  <2>1. k + 1 \in 1..N /\ (k + 1) - 1 = k /\ k \in S
    BY <1>2
  <2>2. (k + 1) - 1 \in S
    BY <2>1
  <2> QED BY <2>1, <2>2
<1>3. Nat \subseteq T
  <2> HIDE DEF T
  <2> QED BY <1>1, <1>2, Induction
<1> QED BY <1>3

-----------------------------------------------------------------------------
\* Sequences.

\* The first k elements, one by one.
LEMMA TakeFirst ==
  ASSUME NEW S, NEW s \in Seq(S), NEW k \in 0..Len(s)
  PROVE  /\ SubSeq(s, 1, k) \in Seq(S) /\ Len(SubSeq(s, 1, k)) = k
         /\ \A i \in 1..k : SubSeq(s, 1, k)[i] = s[i]
<1>1. Len(s) \in Nat /\ \A i \in 1..k : s[i] \in S
  BY LenProperties, ElementOfSeq
<1>2. \A i \in 1..k : 1 + i - 1 = i
  OBVIOUS
<1>3. SubSeq(s, 1, k) = [i \in 1..k |-> s[i]]
  BY <1>1, <1>2
<1>4. [i \in 1..k |-> s[i]] \in Seq(S) /\ Len([i \in 1..k |-> s[i]]) = k
  BY <1>1
<1> QED BY <1>3, <1>4

\* A prefix is the prefix one shorter and one element more.
LEMMA PrefixStep ==
  ASSUME NEW S, NEW s \in Seq(S), NEW k \in 1..Len(s)
  PROVE  SubSeq(s, 1, k) = Append(SubSeq(s, 1, k - 1), s[k])
<1> DEFINE p == SubSeq(s, 1, k)
           q == SubSeq(s, 1, k - 1)
<1>1. Len(s) \in Nat /\ k \in 0..Len(s) /\ k - 1 \in 0..Len(s) /\ s[k] \in S
  BY LenProperties, ElementOfSeq
<1>2. p \in Seq(S) /\ Len(p) = k /\ \A i \in 1..k : p[i] = s[i]
  BY <1>1, TakeFirst
<1>3. q \in Seq(S) /\ Len(q) = k - 1 /\ \A i \in 1..(k - 1) : q[i] = s[i]
  BY <1>1, TakeFirst
<1> HIDE DEF p, q
<1> DEFINE a == Append(q, s[k])
<1>4. a \in Seq(S) /\ Len(a) = k
  BY <1>1, <1>3
<1>5. \A i \in 1..k : a[i] = IF i = k THEN s[k] ELSE q[i]
  BY <1>1, <1>3
<1>6. \A i \in 1..k : a[i] = p[i]
  BY <1>1, <1>2, <1>3, <1>5
<1> HIDE DEF a
<1>7. a = p
  BY <1>2, <1>4, <1>6, SeqEqual
<1> QED BY <1>7 DEF a, p, q

\* An element is appended to the second of two sequences.
LEMMA ConcatAppend ==
  ASSUME NEW S, NEW s \in Seq(S), NEW t \in Seq(S), NEW e \in S
  PROVE  s \o Append(t, e) = Append(s \o t, e)
<1>1. <<e>> \in Seq(S)
  OBVIOUS
<1>2. Append(t, e) = t \o <<e>>
  BY AppendIsConcat
<1>3. s \o t \in Seq(S)
  BY ConcatProperties
<1> DEFINE u == s \o t
<1>4. s \o (t \o <<e>>) = u \o <<e>>
  BY <1>1, ConcatAssociative
<1> HIDE DEF u
<1>5. Append(u, e) = u \o <<e>>
  BY <1>3, AppendIsConcat DEF u
<1> QED BY <1>2, <1>4, <1>5 DEF u

\* f holds what FlattenSeq has put together after each of the sequences.
Flattens(ss, f) ==
    f[1] = ss[1] /\ \A i \in 2..Len(ss) : f[i] = f[i - 1] \o ss[i]

\* The recursion of FlattenSeq has a solution.
LEMMA FlattenExists ==
  ASSUME NEW S, NEW ss \in Seq(Seq(S)), ss # <<>>
  PROVE  \E f \in [1..Len(ss) -> Seq(S)] : Flattens(ss, f)
<1> DEFINE n == Len(ss)
           Upto(m) == \E f \in [1..m -> Seq(S)] :
                        f[1] = ss[1] /\ \A i \in 2..m : f[i] = f[i - 1] \o ss[i]
           T == {k \in 0..(n - 1) : Upto(k + 1)}
<1>1. n \in Nat \ {0} /\ n - 1 \in Nat /\ \A i \in 1..n : ss[i] \in Seq(S)
  BY EmptySeq, ElementOfSeq
<1> HIDE DEF n
<1>2. 0 \in T
  <2> DEFINE f == [i \in 1..1 |-> ss[1]]
  <2>1. /\ f \in [1..1 -> Seq(S)] /\ f[1] = ss[1]
        /\ \A i \in 2..1 : f[i] = f[i - 1] \o ss[i]
    BY <1>1
  <2>2. 0 + 1 = 1
    OBVIOUS
  <2>3. Upto(1)
    BY <2>1
  <2>4. 0 \in 0..(n - 1)
    BY <1>1
  <2> HIDE DEF Upto
  <2> QED BY <2>2, <2>3, <2>4
<1>3. ASSUME NEW k \in 1..(n - 1), k - 1 \in T PROVE k \in T
  <2>1. k \in Nat /\ k - 1 + 1 = k /\ k + 1 \in 1..n /\ k \in 0..(n - 1)
    BY <1>1
  <2>2. Upto(k)
    BY <1>3, <2>1
  <2>3. PICK f \in [1..k -> Seq(S)] :
             f[1] = ss[1] /\ \A i \in 2..k : f[i] = f[i - 1] \o ss[i]
    BY <2>2
  <2> DEFINE g == [i \in 1..(k + 1) |-> IF i = k + 1 THEN f[k] \o ss[k + 1] ELSE f[i]]
  <2>4. f[k] \in Seq(S) /\ ss[k + 1] \in Seq(S)
    BY <1>1, <2>1
  <2>5. f[k] \o ss[k + 1] \in Seq(S)
    BY <2>4, ConcatProperties
  <2>6. g \in [1..(k + 1) -> Seq(S)]
    BY <2>1, <2>5
  <2>7. g[1] = ss[1]
    <3>1. 1 \in 1..(k + 1) /\ 1 # k + 1
      BY <2>1
    <3> QED BY <2>3, <3>1
  <2>8. ASSUME NEW i \in 2..(k + 1) PROVE g[i] = g[i - 1] \o ss[i]
    <3>1. i \in 1..(k + 1) /\ i - 1 \in 1..(k + 1) /\ i - 1 # k + 1
      BY <2>1
    <3>2. g[i - 1] = f[i - 1]
      BY <3>1
    <3>3. CASE i = k + 1
      <4>1. g[i] = f[k] \o ss[k + 1] /\ i - 1 = k
        BY <2>1, <3>1, <3>3
      <4> HIDE DEF g
      <4> QED BY <3>2, <3>3, <4>1
    <3>4. CASE i # k + 1
      <4>1. g[i] = f[i] /\ i \in 2..k
        BY <2>1, <3>1, <3>4
      <4> HIDE DEF g
      <4> QED BY <2>3, <3>2, <4>1
    <3> QED BY <3>3, <3>4
  <2> HIDE DEF g
  <2>9. Upto(k + 1)
    BY <2>6, <2>7, <2>8
  <2> QED BY <2>1, <2>9
<1>4. 0..(n - 1) \subseteq T
  <2> HIDE DEF T
  <2> QED BY <1>1, <1>2, <1>3, InductionUpTo
<1>5. Upto(n)
  <2>1. n - 1 \in 0..(n - 1) /\ n - 1 + 1 = n
    BY <1>1
  <2>2. Upto(n - 1 + 1)
    BY <1>4, <2>1
  <2> HIDE DEF Upto
  <2> QED BY <2>1, <2>2
<1> QED BY <1>5 DEF Flattens, n

\* And only one: FlattenSeq is any solution's last value.
LEMMA FlattenIs ==
  ASSUME NEW ss, Len(ss) \in Nat \ {0}, NEW f, Flattens(ss, f)
  PROVE  FlattenSeq(ss) = f[Len(ss)]
<1> DEFINE n == Len(ss)
           Rec(h) == [i \in 1..n |-> IF i = 1 THEN ss[i] ELSE h[i - 1] \o ss[i]]
           G == [i \in 1..n |-> f[i]]
           flatten == CHOOSE h : h = Rec(h)
<1>0. n \in Nat \ {0} /\ n - 1 \in Nat
  OBVIOUS
<1>1. f[1] = ss[1] /\ \A i \in 2..n : f[i] = f[i - 1] \o ss[i]
  BY DEF Flattens
<1>2. FlattenSeq(ss) = flatten[n]
  BY DEF FlattenSeq
<1> HIDE DEF n, flatten
<1>3. G = Rec(G)
  <2>1. ASSUME NEW i \in 1..n, i # 1 PROVE f[i] = G[i - 1] \o ss[i]
    <3>1. i \in 2..n /\ i - 1 \in 1..n
      BY <1>0, <2>1
    <3>2. G[i - 1] = f[i - 1]
      BY <3>1
    <3> HIDE DEF G
    <3> QED BY <1>1, <3>1, <3>2
  <2> QED BY <1>1, <2>1
<1>4. flatten = Rec(flatten)
  <2> HIDE DEF Rec, G
  <2> QED BY <1>3 DEF flatten
<1> DEFINE T == {k \in 0..(n - 1) : flatten[k + 1] = f[k + 1]}
<1>5. 0 \in T
  <2>1. 1 \in 1..n /\ 0 + 1 = 1 /\ 0 \in 0..(n - 1)
    BY <1>0
  <2>2. flatten[1] = ss[1]
    BY <1>4, <2>1
  <2> QED BY <1>1, <2>1, <2>2
<1>6. ASSUME NEW k \in 1..(n - 1), k - 1 \in T PROVE k \in T
  <2> DEFINE j == k + 1
  <2>1. j \in 2..n /\ j \in 1..n /\ j # 1 /\ k - 1 + 1 = k /\ j - 1 = k
          /\ k \in 0..(n - 1)
    BY <1>0
  <2>2. flatten[k] = f[k]
    BY <1>6, <2>1
  <2> HIDE DEF j
  <2>3. flatten[j] = flatten[j - 1] \o ss[j]
    BY <1>4, <2>1
  <2>4. f[j] = f[j - 1] \o ss[j]
    BY <1>1, <2>1
  <2>5. flatten[j] = f[j]
    BY <2>1, <2>2, <2>3, <2>4
  <2> QED BY <2>1, <2>5 DEF j
<1>7. 0..(n - 1) \subseteq T
  <2> HIDE DEF T
  <2> QED BY <1>0, <1>5, <1>6, InductionUpTo
<1>8. flatten[n] = f[n]
  <2>1. n - 1 \in 0..(n - 1) /\ n - 1 + 1 = n
    BY <1>0
  <2> QED BY <1>7, <2>1
<1> QED BY <1>2, <1>8 DEF n

\* Nothing flattens to nothing.
LEMMA FlattenEmpty == FlattenSeq(<<>>) = <<>>
<1>1. Len(<<>>) = 0
  OBVIOUS
<1> QED BY <1>1 DEF FlattenSeq

\* Flattening sequences over S gives a sequence over S.
LEMMA FlattenType ==
  ASSUME NEW S, NEW ss \in Seq(Seq(S))
  PROVE  FlattenSeq(ss) \in Seq(S)
<1>1. CASE ss = <<>>
  BY <1>1, FlattenEmpty, EmptySeq
<1>2. CASE ss # <<>>
  <2>1. Len(ss) \in Nat \ {0}
    BY <1>2, EmptySeq
  <2>2. PICK f \in [1..Len(ss) -> Seq(S)] : Flattens(ss, f)
    BY <1>2, FlattenExists
  <2>3. FlattenSeq(ss) = f[Len(ss)]
    BY <2>1, <2>2, FlattenIs
  <2>4. Len(ss) \in 1..Len(ss)
    BY <2>1
  <2> QED BY <2>3, <2>4
<1> QED BY <1>1, <1>2

\* One more sequence goes to the end.
LEMMA FlattenAppend ==
  ASSUME NEW S, NEW ss \in Seq(Seq(S)), NEW x \in Seq(S)
  PROVE  FlattenSeq(Append(ss, x)) = FlattenSeq(ss) \o x
<1> DEFINE t == Append(ss, x)
           n == Len(ss)
<1>1. /\ t \in Seq(Seq(S)) /\ t # <<>> /\ Len(t) = n + 1 /\ n \in Nat
      /\ \A i \in 1..n : t[i] = ss[i]
      /\ t[n + 1] = x
  <2>1. n \in Nat
    BY LenProperties
  <2>2. t \in Seq(Seq(S)) /\ t # <<>> /\ Len(t) = n + 1
    BY AppendProperties
  <2>3. \A i \in 1..n : t[i] = ss[i]
    BY AppendProperties
  <2>4. t[n + 1] = x
    BY AppendProperties
  <2> QED BY <2>1, <2>2, <2>3, <2>4
<1> HIDE DEF t
<1>2. PICK f \in [1..Len(t) -> Seq(S)] : Flattens(t, f)
  BY <1>1, FlattenExists
<1>3. Len(t) \in Nat \ {0}
  BY <1>1
<1>4. FlattenSeq(t) = f[n + 1]
  BY <1>1, <1>2, <1>3, FlattenIs
<1>5. CASE ss = <<>>
  <2>1. n = 0 /\ 0 + 1 = 1
    BY <1>5
  <2>2. f[1] = t[1]
    BY <1>2 DEF Flattens
  <2>3. FlattenSeq(t) = x
    BY <1>1, <1>4, <2>1, <2>2
  <2>4. <<>> \o x = x
    BY ConcatEmptySeq
  <2> QED BY <1>5, <2>3, <2>4, FlattenEmpty DEF t
<1>6. CASE ss # <<>>
  <2>1. n \in Nat \ {0}
    BY <1>6, EmptySeq
  <2> HIDE DEF n
  <2>2. f[1] = t[1] /\ \A i \in 2..(n + 1) : f[i] = f[i - 1] \o t[i]
    BY <1>1, <1>2 DEF Flattens
  <2>3. f[1] = ss[1]
    <3>1. 1 \in 1..n
      BY <2>1
    <3> QED BY <1>1, <2>2, <3>1
  <2>4. ASSUME NEW i \in 2..n PROVE f[i] = f[i - 1] \o ss[i]
    <3>1. i \in 1..n /\ i \in 2..(n + 1)
      BY <2>1
    <3> QED BY <1>1, <2>2, <3>1
  <2>5. Flattens(ss, f)
    BY <2>3, <2>4 DEF Flattens, n
  <2>6. FlattenSeq(ss) = f[n]
    BY <2>1, <2>5, FlattenIs DEF n
  <2> DEFINE j == n + 1
  <2>7. j \in 2..(n + 1) /\ j - 1 = n
    BY <2>1
  <2> HIDE DEF j
  <2>8. f[j] = f[j - 1] \o t[j]
    BY <2>2, <2>7
  <2> QED BY <1>1, <1>4, <2>6, <2>7, <2>8 DEF t, j
<1> QED BY <1>5, <1>6

-----------------------------------------------------------------------------
\* Timeouts.

\* A duration is its own word.
LEMMA WrapFits ==
  ASSUME NEW x \in Durations PROVE wrap(x) = x
<1>1. HalfRange \in Nat /\ x \in Int /\ -HalfRange <= x /\ x < HalfRange
  BY WordSize DEF Durations
<1>2. x + HalfRange \in 0..(2 * HalfRange - 1)
  BY <1>1
<1>3. (x + HalfRange) % (2 * HalfRange) = x + HalfRange
  BY <1>1, <1>2
<1> QED BY <1>1, <1>3 DEF wrap

\* What is left of a deadline, in whole milliseconds.
LEMMA WholeMs ==
  ASSUME NEW t \in Int, NEW m \in Nat \ {0}
  PROVE  /\ t \div m \in Int
         /\ m * (t \div m) <= t /\ t < m * (t \div m) + m
         /\ t \div m <= 0 => t < m
         /\ t \div m > 0 => (m <= m * (t \div m) /\ t >= t \div m /\ t \div m >= 1)
<1> DEFINE q == t \div m
<1>1. q \in Int
  OBVIOUS
<1>2. m * q <= t /\ t < m * q + m
  <2>1. m * (t \div m) <= t
    OBVIOUS
  <2>2. t < m * (t \div m) + m
    OBVIOUS
  <2> QED BY <2>1, <2>2
<1>3. ASSUME q <= 0 PROVE t < m
  <2>1. m * q <= 0
    <3> HIDE DEF q
    <3> QED BY <1>1, <1>3
  <2> QED BY <1>1, <1>2, <2>1
<1>4. ASSUME q > 0 PROVE m <= m * q /\ q <= m * q /\ q >= 1
    <2> HIDE DEF q
    <2>1. q - 1 \in Nat /\ m - 1 \in Nat
      BY <1>1, <1>4
    <2>2. m * (q - 1) >= 0 /\ (m - 1) * q >= 0
      BY <2>1, <1>4, <1>1
    <2>3. m * (q - 1) = m * q - m /\ (m - 1) * q = m * q - q
      BY <1>1
    <2> QED BY <1>1, <1>4, <2>2, <2>3
<1>5. ASSUME q > 0 PROVE t >= q
  <2> HIDE DEF q
  <2> QED BY <1>4, <1>2, <1>1, <1>5
<1> HIDE DEF q
<1>6. /\ q \in Int
      /\ m * q <= t /\ t < m * q + m
      /\ q <= 0 => t < m
      /\ q > 0 => (m <= m * q /\ t >= q /\ q >= 1)
  BY <1>1, <1>2, <1>3, <1>4, <1>5
<1> QED BY <1>6 DEF q

\* The header a client writes is read as a time that is left.
LEMMA ClientHeader ==
  ASSUME NEW t \in Durations
  PROVE  LET m == UnitOf["m"] IN
         \E d \in Int : /\ parseGrpcTimeout(headersFromContext(t)) = {d}
                        /\ 0 < d /\ d <= (IF t > m THEN t ELSE m)
                        /\ t - m < d
<1> DEFINE m == UnitOf["m"]
           ms == t \div m
           h == headersFromContext(t)
<1>1. /\ m \in Nat \ {0} /\ m < HalfRange /\ HalfRange \in Nat
      /\ "m" \in DOMAIN UnitOf
  BY UnitTypes, WordSize
<1>2. t \in Int /\ -HalfRange <= t /\ t < HalfRange
  BY WordSize DEF Durations
<1>3. /\ ms \in Int
      /\ m * ms <= t /\ t < m * ms + m
      /\ ms <= 0 => t < m
      /\ ms > 0 => (m <= m * ms /\ t >= ms /\ ms >= 1)
  BY <1>1, <1>2, WholeMs
<1>4. h.unit = "m" /\ h.val = IF ms <= 0 THEN 1 ELSE ms
  BY DEF headersFromContext
<1> HIDE DEF m, ms, h
<1>5. h.val \in Durations
  BY <1>1, <1>2, <1>3, <1>4 DEF Durations
<1>6. parseGrpcTimeout(h) = {wrap(h.val * m)}
  BY <1>1, <1>4, <1>5 DEF parseGrpcTimeout, m
<1>7. CASE ms <= 0
  <2>1. h.val * m = m /\ m \in Durations
    BY <1>1, <1>3, <1>4, <1>7 DEF Durations
  <2>2. parseGrpcTimeout(h) = {m}
    BY <1>6, <2>1, WrapFits
  <2> QED BY <1>1, <1>2, <1>3, <1>7, <2>2 DEF m, h
<1>8. CASE ms > 0
  <2>1. h.val * m = m * ms /\ m * ms \in Int
    BY <1>1, <1>3, <1>4, <1>8
  <2>2. m * ms \in Durations
    BY <2>1, <1>1, <1>2, <1>3, <1>8 DEF Durations
  <2>3. parseGrpcTimeout(h) = {m * ms}
    BY <1>6, <2>1, <2>2, WrapFits
  <2>4. 0 < m * ms /\ m * ms <= (IF t > m THEN t ELSE m) /\ t - m < m * ms
    BY <1>1, <1>2, <1>3, <1>8, <2>1
  <2> QED BY <2>1, <2>3, <2>4 DEF m, h
<1> QED BY <1>3, <1>7, <1>8

\* The first header that can be parsed decides: of one, and of two.
LEMMA OneHeader ==
  ASSUME NEW t
  PROVE  contextFromHeaders(<<t>>) = parseGrpcTimeout(t)
<1> DEFINE valid == {i \in DOMAIN <<t>> : parseGrpcTimeout(<<t>>[i]) # {}}
           first == {i \in valid : \A j \in valid : i <= j}
<1>1. DOMAIN <<t>> = {1} /\ <<t>>[1] = t
  OBVIOUS
<1>2. CASE parseGrpcTimeout(t) = {}
  <2>1. first = {}
    BY <1>1, <1>2
  <2> HIDE DEF first
  <2> QED BY <1>2, <2>1 DEF contextFromHeaders, first
<1>3. CASE parseGrpcTimeout(t) # {}
  <2>1. first = {1}
    BY <1>1, <1>3
  <2> HIDE DEF first
  <2>2. UNION {parseGrpcTimeout(<<t>>[i]) : i \in first} = parseGrpcTimeout(t)
    BY <1>1, <2>1
  <2> QED BY <2>2 DEF contextFromHeaders, first
<1> QED BY <1>2, <1>3
\* Of two headers the first decides if it can be parsed.
LEMMA TwoHeaders ==
  ASSUME NEW t, NEW u
  PROVE  contextFromHeaders(Append(<<t>>, u)) =
           IF parseGrpcTimeout(t) # {} THEN parseGrpcTimeout(t)
                                       ELSE parseGrpcTimeout(u)
<1> DEFINE s == Append(<<t>>, u)
           valid == {i \in DOMAIN s : parseGrpcTimeout(s[i]) # {}}
           first == {i \in valid : \A j \in valid : i <= j}
<1>1. DOMAIN s = {1, 2} /\ s[1] = t /\ s[2] = u
  <2>1. <<t>> \in Seq({t, u}) /\ Len(<<t>>) = 1 /\ <<t>>[1] = t
    OBVIOUS
  <2>2. s \in Seq({t, u}) /\ Len(s) = 2
    BY <2>1
  <2>3. DOMAIN s = {1, 2}
    BY <2>2
  <2>4. s[1] = t
    BY <2>1
  <2>5. s[2] = u
    BY <2>1
  <2> QED BY <2>3, <2>4, <2>5
<1>2. contextFromHeaders(s) = UNION {parseGrpcTimeout(s[i]) : i \in first}
  BY DEF contextFromHeaders
<1> HIDE DEF s
<1>3. CASE parseGrpcTimeout(t) # {}
  <2>1. first = {1}
    BY <1>1, <1>3
  <2> HIDE DEF first
  <2>2. UNION {parseGrpcTimeout(s[i]) : i \in first} = parseGrpcTimeout(t)
    BY <1>1, <2>1
  <2> QED BY <1>2, <1>3, <2>2 DEF s
<1>4. CASE parseGrpcTimeout(t) = {} /\ parseGrpcTimeout(u) # {}
  <2>1. first = {2}
    BY <1>1, <1>4
  <2> HIDE DEF first
  <2>2. UNION {parseGrpcTimeout(s[i]) : i \in first} = parseGrpcTimeout(u)
    BY <1>1, <2>1
  <2> QED BY <1>2, <1>4, <2>2 DEF s
<1>5. CASE parseGrpcTimeout(t) = {} /\ parseGrpcTimeout(u) = {}
  <2>1. first = {}
    BY <1>1, <1>5
  <2> HIDE DEF first
  <2> QED BY <1>2, <1>5, <2>1 DEF s
<1> QED BY <1>3, <1>4, <1>5

\* DeadlineKept, for any timeout and any own header.
LEMMA DeadlineOfInput ==
  ASSUME NEW in \in TimeoutInputs, input = in PROVE DeadlineKept
<1> DEFINE m == UnitOf["m"]
           t == input.timeout
           h == headersFromContext(t)
           got == ServerTimeout(input.own, t)
<1>1. t \in Durations
  BY DEF TimeoutInputs
<1>2. \E d \in Int : /\ parseGrpcTimeout(h) = {d}
                        /\ 0 < d /\ d <= (IF t > m THEN t ELSE m)
                        /\ t - m < d
  BY <1>1, ClientHeader
<1>3. input.own = <<>> \/ \E o \in Headers : input.own = <<o>>
  BY DEF TimeoutInputs
<1> HIDE DEF m, t, h
<1>4. CASE input.own = <<>>
  <2>1. Append(<<>>, h) = <<h>>
    OBVIOUS
  <2>2. got = parseGrpcTimeout(h)
    BY <1>4, <2>1, OneHeader DEF ServerTimeout, h
  <2>3. contextFromHeaders(<<>>) = {}
    BY DEF contextFromHeaders
  <2> HIDE DEF got
  <2>5. \E d \in got : /\ got = {d} /\ 0 < d
                                /\ d <= (IF t > m THEN t ELSE m)
                                /\ t - m < d
    BY <1>2, <2>2
  <2> QED BY <1>4, <2>3, <2>5 DEF DeadlineKept, got, t, m
<1>5. ASSUME NEW o \in Headers, input.own = <<o>> PROVE DeadlineKept
  <2>2. got = IF parseGrpcTimeout(o) # {} THEN parseGrpcTimeout(o)
              ELSE parseGrpcTimeout(h)
    BY <1>5, TwoHeaders DEF ServerTimeout, h
  <2>3. contextFromHeaders(input.own) = parseGrpcTimeout(o)
    BY <1>5, OneHeader
  <2>4. input.own[1] = o
    BY <1>5
  <2> HIDE DEF got
  <2>5. CASE parseGrpcTimeout(o) = {}
    <3>1. \E d \in got : /\ got = {d} /\ 0 < d
                                /\ d <= (IF t > m THEN t ELSE m)
                                /\ t - m < d
      BY <1>2, <2>2, <2>5
    <3> QED BY <2>3, <2>5, <3>1 DEF DeadlineKept, got, t, m
  <2>6. CASE parseGrpcTimeout(o) # {}
    <3>1. got = parseGrpcTimeout(input.own[1])
      BY <2>2, <2>4, <2>6
    <3> QED BY <2>3, <2>6, <3>1 DEF DeadlineKept, got, t, m
  <2> QED BY <2>5, <2>6
<1> QED BY <1>3, <1>4, <1>5

\* LegalTimeoutExact, for any header: only hours can overflow.
LEMMA LegalOfInput ==
  ASSUME NEW in \in TimeoutInputs, input = in PROVE LegalTimeoutExact
<1> SUFFICES ASSUME NEW i \in DOMAIN input.own, input.own[i].val \in 0..MaxLegal,
                    input.own[i].unit \in DOMAIN UnitOf
             PROVE  LET h == input.own[i] IN
                \/ parseGrpcTimeout(h) = {h.val * UnitOf[h.unit]}
                \/ h.unit = "H" /\ h.val * UnitOf["H"] >= HalfRange
  BY DEF LegalTimeoutExact
<1> DEFINE h == input.own[i]
           v == h.val
           u == UnitOf[h.unit]
<1>1. HalfRange \in Nat /\ MaxLegal \in Nat /\ v \in Nat /\ v <= MaxLegal
  BY WordSize, LegalRange
<1>2. h.unit \in {"H", "M", "S", "m", "u", "n"} /\ u \in Nat \ {0}
  BY UnitTypes
<1> HIDE DEF h, v, u
<1>3. v * u \in Nat /\ v <= v * u
  <2>1. u - 1 \in Nat
    BY <1>2
  <2>2. v * (u - 1) \in Nat /\ v * (u - 1) = v * u - v
    BY <1>1, <1>2, <2>1
  <2>3. v * u \in Nat
    BY <1>1, <1>2
  <2> QED BY <1>1, <2>2, <2>3
<1>4. ASSUME v * u < HalfRange PROVE parseGrpcTimeout(h) = {v * u}
  <2>1. v * u \in Durations /\ v \in Durations
    BY <1>1, <1>3, <1>4 DEF Durations
  <2>2. wrap(v * u) = v * u
    BY <2>1, WrapFits
  <2>3. h.unit \in DOMAIN UnitOf
    BY DEF h
  <2> QED BY <2>1, <2>2, <2>3 DEF parseGrpcTimeout, v, u
<1>5. CASE h.unit # "H"
  <2>1. MaxLegal * u < HalfRange
    BY <1>2, <1>5, LegalRange DEF u
  <2>2. v * u <= MaxLegal * u
    <3>1. (MaxLegal - v) \in Nat
      BY <1>1
    <3>2. (MaxLegal - v) * u \in Nat /\ (MaxLegal - v) * u = MaxLegal * u - v * u
      BY <1>1, <1>2, <3>1
    <3>3. MaxLegal * u \in Nat
      BY <1>1, <1>2
    <3> QED BY <1>3, <3>2, <3>3
  <2>3. MaxLegal * u \in Nat
    BY <1>1, <1>2
  <2>4. v * u < HalfRange
    BY <1>1, <1>3, <2>1, <2>2, <2>3
  <2> QED BY <1>4, <2>4 DEF h, v, u
<1>6. CASE h.unit = "H"
  <2>1. CASE v * u < HalfRange
    BY <1>4, <2>1 DEF h, v, u
  <2>2. CASE v * u >= HalfRange
    BY <1>6, <2>2 DEF h, v, u
  <2> QED BY <1>1, <1>3, <2>1, <2>2
<1> QED BY <1>5, <1>6

-----------------------------------------------------------------------------
\* Metadata.

\* What crosses the wire: values of binary keys are base64.
Wire == [data : Data, b64 : BOOLEAN]
WirePairs == {p \in [key : Keys, value : Wire] : p.key.bin => p.value.b64}

\* The pair of one value, and the pairs of one key.
PairOf(k, v) == [key |-> k, value |-> IF isBin(k) THEN Encode(v) ELSE v]
PairsOf(k, vs) == [j \in DOMAIN vs |-> PairOf(k, vs[j])]

\* What pairs add up to for key k.
Selected(kvs, k) == FlattenSeq([i \in DOMAIN kvs |-> Added(kvs[i], k)])

\* ToKeyValue encodes the values of binary keys.
LEMMA PairOfWire ==
  ASSUME NEW k \in Keys, NEW v \in Values
  PROVE  PairOf(k, v) \in WirePairs
<1>1. v \in Wire
  BY DEF Values, Wire
<1>2. Encode(v) \in Wire /\ Encode(v).b64
  BY DEF Values, Wire, Encode
<1> QED BY <1>1, <1>2 DEF PairOf, WirePairs, isBin, Keys

\* A value that crosses the wire comes back as it was.
LEMMA PairOfAdded ==
  ASSUME NEW o \in Keys, NEW v \in Values, NEW k
  PROVE  Added(PairOf(o, v), k) = IF lower(o) = k THEN <<v>> ELSE <<>>
<1>1. PairOf(o, v).key = o
  BY DEF PairOf
<1>2. Decode(Encode(v)) = v
  BY DEF Values, Decode, Encode
<1>3. lower(o).bin = o.bin
  BY DEF lower, Keys
<1>4. ASSUME lower(o) = k
      PROVE  (IF k.bin THEN Decode(PairOf(o, v).value)
                       ELSE PairOf(o, v).value) = v
  <2>1. k.bin = o.bin
    BY <1>3, <1>4
  <2>2. PairOf(o, v).value = IF o.bin THEN Encode(v) ELSE v
    BY DEF PairOf, isBin
  <2> QED BY <1>2, <2>1, <2>2
<1>5. CASE lower(o) = k
  BY <1>1, <1>4, <1>5 DEF Added
<1>6. CASE lower(o) # k
  BY <1>1, <1>6 DEF Added
<1> QED BY <1>5, <1>6

\* What a pair adds is a list of values.
LEMMA AddedType ==
  ASSUME NEW p \in WirePairs, NEW k
  PROVE  Added(p, k) \in Seq(Wire)
<1>1. p.value \in Wire /\ Decode(p.value) \in Wire
  BY DEF WirePairs, Wire, Decode
<1>2. <<>> \in Seq(Wire)
  BY EmptySeq
<1>3. \A w \in Wire : <<w>> \in Seq(Wire)
  OBVIOUS
<1>4. (IF k.bin THEN Decode(p.value) ELSE p.value) \in Wire
  BY <1>1
<1> DEFINE w == IF k.bin THEN Decode(p.value) ELSE p.value
<1>5. Added(p, k) = IF lower(p.key) # k THEN <<>> ELSE <<w>>
  BY DEF Added
<1> HIDE DEF w
<1>6. w \in Wire
  BY <1>4 DEF w
<1> QED BY <1>2, <1>3, <1>5, <1>6

\* What each of several pairs adds.
LEMMA AddedSeq ==
  ASSUME NEW s \in Seq(WirePairs), NEW k
  PROVE  /\ [i \in DOMAIN s |-> Added(s[i], k)] \in Seq(Seq(Wire))
         /\ Len([i \in DOMAIN s |-> Added(s[i], k)]) = Len(s)
<1> DEFINE n == Len(s)
           a == [i \in DOMAIN s |-> Added(s[i], k)]
<1>1. n \in Nat /\ DOMAIN s = 1..n /\ \A i \in 1..n : s[i] \in WirePairs
  BY LenProperties, ElementOfSeq
<1> HIDE DEF n
<1>2. \A i \in 1..n : Added(s[i], k) \in Seq(Wire)
  BY <1>1, AddedType
<1>3. a = [i \in 1..n |-> Added(s[i], k)]
  BY <1>1
<1> HIDE DEF a
<1>4. a \in Seq(Seq(Wire)) /\ Len(a) = n
  BY <1>1, <1>2, <1>3
<1> QED BY <1>4 DEF a, n

\* What pairs add up to is a list of values.
LEMMA SelectedType ==
  ASSUME NEW s \in Seq(WirePairs), NEW k
  PROVE  Selected(s, k) \in Seq(Wire)
BY AddedSeq, FlattenType DEF Selected

\* One pair more adds what it adds.
LEMMA SelectedAppend ==
  ASSUME NEW s \in Seq(WirePairs), NEW p \in WirePairs, NEW k
  PROVE  Selected(Append(s, p), k) = Selected(s, k) \o Added(p, k)
<1> DEFINE n == Len(s)
           t == Append(s, p)
           a == [i \in DOMAIN s |-> Added(s[i], k)]
           b == [i \in DOMAIN t |-> Added(t[i], k)]
           c == Append(a, Added(p, k))
<1>1. n \in Nat /\ DOMAIN s = 1..n /\ \A i \in 1..n : s[i] \in WirePairs
  BY LenProperties, ElementOfSeq
<1>2. t \in Seq(WirePairs) /\ Len(t) = n + 1
  BY AppendProperties
<1>3. (\A i \in 1..n : t[i] = s[i]) /\ t[n + 1] = p
  BY AppendProperties
<1> HIDE DEF t, n
<1>4. DOMAIN t = 1..(n + 1) /\ \A i \in 1..(n + 1) : t[i] \in WirePairs
  BY <1>2, LenProperties, ElementOfSeq
<1>5. a \in Seq(Seq(Wire)) /\ Len(a) = n
  BY AddedSeq DEF n
<1>6. b \in Seq(Seq(Wire)) /\ Len(b) = n + 1
  BY <1>2, AddedSeq
<1>7. Added(p, k) \in Seq(Wire)
  BY AddedType
<1>8. c \in Seq(Seq(Wire)) /\ Len(c) = n + 1
  <2> HIDE DEF a
  <2> QED BY <1>5, <1>7, AppendProperties
<1>9. (\A i \in 1..n : c[i] = a[i]) /\ c[n + 1] = Added(p, k)
  <2> HIDE DEF a
  <2> QED BY <1>5, <1>7, AppendProperties
<1>10. \A i \in 1..(n + 1) : b[i] = Added(t[i], k)
  BY <1>4
<1>11. \A i \in 1..n : a[i] = Added(s[i], k)
  BY <1>1
<1> HIDE DEF a, b, c
<1>12. ASSUME NEW i \in 1..(n + 1) PROVE b[i] = c[i]
  <2>1. i \in 1..n \/ i = n + 1
    BY <1>1
  <2>2. CASE i \in 1..n
    BY <1>3, <1>9, <1>10, <1>11, <2>2
  <2>3. CASE i = n + 1
    BY <1>3, <1>9, <1>10, <2>3
  <2> QED BY <2>1, <2>2, <2>3
<1>13. b = c
  BY <1>6, <1>8, <1>12, SeqEqual
<1>14. FlattenSeq(c) = FlattenSeq(a) \o Added(p, k)
  BY <1>5, <1>7, FlattenAppend DEF c
<1> QED BY <1>13, <1>14 DEF Selected, a, b, t

\* The pairs of a key, one for each value.
LEMMA PairsOfType ==
  ASSUME NEW o \in Keys, NEW vs \in Seq(Values)
  PROVE  PairsOf(o, vs) \in Seq(WirePairs) /\ Len(PairsOf(o, vs)) = Len(vs)
<1> DEFINE n == Len(vs)
           ps == PairsOf(o, vs)
<1>1. n \in Nat /\ DOMAIN vs = 1..n /\ \A j \in 1..n : vs[j] \in Values
  BY LenProperties, ElementOfSeq
<1> HIDE DEF n
<1>2. ps = [j \in 1..n |-> PairOf(o, vs[j])]
  BY <1>1 DEF PairsOf
<1>3. \A j \in 1..n : PairOf(o, vs[j]) \in WirePairs
  BY <1>1, PairOfWire
<1> HIDE DEF ps
<1>4. ps \in Seq(WirePairs) /\ Len(ps) = n
  BY <1>1, <1>2, <1>3
<1> QED BY <1>4 DEF ps, n

\* The pairs of one key add its values to the list of its lower case.
LEMMA SelectedPairs ==
  ASSUME NEW s \in Seq(WirePairs), NEW o \in Keys, NEW vs \in Seq(Values), NEW k
  PROVE  Selected(s \o PairsOf(o, vs), k) =
           Selected(s, k) \o (IF lower(o) = k THEN vs ELSE <<>>)
<1> DEFINE n == Len(vs)
           ps == PairsOf(o, vs)
           add(q) == IF lower(o) = k THEN SubSeq(vs, 1, q) ELSE <<>>
           T == {q \in 0..n :
                   Selected(s \o SubSeq(ps, 1, q), k) = Selected(s, k) \o add(q)}
<1>1. n \in Nat /\ DOMAIN vs = 1..n /\ \A j \in 1..n : vs[j] \in Values
  BY LenProperties, ElementOfSeq
<1> HIDE DEF n
<1>2. ps \in Seq(WirePairs) /\ Len(ps) = n
  BY PairsOfType DEF n
<1>3. \A j \in 1..n : ps[j] = PairOf(o, vs[j]) /\ ps[j] \in WirePairs
  BY <1>1, PairOfWire DEF PairsOf
<1> HIDE DEF ps
<1>4. Values \subseteq Wire
  BY DEF Values, Wire
<1>5. vs \in Seq(Wire)
  BY <1>4, SeqMonotonic
<1>6. Selected(s, k) \in Seq(Wire)
  BY SelectedType
<1>7. 0 \in T
  <2>1. SubSeq(ps, 1, 0) = <<>> /\ SubSeq(vs, 1, 0) = <<>>
    BY SubSeqEmpty
  <2>2. s \o <<>> = s /\ Selected(s, k) \o <<>> = Selected(s, k)
    BY <1>6, ConcatEmptySeq
  <2>3. add(0) = <<>>
    BY <2>1
  <2>4. Selected(s \o SubSeq(ps, 1, 0), k) = Selected(s, k) \o add(0)
    BY <2>1, <2>2, <2>3
  <2> HIDE DEF add
  <2> QED BY <1>1, <2>4
<1>8. ASSUME NEW q \in 1..n, q - 1 \in T PROVE q \in T
  <2> DEFINE x == SubSeq(ps, 1, q - 1)
             w == SubSeq(vs, 1, q - 1)
             sx == s \o x
  <2>1. q \in 0..n /\ q - 1 \in 0..n
    BY <1>1
  <2>2. SubSeq(ps, 1, q) = Append(x, ps[q])
    BY <1>2, PrefixStep
  <2>3. x \in Seq(WirePairs)
    BY <1>2, <2>1, TakeFirst
  <2>4. SubSeq(vs, 1, q) = Append(w, vs[q])
    BY <1>5, PrefixStep DEF n
  <2>5. w \in Seq(Wire)
    BY <1>5, <2>1, TakeFirst DEF n
  <2>6. Selected(sx, k) = Selected(s, k) \o (IF lower(o) = k THEN w ELSE <<>>)
    BY <1>8
  <2>7. ps[q] = PairOf(o, vs[q]) /\ ps[q] \in WirePairs /\ vs[q] \in Values
    BY <1>1, <1>3
  <2>8. vs[q] \in Wire
    BY <1>4, <2>7
  <2> HIDE DEF x, w
  <2>9. s \o SubSeq(ps, 1, q) = Append(sx, ps[q])
    <3>1. s \o Append(x, ps[q]) = Append(s \o x, ps[q])
      BY <2>3, <2>7, ConcatAppend
    <3> QED BY <2>2, <3>1 DEF sx
  <2>10. sx \in Seq(WirePairs)
    BY <2>3, ConcatProperties
  <2> HIDE DEF sx
  <2>11. Selected(Append(sx, ps[q]), k) = Selected(sx, k) \o Added(ps[q], k)
    BY <2>7, <2>10, SelectedAppend
  <2>12. Added(ps[q], k) = IF lower(o) = k THEN <<vs[q]>> ELSE <<>>
    BY <2>7, PairOfAdded
  <2>13. Selected(s \o SubSeq(ps, 1, q), k) = Selected(s, k) \o add(q)
    <3>1. CASE lower(o) = k
      <4>1. Selected(s \o SubSeq(ps, 1, q), k) = (Selected(s, k) \o w) \o <<vs[q]>>
        BY <2>6, <2>9, <2>11, <2>12, <3>1
      <4>2. <<vs[q]>> \in Seq(Wire)
        BY <2>8
      <4>3. (Selected(s, k) \o w) \o <<vs[q]>> = Selected(s, k) \o (w \o <<vs[q]>>)
        BY <1>6, <2>5, <4>2, ConcatAssociative
      <4>4. add(q) = w \o <<vs[q]>>
        BY <2>4, <2>5, <2>8, <3>1, AppendIsConcat
      <4> HIDE DEF add
      <4> QED BY <4>1, <4>3, <4>4
    <3>2. CASE lower(o) # k
      <4>1. Selected(s, k) \o <<>> = Selected(s, k)
        BY <1>6, ConcatEmptySeq
      <4>2. add(q) = <<>>
        BY <3>2
      <4> HIDE DEF add
      <4> QED BY <2>6, <2>9, <2>11, <2>12, <3>2, <4>1, <4>2
    <3> QED BY <3>1, <3>2
  <2> HIDE DEF add
  <2> QED BY <2>1, <2>13
<1>9. 0..n \subseteq T
  <2> HIDE DEF T
  <2> QED BY <1>1, <1>7, <1>8, InductionUpTo
<1>10. Selected(s \o SubSeq(ps, 1, n), k) = Selected(s, k) \o add(n)
  <2>1. n \in 0..n
    BY <1>1
  <2> HIDE DEF add
  <2> QED BY <1>9, <2>1
<1>11. SubSeq(ps, 1, n) = ps /\ SubSeq(vs, 1, n) = vs
  BY <1>2, SubSeqFull DEF n
<1> QED BY <1>10, <1>11 DEF n, ps

\* The keys of pairs.
KeysOf(kvs) == {kvs[i].key : i \in DOMAIN kvs}

\* The keys of two lists of pairs are the keys of either.
LEMMA KeysOfConcat ==
  ASSUME NEW S, NEW s \in Seq(S), NEW t \in Seq(S)
  PROVE  KeysOf(s \o t) = KeysOf(s) \cup KeysOf(t)
<1> DEFINE m == Len(s)
           n == Len(t)
           u == s \o t
<1>1. m \in Nat /\ n \in Nat /\ DOMAIN s = 1..m /\ DOMAIN t = 1..n
  BY LenProperties
<1>2. u \in Seq(S) /\ Len(u) = m + n
  BY ConcatProperties
<1>3. \A i \in 1..(m + n) : u[i] = IF i <= m THEN s[i] ELSE t[i - m]
  BY ConcatProperties
<1> HIDE DEF u, m, n
<1>4. DOMAIN u = 1..(m + n)
  BY <1>2, LenProperties
<1>5. ASSUME NEW i \in DOMAIN s PROVE s[i].key \in KeysOf(u)
  <2>1. i \in 1..(m + n) /\ i <= m
    BY <1>1
  <2>2. u[i] = s[i]
    BY <1>3, <2>1
  <2> QED BY <1>4, <2>1, <2>2 DEF KeysOf
<1>6. ASSUME NEW i \in DOMAIN t PROVE t[i].key \in KeysOf(u)
  <2> DEFINE j == m + i
  <2>1. j \in 1..(m + n) /\ ~(j <= m) /\ j - m = i
    BY <1>1
  <2> HIDE DEF j
  <2>2. u[j] = t[i]
    BY <1>3, <2>1
  <2> QED BY <1>4, <2>1, <2>2 DEF KeysOf
<1>7. ASSUME NEW i \in DOMAIN u PROVE u[i].key \in KeysOf(s) \cup KeysOf(t)
  <2>1. i \in 1..(m + n)
    BY <1>4
  <2>2. CASE i <= m
    <3>1. i \in DOMAIN s /\ u[i] = s[i]
      BY <1>1, <1>3, <2>1, <2>2
    <3> QED BY <3>1 DEF KeysOf
  <2>3. CASE ~(i <= m)
    <3>1. i - m \in DOMAIN t /\ u[i] = t[i - m]
      BY <1>1, <1>3, <2>1, <2>3
    <3> QED BY <3>1 DEF KeysOf
  <2> QED BY <2>2, <2>3
<1>8. KeysOf(u) = KeysOf(s) \cup KeysOf(t)
  BY <1>5, <1>6, <1>7 DEF KeysOf
<1> QED BY <1>8 DEF u

\* ToKeyValue's pairs: fit for ToMetadata, their keys those that have values,
\* and for each key they add up to the values of all its spellings.
LEMMA PairsKept ==
  ASSUME NEW md, NEW order \in Seq(Keys),
         \A i \in 1..Len(order) : md[order[i]] \in Seq(Values)
  PROVE  LET kvs == ToKeyValue(md, order) IN
         /\ kvs \in Seq(WirePairs)
         /\ KeysOf(kvs) = {order[i] : i \in {j \in 1..Len(order) : md[order[j]] # <<>>}}
         /\ \A k : Selected(kvs, k) =
              FlattenSeq([i \in DOMAIN order |->
                             IF lower(order[i]) = k THEN md[order[i]] ELSE <<>>])
<1> DEFINE n == Len(order)
           P == [i \in DOMAIN order |-> PairsOf(order[i], md[order[i]])]
           K(m) == FlattenSeq(SubSeq(P, 1, m))
<1>1. n \in Nat /\ DOMAIN order = 1..n /\ \A i \in 1..n : order[i] \in Keys
  BY LenProperties, ElementOfSeq
<1>2. \A i \in 1..n : md[order[i]] \in Seq(Values)
  OBVIOUS
<1> HIDE DEF n
<1>3. \A i \in 1..n : PairsOf(order[i], md[order[i]]) \in Seq(WirePairs)
  BY <1>1, <1>2, PairsOfType
<1>4. P \in Seq(Seq(WirePairs)) /\ Len(P) = n
  <2>1. P = [i \in 1..n |-> PairsOf(order[i], md[order[i]])]
    BY <1>1
  <2> HIDE DEF P
  <2> QED BY <1>1, <1>3, <2>1
<1>5. \A i \in 1..n : P[i] = PairsOf(order[i], md[order[i]])
  BY <1>1
<1>6. ToKeyValue(md, order) = FlattenSeq(P)
  BY DEF ToKeyValue, PairsOf, PairOf
<1> HIDE DEF P
<1>7. P = SubSeq(P, 1, n)
  BY <1>4, SubSeqFull
<1>8. K(0) = <<>>
  <2>1. SubSeq(P, 1, 0) = <<>>
    BY SubSeqEmpty
  <2> QED BY <2>1, FlattenEmpty
<1>9. ASSUME NEW m \in 0..n PROVE K(m) \in Seq(WirePairs)
  <2>1. SubSeq(P, 1, m) \in Seq(Seq(WirePairs))
    BY <1>4, TakeFirst
  <2> QED BY <2>1, FlattenType
<1>10. ASSUME NEW m \in 1..n PROVE K(m) = K(m - 1) \o PairsOf(order[m], md[order[m]])
  <2>1. m - 1 \in 0..n
    BY <1>1
  <2> DEFINE p == SubSeq(P, 1, m - 1)
  <2>2. SubSeq(P, 1, m) = Append(p, P[m])
    BY <1>4, PrefixStep
  <2>3. p \in Seq(Seq(WirePairs))
    BY <1>4, <2>1, TakeFirst
  <2>4. P[m] \in Seq(WirePairs) /\ P[m] = PairsOf(order[m], md[order[m]])
    BY <1>3, <1>5
  <2> HIDE DEF p
  <2>5. FlattenSeq(Append(p, P[m])) = FlattenSeq(p) \o P[m]
    BY <2>3, <2>4, FlattenAppend
  <2> QED BY <2>2, <2>4, <2>5 DEF p
<1> HIDE DEF K
<1>11. K(n) = ToKeyValue(md, order)
  BY <1>6, <1>7 DEF K
<1>12. \A m \in 0..n :
         KeysOf(K(m)) = {order[i] : i \in {j \in 1..m : md[order[j]] # <<>>}}
  <2> DEFINE had(m) == {order[i] : i \in {j \in 1..m : md[order[j]] # <<>>}}
             T == {m \in 0..n : KeysOf(K(m)) = had(m)}
  <2>1. 0 \in T
    <3>1. KeysOf(<<>>) = {}
      BY DEF KeysOf
    <3>2. had(0) = {}
      OBVIOUS
    <3> HIDE DEF had
    <3>3. 0 \in 0..n
      BY <1>1
    <3>4. KeysOf(K(0)) = had(0)
      BY <1>8, <3>1, <3>2
    <3> QED BY <3>3, <3>4
  <2>2. ASSUME NEW m \in 1..n, m - 1 \in T PROVE m \in T
    <3> DEFINE o == order[m]
               ps == PairsOf(o, md[o])
    <3>1. /\ m \in 0..n /\ m - 1 \in 0..n
          /\ \A j : j \in 1..m <=> j \in 1..(m - 1) \/ j = m
      BY <1>1
    <3>2. KeysOf(ps) = IF md[o] # <<>> THEN {o} ELSE {}
      <4> DEFINE vs == md[o]
      <4>1. vs \in Seq(Values)
        BY <1>2
      <4>2. DOMAIN ps = DOMAIN vs /\ \A j \in DOMAIN ps : ps[j].key = o
        BY DEF PairsOf, PairOf
      <4>3. DOMAIN vs = {} <=> vs = <<>>
        <5> HIDE DEF vs
        <5>1. Len(vs) \in Nat /\ DOMAIN vs = 1..Len(vs)
          BY <4>1, LenProperties
        <5>2. vs # <<>> => Len(vs) \in Nat \ {0}
          BY <4>1, EmptySeq
        <5>3. vs # <<>> => 1 \in DOMAIN vs
          BY <5>1, <5>2
        <5>4. vs = <<>> => DOMAIN vs = {}
          OBVIOUS
        <5> QED BY <5>3, <5>4
      <4> HIDE DEF vs, ps
      <4>4. KeysOf(ps) = IF vs # <<>> THEN {o} ELSE {}
        BY <4>2, <4>3 DEF KeysOf
      <4> QED BY <4>4 DEF vs
    <3>3. ps \in Seq(WirePairs) /\ K(m - 1) \in Seq(WirePairs)
      BY <1>3, <1>9, <3>1
    <3>4. KeysOf(K(m)) = KeysOf(K(m - 1)) \cup KeysOf(ps)
      <4>1. K(m) = K(m - 1) \o ps
        BY <1>10
      <4> HIDE DEF ps
      <4>2. KeysOf(K(m - 1) \o ps) = KeysOf(K(m - 1)) \cup KeysOf(ps)
        BY <3>3, KeysOfConcat
      <4> QED BY <4>1, <4>2
    <3>5. KeysOf(K(m - 1)) = had(m - 1)
      BY <2>2
    <3>6. had(m) = had(m - 1) \cup (IF md[o] # <<>> THEN {o} ELSE {})
      BY <3>1
    <3> HIDE DEF had, ps, o
    <3>7. KeysOf(K(m)) = had(m)
      BY <3>2, <3>4, <3>5, <3>6
    <3> QED BY <3>1, <3>7
  <2>3. 0..n \subseteq T
    <3> HIDE DEF T
    <3> QED BY <1>1, <2>1, <2>2, InductionUpTo
  <2> QED BY <2>3
<1>13. ASSUME NEW k
       PROVE  Selected(ToKeyValue(md, order), k) =
                FlattenSeq([i \in DOMAIN order |->
                               IF lower(order[i]) = k THEN md[order[i]] ELSE <<>>])
  <2> DEFINE own(o) == IF lower(o) = k THEN md[o] ELSE <<>>
             V == [i \in DOMAIN order |-> own(order[i])]
             W(m) == FlattenSeq(SubSeq(V, 1, m))
             T == {m \in 0..n : Selected(K(m), k) = W(m)}
  <2>1. V \in Seq(Seq(Values)) /\ Len(V) = n
    <3>1. \A i \in 1..n : own(order[i]) \in Seq(Values)
      BY <1>2, EmptySeq
    <3> HIDE DEF own
    <3>2. V = [i \in 1..n |-> own(order[i])]
      BY <1>1
    <3> HIDE DEF V
    <3> QED BY <1>1, <3>1, <3>2
  <2>2. \A i \in 1..n : V[i] = own(order[i])
    BY <1>1
  <2> HIDE DEF V
  <2>3. 0 \in T
    <3>1. SubSeq(V, 1, 0) = <<>>
      BY SubSeqEmpty
    <3>2. W(0) = <<>>
      BY <3>1, FlattenEmpty
    <3>3. DOMAIN <<>> = {}
      OBVIOUS
    <3>4. [i \in DOMAIN <<>> |-> Added(<<>>[i], k)] = <<>>
      BY <3>3
    <3>5. Selected(<<>>, k) = <<>>
      BY <3>4, FlattenEmpty DEF Selected
    <3> HIDE DEF W
    <3> QED BY <1>1, <1>8, <3>2, <3>5
  <2>4. ASSUME NEW m \in 1..n, m - 1 \in T PROVE m \in T
    <3> DEFINE o == order[m]
               ps == PairsOf(o, md[o])
               v == SubSeq(V, 1, m - 1)
    <3>1. m \in 0..n /\ m - 1 \in 0..n
      BY <1>1
    <3>2. K(m - 1) \in Seq(WirePairs) /\ o \in Keys /\ md[o] \in Seq(Values)
      BY <1>1, <1>2, <1>9, <3>1
    <3>3. K(m) = K(m - 1) \o ps
      BY <1>10
    <3>4. Selected(K(m - 1) \o ps, k) = Selected(K(m - 1), k) \o own(o)
      <4> DEFINE s == K(m - 1)
                 vs == md[o]
      <4>1. s \in Seq(WirePairs) /\ o \in Keys /\ vs \in Seq(Values)
        BY <3>2
      <4> HIDE DEF o, s, vs
      <4>2. Selected(s \o PairsOf(o, vs), k) =
              Selected(s, k) \o (IF lower(o) = k THEN vs ELSE <<>>)
        BY <4>1, SelectedPairs
      <4> QED BY <4>2 DEF s, vs
    <3>5. SubSeq(V, 1, m) = Append(v, V[m])
      BY <2>1, PrefixStep
    <3>6. v \in Seq(Seq(Values))
      BY <2>1, <3>1, TakeFirst
    <3>7. V[m] = own(o) /\ V[m] \in Seq(Values)
      BY <2>1, <2>2, ElementOfSeq
    <3> HIDE DEF v, own
    <3>8. FlattenSeq(Append(v, V[m])) = FlattenSeq(v) \o V[m]
      BY <3>6, <3>7, FlattenAppend
    <3>9. W(m) = W(m - 1) \o own(o)
      BY <3>5, <3>7, <3>8 DEF v
    <3>10. Selected(K(m - 1), k) = W(m - 1)
      BY <2>4
    <3> HIDE DEF W
    <3>11. Selected(K(m), k) = W(m)
      BY <3>3, <3>4, <3>9, <3>10
    <3> QED BY <3>1, <3>11
  <2>5. 0..n \subseteq T
    <3> HIDE DEF T
    <3> QED BY <1>1, <2>3, <2>4, InductionUpTo
  <2>6. n \in 0..n
    BY <1>1
  <2>7. Selected(K(n), k) = W(n)
    BY <2>5, <2>6
  <2>8. W(n) = FlattenSeq(V)
    BY <2>1, SubSeqFull
  <2> QED BY <1>11, <2>7, <2>8 DEF V
<1>14. n \in 0..n
  BY <1>1
<1>15. ToKeyValue(md, order) \in Seq(WirePairs)
  BY <1>9, <1>11, <1>14
<1>16. KeysOf(ToKeyValue(md, order)) =
         {order[i] : i \in {j \in 1..Len(order) : md[order[j]] # <<>>}}
  BY <1>11, <1>12, <1>14 DEF n
<1> QED BY <1>13, <1>15, <1>16

\* MetadataKept, for any keys, values and order.
LEMMA MetadataOfInput ==
  ASSUME input \in MetadataInputs PROVE MetadataKept
<1> DEFINE md == input.md
           order == input.order
           kvs == ToKeyValue(md, order)
<1>1. PICK ks \in SUBSET Keys :
           /\ IsFiniteSet(ks)
           /\ input \in [of : {"metadata"}, md : [ks -> Lists], order : Orders(ks)]
  BY DEF MetadataInputs
<1>2. md \in [ks -> Lists] /\ order \in Orders(ks)
  BY <1>1
<1> HIDE DEF md, order
<1> DEFINE n == Cardinality(ks)
<1>3. n \in Nat
  BY <1>1, FS_CardinalityType
<1>4. order \in [1..n -> ks] /\ \A p \in ks : \E i \in 1..n : order[i] = p
  BY <1>2 DEF Orders
<1> HIDE DEF n
<1>5. order \in Seq(Keys) /\ Len(order) = n /\ DOMAIN order = 1..n
  BY <1>3, <1>4
<1>6. Lists \subseteq Seq(Values)
  <2>1. ASSUME NEW m \in 0..MaxValues, NEW vs \in [1..m -> Values]
        PROVE  vs \in Seq(Values)
    <3>1. m \in Nat
      BY InputBounds
    <3> QED BY <3>1
  <2> QED BY <2>1 DEF Lists
<1>7. DOMAIN md = ks /\ \A p \in ks : md[p] \in Seq(Values)
  BY <1>2, <1>6
<1>8. \A i \in 1..Len(order) : md[order[i]] \in Seq(Values)
  BY <1>4, <1>5, <1>7
<1>9. /\ kvs \in Seq(WirePairs)
      /\ KeysOf(kvs) = {order[i] : i \in {j \in 1..Len(order) : md[order[j]] # <<>>}}
      /\ \A k : Selected(kvs, k) =
              FlattenSeq([i \in DOMAIN order |->
                             IF lower(order[i]) = k THEN md[order[i]] ELSE <<>>])
  BY <1>5, <1>8, PairsKept
<1> HIDE DEF kvs
<1>10. ~ \E i \in DOMAIN kvs : lower(kvs[i].key).bin /\ ~kvs[i].value.b64
  <2> SUFFICES ASSUME NEW i \in DOMAIN kvs
               PROVE  lower(kvs[i].key).bin => kvs[i].value.b64
    OBVIOUS
  <2>1. kvs[i] \in WirePairs
    <3>1. DOMAIN kvs = 1..Len(kvs)
      BY <1>9, LenProperties
    <3> QED BY <1>9, <3>1, ElementOfSeq
  <2>2. kvs[i].key \in Keys /\ (kvs[i].key.bin => kvs[i].value.b64)
    BY <2>1 DEF WirePairs
  <2>3. lower(kvs[i].key).bin = kvs[i].key.bin
    BY <2>2 DEF lower, Keys
  <2> QED BY <2>2, <2>3
<1> DEFINE got == {lower(kvs[i].key) : i \in DOMAIN kvs}
           sent == {lower(o) : o \in {p \in DOMAIN md : md[p] # <<>>}}
<1>11. got = sent
  <2>1. KeysOf(kvs) = {p \in ks : md[p] # <<>>}
    <3>1. ASSUME NEW p \in KeysOf(kvs) PROVE p \in ks /\ md[p] # <<>>
      BY <1>4, <1>5, <1>9
    <3>2. ASSUME NEW p \in ks, md[p] # <<>> PROVE p \in KeysOf(kvs)
      <4>1. PICK i \in 1..n : order[i] = p
        BY <1>4
      <4>2. i \in {j \in 1..Len(order) : md[order[j]] # <<>>}
        BY <1>5, <3>2, <4>1
      <4> QED BY <1>9, <4>1, <4>2
    <3> QED BY <3>1, <3>2
  <2>2. got = {lower(o) : o \in KeysOf(kvs)}
    BY DEF KeysOf
  <2> HIDE DEF got
  <2> QED BY <1>7, <2>1, <2>2
<1> DEFINE read(k) == FlattenSeq([i \in DOMAIN kvs |-> Added(kvs[i], k)])
           want(k) == FlattenSeq([i \in DOMAIN order |->
                             IF lower(order[i]) = k THEN md[order[i]] ELSE <<>>])
<1>12. ASSUME NEW k PROVE read(k) = want(k)
  BY <1>9 DEF Selected
<1>13. ToMetadata(kvs) = {[k \in got |-> read(k)]}
  BY <1>10 DEF ToMetadata
<1>14. MetadataKept <=>
         (input.of = "metadata" => ToMetadata(kvs) = {[k \in sent |-> want(k)]})
  BY DEF MetadataKept, md, order, kvs
<1> HIDE DEF got, sent, read, want
<1>15. [k \in got |-> read(k)] = [k \in sent |-> want(k)]
  BY <1>11, <1>12
<1> QED BY <1>13, <1>14, <1>15

-----------------------------------------------------------------------------
\* Routes.

\* A request has recorded the proxies it came by, in their order.
LEMMA RecordIsPath ==
  ASSUME NEW S, NEW path \in Seq(S)
  PROVE  Record(path) = path
<1> DEFINE n == Len(path)
           Rec(f) == [k \in 0..n |-> IF k = 0 THEN <<>>
                                     ELSE Append(f[k - 1], path[k])]
           F == [k \in 0..n |-> SubSeq(path, 1, k)]
           rec == CHOOSE f : f = Rec(f)
<1>1. n \in Nat
  BY LenProperties
<1>2. F = Rec(F)
  <2>1. SubSeq(path, 1, 0) = <<>>
    BY SubSeqEmpty
  <2>2. ASSUME NEW k \in 0..n, k # 0
        PROVE  SubSeq(path, 1, k) = Append(F[k - 1], path[k])
    <3>1. k \in 1..n /\ k - 1 \in 0..n
      BY <1>1, <2>2
    <3>2. F[k - 1] = SubSeq(path, 1, k - 1)
      BY <3>1
    <3> HIDE DEF F
    <3> QED BY <3>1, <3>2, PrefixStep
  <2> QED BY <2>1, <2>2
<1>3. rec = Rec(rec)
  <2> HIDE DEF Rec, F
  <2> QED BY <1>2
<1> HIDE DEF F, rec, n
<1>4. rec[0] = F[0]
  <2>1. 0 \in 0..n
    BY <1>1
  <2> QED BY <1>2, <1>3, <2>1
<1>5. ASSUME NEW k \in 1..n, rec[k - 1] = F[k - 1] PROVE rec[k] = F[k]
  <2>1. k \in 0..n /\ k # 0
    BY <1>1
  <2>2. rec[k] = Append(rec[k - 1], path[k])
    BY <1>3, <2>1
  <2>3. F[k] = Append(F[k - 1], path[k])
    BY <1>2, <2>1
  <2> QED BY <1>5, <2>2, <2>3
<1>6. rec[n] = F[n]
  <2>1. \A k \in 0..n : rec[k] = F[k]
    <3> DEFINE A == {k \in 0..n : rec[k] = F[k]}
    <3>1. 0 \in A
      BY <1>1, <1>4
    <3>2. ASSUME NEW k \in 1..n, k - 1 \in A PROVE k \in A
      BY <1>1, <1>5, <3>2
    <3>3. 0..n \subseteq A
      <4> HIDE DEF A
      <4> QED BY <1>1, <3>1, <3>2, InductionUpTo
    <3> QED BY <3>3
  <2>2. n \in 0..n
    BY <1>1
  <2> QED BY <2>1, <2>2
<1>7. F[n] = path
  BY <1>1, SubSeqFull DEF F, n
<1> QED BY <1>6, <1>7 DEF Record, rec, n

\* The ProxyNext of a reply that has passed k proxies after the first of its
\* way back, and the proxies it has passed.
NextAfter(path, transport, k) ==
    IF k = Len(path) - 1 /\ transport = "marshalled" THEN Absent
    ELSE SubSeq(path, 1, Len(path) - 1 - k)

VisitedAfter(path, k) == [i \in 1..(k + 1) |-> path[Len(path) - i + 1]]

\* A route that names proxies is not the absent one.
LEMMA NotAbsent ==
  ASSUME NEW s \in Seq(Proxies), s # <<>>
  PROVE  s # Absent
<1>1. Len(s) \in Nat \ {0}
  BY EmptySeq
<1>2. s[1] \in Proxies
  BY <1>1, ElementOfSeq
<1>3. Absent[1] = "absent"
  BY DEF Absent
<1> QED BY <1>2, <1>3, AbsentIsNoProxy

\* No ProxyNext is not an empty one.
LEMMA AbsentNotEmpty == Absent # <<>>
  BY DEF Absent

\* A reply that names no proxy is delivered; one that names an empty list of
\* them is the end of the proxy.
LEMMA HopEnds ==
  ASSUME NEW r, NEW transport, r.end = "no"
  PROVE  /\ r.next = Absent => Hop(r, transport) = [r EXCEPT !.end = "delivered"]
         /\ r.next = <<>> => Hop(r, transport) = [r EXCEPT !.end = "panic"]
<1>1. r.next = Absent => Hop(r, transport) = [r EXCEPT !.end = "delivered"]
  BY AbsentNotEmpty DEF Hop
<1>2. r.next = <<>> => Hop(r, transport) = [r EXCEPT !.end = "panic"]
  BY AbsentNotEmpty DEF Hop
<1> QED BY <1>1, <1>2

\* One hop of a reply on its way: it passes the next proxy.
LEMMA HopForward ==
  ASSUME NEW path \in Seq(Proxies), NEW transport, NEW k \in 1..(Len(path) - 1)
  PROVE  Hop([end |-> "no", next |-> NextAfter(path, transport, k - 1),
              visited |-> VisitedAfter(path, k - 1)], transport)
         = [end |-> "no", next |-> NextAfter(path, transport, k),
            visited |-> VisitedAfter(path, k)]
<1> DEFINE n == Len(path)
           m == n - k
           nx == SubSeq(path, 1, m)
           r == [end |-> "no", next |-> NextAfter(path, transport, k - 1),
                 visited |-> VisitedAfter(path, k - 1)]
<1>0. n \in Nat /\ k \in 1..(n - 1)
  BY LenProperties
<1> HIDE DEF n
<1>1. /\ m \in 1..n /\ m \in 0..n /\ m - 1 \in 0..n /\ m \in Nat
      /\ k - 1 # n - 1 /\ (k = n - 1 <=> m - 1 = 0)
      /\ n - 1 - (k - 1) = m /\ n - 1 - k = m - 1
      /\ k \in Nat /\ (k - 1) + 1 = k /\ n - (k + 1) + 1 = m
  BY <1>0
<1> HIDE DEF m
<1>2. NextAfter(path, transport, k - 1) = nx
  BY <1>1 DEF NextAfter, n
<1>3. nx \in Seq(Proxies) /\ Len(nx) = m /\ \A i \in 1..m : nx[i] = path[i]
  BY <1>1, TakeFirst DEF n
<1> HIDE DEF nx
<1>4. nx # <<>>
  BY <1>1, <1>3
<1>5. nx # Absent
  BY <1>3, <1>4, NotAbsent
<1>6. Last(nx) = path[m]
  <2>1. m \in 1..m
    BY <1>1
  <2> QED BY <1>3, <2>1 DEF Last
<1>7. Front(nx) = SubSeq(path, 1, m - 1)
  <2> DEFINE a == SubSeq(nx, 1, m - 1)
             b == SubSeq(path, 1, m - 1)
  <2>1. m - 1 \in 0..Len(nx)
    BY <1>1, <1>3
  <2>2. a \in Seq(Proxies) /\ Len(a) = m - 1 /\ \A i \in 1..(m - 1) : a[i] = nx[i]
    BY <1>3, <2>1, TakeFirst
  <2>3. b \in Seq(Proxies) /\ Len(b) = m - 1 /\ \A i \in 1..(m - 1) : b[i] = path[i]
    BY <1>1, TakeFirst DEF n
  <2> HIDE DEF a, b
  <2>4. \A i \in 1..(m - 1) : i \in 1..m
    BY <1>1
  <2>5. a = b
    BY <1>3, <2>2, <2>3, <2>4, SeqEqual
  <2> QED BY <1>3, <2>5 DEF Front, a, b
<1>8. Carried(Front(nx), transport) = NextAfter(path, transport, k)
  <2>2. SubSeq(path, 1, m - 1) = <<>> <=> m - 1 = 0
    <3>1. /\ Len(SubSeq(path, 1, m - 1)) = m - 1
          /\ SubSeq(path, 1, m - 1) \in Seq(Proxies)
      BY <1>1, TakeFirst DEF n
    <3>2. m - 1 = 0 => SubSeq(path, 1, m - 1) = <<>>
      BY SubSeqEmpty
    <3> QED BY <3>1, <3>2, EmptySeq
  <2> QED BY <1>1, <1>7, <2>2 DEF Carried, NextAfter, n
<1>9. Append(VisitedAfter(path, k - 1), path[m]) = VisitedAfter(path, k)
  <2> DEFINE u == VisitedAfter(path, k - 1)
             v == VisitedAfter(path, k)
             a == Append(u, path[m])
  <2>1. \A i \in 1..n : path[i] \in Proxies
    BY ElementOfSeq DEF n
  <2>3. \A i \in 1..(k + 1) : n - i + 1 \in 1..n
    BY <1>0
  <2>4. /\ u = [i \in 1..k |-> path[n - i + 1]]
        /\ v = [i \in 1..(k + 1) |-> path[n - i + 1]]
    BY <1>1 DEF VisitedAfter, n
  <2> HIDE DEF u, v
  <2>5. u \in Seq(Proxies) /\ Len(u) = k
    BY <2>1, <1>1, <2>3, <2>4
  <2>6. v \in Seq(Proxies) /\ Len(v) = k + 1
    BY <2>1, <1>1, <2>3, <2>4
  <2>7. path[m] \in Proxies
    BY <1>1, <2>1
  <2>8. a \in Seq(Proxies) /\ Len(a) = k + 1
    BY <1>1, <2>5, <2>7
  <2>9. \A i \in 1..(k + 1) : a[i] = IF i = k + 1 THEN path[m] ELSE u[i]
    BY <1>1, <2>5, <2>7
  <2>10. \A i \in 1..(k + 1) : a[i] = v[i]
    BY <1>1, <2>4, <2>9
  <2> HIDE DEF a
  <2>11. a = v
    BY <2>6, <2>8, <2>10, SeqEqual
  <2> QED BY <2>11 DEF a, u, v
<1>10. r.end = "no" /\ r.next = nx /\ r.visited = VisitedAfter(path, k - 1)
  BY <1>2
<1> HIDE DEF r
<1>11. Hop(r, transport) = [end |-> "no", next |-> Carried(Front(r.next), transport),
                            visited |-> Append(r.visited, Last(r.next))]
  BY <1>4, <1>5, <1>10 DEF Hop
<1> QED BY <1>6, <1>8, <1>9, <1>10, <1>11 DEF r

\* What the recursion over the hops computes, once a closed form obeys it.
LEMMA RouteIs ==
  ASSUME NEW path, NEW kind, NEW transport, NEW F, Len(path) \in Nat,
         F[0] = [end |-> "no", visited |-> <<Last(path)>>,
                 next |-> Carried(ReplyNext(Record(path), kind), transport)],
         \A k \in 1..Len(path) : F[k] = Hop(F[k - 1], transport)
  PROVE  ReplyRoute(path, kind, transport) = F[Len(path)]
<1> DEFINE n == Len(path)
           start == [end |-> "no", visited |-> <<Last(path)>>,
                     next |-> Carried(ReplyNext(Record(path), kind), transport)]
           Rec(f) == [k \in 0..n |-> IF k = 0 THEN start ELSE Hop(f[k - 1], transport)]
           G == [k \in 0..n |-> F[k]]
           after == CHOOSE f : f = Rec(f)
<1>1. n \in Nat /\ F[0] = start /\ \A k \in 1..n : F[k] = Hop(F[k - 1], transport)
  OBVIOUS
<1>2. ReplyRoute(path, kind, transport) = after[n]
  BY DEF ReplyRoute
<1> HIDE DEF n, start, after
<1>3. G = Rec(G)
  <2>1. ASSUME NEW k \in 0..n, k # 0 PROVE F[k] = Hop(G[k - 1], transport)
    <3>1. k \in 1..n /\ k - 1 \in 0..n
      BY <1>1, <2>1
    <3>2. G[k - 1] = F[k - 1]
      BY <3>1
    <3> HIDE DEF G
    <3> QED BY <1>1, <3>1, <3>2
  <2> QED BY <1>1, <2>1
<1>4. after = Rec(after)
  <2> HIDE DEF Rec, G
  <2> QED BY <1>3 DEF after
<1>5. after[0] = F[0]
  <2>1. 0 \in 0..n
    BY <1>1
  <2> QED BY <1>1, <1>4, <2>1
<1>6. ASSUME NEW k \in 1..n, after[k - 1] = F[k - 1] PROVE after[k] = F[k]
  <2>1. k \in 0..n /\ k # 0
    BY <1>1
  <2>2. after[k] = Hop(after[k - 1], transport)
    BY <1>4, <2>1
  <2> QED BY <1>1, <1>6, <2>2
<1>7. \A k \in 0..n : after[k] = F[k]
  <2> DEFINE S == {k \in 0..n : after[k] = F[k]}
  <2>1. 0 \in S
    BY <1>1, <1>5
  <2>2. ASSUME NEW k \in 1..n, k - 1 \in S PROVE k \in S
    BY <1>1, <1>6, <2>2
  <2>3. 0..n \subseteq S
    <3> HIDE DEF S
    <3> QED BY <1>1, <2>1, <2>2, InductionUpTo
  <2> QED BY <2>3
<1>8. n \in 0..n
  BY <1>1
<1> QED BY <1>2, <1>7, <1>8 DEF n

\* A reply that names no proxy is delivered by the nearest one.
LEMMA DirectRoute ==
  ASSUME NEW path \in Seq(Proxies), path # <<>>, NEW kind, NEW transport,
         kind = "stream" \/ Len(path) = 1
  PROVE  LET r == ReplyRoute(path, kind, transport) IN
         r.end = "delivered" /\ r.visited = <<Last(path)>>
<1> DEFINE n == Len(path)
           start == [end |-> "no", visited |-> <<Last(path)>>, next |-> Absent]
           home == [end |-> "delivered", visited |-> <<Last(path)>>, next |-> Absent]
           F == [k \in 0..n |-> IF k = 0 THEN start ELSE home]
<1>1. n \in Nat /\ n # 0
  BY EmptySeq
<1>2. ReplyNext(Record(path), kind) = Absent
  <2>1. Record(path) = path
    BY RecordIsPath
  <2>2. CASE kind = "stream"
    BY <2>2 DEF ReplyNext
  <2>3. CASE Len(path) = 1
    <3>1. ~(Len(path) > 1)
      BY <2>3
    <3> QED BY <2>1, <3>1 DEF ReplyNext
  <2> QED BY <2>2, <2>3
<1>3. Carried(Absent, transport) = Absent
  BY AbsentNotEmpty DEF Carried
<1>4. Hop(start, transport) = home
  <2>1. start.end = "no" /\ start.next = Absent
    OBVIOUS
  <2>2. home = [start EXCEPT !.end = "delivered"]
    OBVIOUS
  <2> HIDE DEF start, home
  <2> QED BY <2>1, <2>2, HopEnds
<1>5. Hop(home, transport) = home
  BY DEF Hop
<1> HIDE DEF n, start, home
<1>6. ASSUME NEW k \in 1..n PROVE F[k] = Hop(F[k - 1], transport)
  <2>1. k \in 0..n /\ k # 0 /\ k - 1 \in 0..n
    BY <1>1
  <2>2. F[k] = home
    BY <2>1
  <2>3. F[k - 1] = start \/ F[k - 1] = home
    BY <2>1
  <2> HIDE DEF F
  <2> QED BY <1>4, <1>5, <2>2, <2>3
<1>7. start = [end |-> "no", visited |-> <<Last(path)>>,
               next |-> Carried(ReplyNext(Record(path), kind), transport)]
  BY <1>2, <1>3 DEF start
<1>8. F[0] = start /\ F[n] = home
  BY <1>1
<1> HIDE DEF F
<1>9. ReplyRoute(path, kind, transport) = F[n]
  BY <1>1, <1>6, <1>7, <1>8, RouteIs DEF n
<1> QED BY <1>8, <1>9 DEF home

\* A reply that names its proxies comes by all of them.
LEMMA LongRoute ==
  ASSUME NEW path \in Seq(Proxies), NEW kind, NEW transport,
         kind # "stream", Len(path) > 1, transport \in {"marshalled", "memory"}
  PROVE  LET r == ReplyRoute(path, kind, transport) IN
         /\ r.visited = Reverse(path)
         /\ r.end = IF transport = "memory" THEN "panic" ELSE "delivered"
<1> DEFINE n == Len(path)
           way(k) == [end |-> "no", next |-> NextAfter(path, transport, k),
                      visited |-> VisitedAfter(path, k)]
           home == [end |-> IF transport = "memory" THEN "panic" ELSE "delivered",
                    next |-> NextAfter(path, transport, n - 1),
                    visited |-> VisitedAfter(path, n - 1)]
           F == [k \in 0..n |-> IF k = n THEN home ELSE way(k)]
<1>1. n \in Nat /\ n > 1
  BY LenProperties
<1>2. way(0) = [end |-> "no", visited |-> <<Last(path)>>,
               next |-> Carried(ReplyNext(Record(path), kind), transport)]
  <2>1. ReplyNext(Record(path), kind) = SubSeq(path, 1, n - 1)
    BY RecordIsPath DEF ReplyNext, Front
  <2>2. /\ SubSeq(path, 1, n - 1) \in Seq(Proxies)
        /\ Len(SubSeq(path, 1, n - 1)) = n - 1
    <3>1. n - 1 \in 0..n
      BY <1>1
    <3> QED BY <3>1, TakeFirst
  <2> HIDE DEF n
  <2>3. SubSeq(path, 1, n - 1) # <<>>
    BY <1>1, <2>2
  <2>4. Carried(ReplyNext(Record(path), kind), transport) = SubSeq(path, 1, n - 1)
    BY <2>1, <2>3 DEF Carried
  <2>5. n - 1 - 0 = n - 1 /\ 0 # n - 1 /\ n - 1 + 1 = n
    BY <1>1
  <2>6. NextAfter(path, transport, 0) = SubSeq(path, 1, n - 1)
    BY <2>5 DEF NextAfter, n
  <2>7. VisitedAfter(path, 0) = <<Last(path)>>
    BY <2>5 DEF VisitedAfter, Last, n
  <2> QED BY <2>4, <2>6, <2>7
<1>3. ASSUME NEW k \in 1..(n - 1) PROVE Hop(way(k - 1), transport) = way(k)
  BY HopForward
<1>4. Hop(way(n - 1), transport) = home
  <2> DEFINE r == way(n - 1)
  <2>1. r.next = IF transport = "marshalled" THEN Absent ELSE <<>>
    <3>1. n - 1 - (n - 1) = 0
      BY <1>1
    <3>2. SubSeq(path, 1, 0) = <<>>
      BY SubSeqEmpty
    <3> QED BY <3>1, <3>2 DEF NextAfter
  <2>3. /\ r.end = "no" /\ r.next = NextAfter(path, transport, n - 1)
        /\ r.visited = VisitedAfter(path, n - 1)
    OBVIOUS
  <2>4. home = [r EXCEPT !.end = IF transport = "memory" THEN "panic" ELSE "delivered"]
    OBVIOUS
  <2> HIDE DEF r, home, n
  <2>5. ASSUME transport = "marshalled" PROVE Hop(r, transport) = home
    BY <2>1, <2>3, <2>4, <2>5, HopEnds
  <2>6. ASSUME transport = "memory" PROVE Hop(r, transport) = home
    BY <2>1, <2>3, <2>4, <2>6, HopEnds
  <2>7. Hop(r, transport) = home
    BY <2>5, <2>6
  <2> QED BY <2>7 DEF r
<1>5. home.visited = Reverse(path)
  <2>1. n - 1 + 1 = n
    BY <1>1
  <2> QED BY <2>1 DEF VisitedAfter, Reverse
<1>6. home.end = IF transport = "memory" THEN "panic" ELSE "delivered"
  OBVIOUS
<1> HIDE DEF n, home, way
<1>7. ASSUME NEW k \in 1..n PROVE F[k] = Hop(F[k - 1], transport)
  <2>1. k \in 0..n /\ k - 1 \in 0..n /\ k - 1 # n
    BY <1>1
  <2>2. F[k] = (IF k = n THEN home ELSE way(k)) /\ F[k - 1] = way(k - 1)
    BY <2>1
  <2>3. k # n => k \in 1..(n - 1)
    BY <1>1
  <2> HIDE DEF F
  <2> QED BY <1>3, <1>4, <2>2, <2>3
<1>8. F[0] = way(0) /\ F[n] = home
  BY <1>1
<1> HIDE DEF F
<1>9. ReplyRoute(path, kind, transport) = F[n]
  BY <1>1, <1>2, <1>7, <1>8, RouteIs DEF n
<1> QED BY <1>5, <1>6, <1>8, <1>9

-----------------------------------------------------------------------------
\* Chains.

\* Where the run that begins with interceptor k ends: at the first that does
\* not call its handler, or at the method's own, counted as n + 1.
IsEnd(n, stops, k, e) ==
    /\ e \in stops \cup {n + 1} /\ e >= k
    /\ \A f \in stops \cup {n + 1} : f >= k => e <= f

EndOf(n, stops, k) == CHOOSE e \in Nat : IsEnd(n, stops, k, e)

\* Who runs from interceptor k on, in closed form.
RunFrom(n, stops, k) ==
    [i \in 1..(EndOf(n, stops, k) - k + 1) |->
        IF k + i - 1 > n THEN Final ELSE k + i - 1]

\* A run has one end.
LEMMA EndUnique ==
  ASSUME NEW n \in Nat, NEW stops \in SUBSET (1..n), NEW k \in 1..(n + 1),
         NEW e \in Nat, IsEnd(n, stops, k, e)
  PROVE  EndOf(n, stops, k) = e
<1>1. ASSUME NEW f \in Nat, IsEnd(n, stops, k, f) PROVE e = f
  BY <1>1 DEF IsEnd
<1> QED BY <1>1 DEF EndOf

\* A run has an end.
LEMMA EndExists ==
  ASSUME NEW n \in Nat, NEW stops \in SUBSET (1..n), NEW k \in 1..(n + 1)
  PROVE  /\ EndOf(n, stops, k) \in k..(n + 1)
         /\ IsEnd(n, stops, k, EndOf(n, stops, k))
<1> DEFINE S == {e \in stops \cup {n + 1} : e >= k}
<1>1. S \subseteq Nat /\ n + 1 \in S
  <2>1. stops \subseteq Nat /\ n + 1 \in Nat /\ n + 1 >= k
    OBVIOUS
  <2> QED BY <2>1
<1>2. PICK e \in S : \A f \in S : e <= f
  <2> HIDE DEF S
  <2> QED BY <1>1, Least
<1>3. e \in Nat /\ IsEnd(n, stops, k, e)
  BY <1>1, <1>2 DEF IsEnd
<1>4. EndOf(n, stops, k) = e
  BY <1>3, EndUnique
<1> QED BY <1>3, <1>4 DEF IsEnd

\* A run is its first interceptor and, if that calls its handler, the run from
\* the next one.
LEMMA RunStep ==
  ASSUME NEW n \in Nat, NEW stops \in SUBSET (1..n), NEW k \in 1..n
  PROVE  RunFrom(n, stops, k) = Intercept(k, stops, RunFrom(n, stops, k + 1))
<1> DEFINE e == EndOf(n, stops, k)
           f == EndOf(n, stops, k + 1)
           R == RunFrom(n, stops, k)
           Q == RunFrom(n, stops, k + 1)
<1>1. CASE k \in stops
  <2>1. IsEnd(n, stops, k, k)
    BY <1>1 DEF IsEnd
  <2>2. e = k
    BY <2>1, EndUnique
  <2>3. k - k + 1 = 1 /\ k + 1 - 1 = k
    OBVIOUS
  <2>4. R = [i \in 1..1 |-> IF k + i - 1 > n THEN Final ELSE k + i - 1]
    BY <2>2, <2>3 DEF RunFrom
  <2>5. R = <<k>>
    BY <2>3, <2>4
  <2> QED BY <1>1, <2>5 DEF Intercept
<1>2. CASE k \notin stops
  <2>1. f \in (k + 1)..(n + 1) /\ IsEnd(n, stops, k + 1, f)
    BY EndExists
  <2>2. IsEnd(n, stops, k, f)
    BY <1>2, <2>1 DEF IsEnd
  <2>3. e = f
    BY <2>1, <2>2, EndUnique
  <2> HIDE DEF e, f
  <2>4. R = [i \in 1..(f - k + 1) |-> IF k + i - 1 > n THEN Final ELSE k + i - 1]
    BY <2>3 DEF RunFrom, e
  <2>5. Q = [i \in 1..(f - k) |-> IF k + i > n THEN Final ELSE k + i]
    <3>1. f - (k + 1) + 1 = f - k
      BY <2>1
    <3>2. \A i \in Nat : (k + 1) + i - 1 = k + i
      OBVIOUS
    <3> QED BY <3>1, <3>2 DEF RunFrom, f
  <2> HIDE DEF R, Q
  <2>6. f - k \in Nat
    BY <2>1
  <2>7. Q \in Seq(Nat) /\ Len(Q) = f - k
    BY <2>5, <2>6 DEF Final
  <2>8. R \in Seq(Nat) /\ Len(R) = f - k + 1
    BY <2>4, <2>6 DEF Final
  <2>9. <<k>> \in Seq(Nat) /\ Len(<<k>>) = 1 /\ <<k>>[1] = k
    OBVIOUS
  <2>10. /\ <<k>> \o Q \in Seq(Nat) /\ Len(<<k>> \o Q) = f - k + 1
         /\ \A i \in 1..(f - k + 1) :
                (<<k>> \o Q)[i] = IF i = 1 THEN k ELSE Q[i - 1]
    BY <2>6, <2>7, <2>9
  <2>11. \A i \in 1..(f - k + 1) : R[i] = (<<k>> \o Q)[i]
    BY <2>4, <2>5, <2>6, <2>10
  <2>12. R = <<k>> \o Q
    <3> HIDE DEF Q
    <3> DEFINE P == <<k>> \o Q
    <3>1. P \in Seq(Nat) /\ Len(P) = Len(R)
      BY <2>8, <2>10
    <3>2. \A i \in 1..Len(R) : R[i] = P[i]
      BY <2>8, <2>11
    <3> HIDE DEF P
    <3>3. R = P
      BY <2>8, <3>1, <3>2
    <3> QED BY <3>3 DEF P
  <2> QED BY <1>2, <2>12 DEF Intercept, R, Q
<1> QED BY <1>1, <1>2

\* After the last interceptor there is only the final handler.
LEMMA RunLast ==
  ASSUME NEW n \in Nat, NEW stops \in SUBSET (1..n)
  PROVE  RunFrom(n, stops, n + 1) = <<Final>>
<1>1. IsEnd(n, stops, n + 1, n + 1)
  BY DEF IsEnd
<1>2. EndOf(n, stops, n + 1) = n + 1
  BY <1>1, EndUnique
<1>3. (n + 1) - (n + 1) + 1 = 1 /\ (n + 1) + 1 - 1 > n
  OBVIOUS
<1>4. RunFrom(n, stops, n + 1) =
        [i \in 1..1 |-> IF (n + 1) + i - 1 > n THEN Final ELSE (n + 1) + i - 1]
  BY <1>2, <1>3 DEF RunFrom
<1> QED BY <1>3, <1>4

\* The handler given to the first interceptor runs the others.
LEMMA ChainClosed ==
  ASSUME NEW n \in Nat \ {0}, NEW stops \in SUBSET (1..n)
  PROVE  getChainHandler(n, stops) = RunFrom(n, stops, 2)
<1> DEFINE Rec(f) == [c \in 0..(n - 1) |->
                        IF c = n - 1 THEN <<Final>>
                        ELSE Intercept(c + 2, stops, f[c + 1])]
           F == [c \in 0..(n - 1) |-> RunFrom(n, stops, c + 2)]
           from == CHOOSE f : f = Rec(f)
<1>1. F = Rec(F)
  <2>1. ASSUME NEW c \in 0..(n - 1), c = n - 1
        PROVE  RunFrom(n, stops, c + 2) = <<Final>>
    <3>1. c + 2 = n + 1
      BY <2>1
    <3> QED BY <3>1, RunLast
  <2>2. ASSUME NEW c \in 0..(n - 1), c # n - 1
        PROVE  RunFrom(n, stops, c + 2) = Intercept(c + 2, stops, F[c + 1])
    <3>1. c + 2 \in 1..n /\ c + 1 \in 0..(n - 1) /\ (c + 1) + 2 = (c + 2) + 1
      BY <2>2
    <3>2. F[c + 1] = RunFrom(n, stops, (c + 2) + 1)
      BY <3>1
    <3> HIDE DEF F
    <3> QED BY <3>1, <3>2, RunStep
  <2> QED BY <2>1, <2>2
<1>2. from = Rec(from)
  <2> HIDE DEF Rec, F
  <2> QED BY <1>1
<1> HIDE DEF F, from
<1>3. \A j \in Nat : j <= n - 1 => from[n - 1 - j] = F[n - 1 - j]
  <2> DEFINE S == {j \in Nat : j <= n - 1 => from[n - 1 - j] = F[n - 1 - j]}
  <2>1. 0 \in S
    <3>1. n - 1 - 0 = n - 1 /\ n - 1 \in 0..(n - 1)
      OBVIOUS
    <3>2. from[n - 1] = <<Final>> /\ F[n - 1] = <<Final>>
      BY <1>1, <1>2, <3>1
    <3> QED BY <3>1, <3>2
  <2>2. ASSUME NEW j \in Nat, j \in S PROVE j + 1 \in S
    <3> SUFFICES ASSUME j + 1 <= n - 1
                 PROVE  from[n - 1 - (j + 1)] = F[n - 1 - (j + 1)]
      OBVIOUS
    <3> DEFINE c == n - 1 - (j + 1)
    <3>1. c \in 0..(n - 1) /\ c # n - 1 /\ c + 1 = n - 1 - j
      OBVIOUS
    <3>2. from[c + 1] = F[c + 1]
      BY <2>2, <3>1
    <3> HIDE DEF c
    <3>3. /\ from[c] = Intercept(c + 2, stops, from[c + 1])
          /\ F[c] = Intercept(c + 2, stops, F[c + 1])
      BY <1>1, <1>2, <3>1
    <3>4. from[c] = F[c]
      BY <3>2, <3>3
    <3> QED BY <3>4 DEF c
  <2>3. Nat \subseteq S
    <3> HIDE DEF S
    <3> QED BY <2>1, <2>2, Induction
  <2> QED BY <2>3
<1>4. from[0] = F[0]
  <2>1. n - 1 \in Nat /\ n - 1 - (n - 1) = 0
    OBVIOUS
  <2> QED BY <1>3, <2>1
<1>5. F[0] = RunFrom(n, stops, 2)
  BY DEF F
<1> QED BY <1>4, <1>5 DEF getChainHandler, from

\* ChainInOrder, for any number of interceptors.
LEMMA ChainRuns ==
  ASSUME NEW n \in Nat \ {0}, NEW stops \in SUBSET (1..n)
  PROVE  LET ran == ChainInterceptor(n, stops) IN
         /\ \A i \in 1..Len(ran) : ran[i] = IF i > n THEN Final ELSE i
         /\ Len(ran) = IF stops = {} THEN n + 1
                       ELSE CHOOSE s \in stops : \A t \in stops : s <= t
<1> DEFINE ran == ChainInterceptor(n, stops)
           e == EndOf(n, stops, 1)
<1>1. ran = RunFrom(n, stops, 1)
  BY ChainClosed, RunStep DEF ChainInterceptor
<1>2. e \in 1..(n + 1) /\ IsEnd(n, stops, 1, e)
  BY EndExists
<1>3. ran = [i \in 1..e |-> IF i > n THEN Final ELSE i]
  <2>1. e - 1 + 1 = e /\ \A i \in Nat : 1 + i - 1 = i
    BY <1>2
  <2> HIDE DEF e
  <2> QED BY <1>1, <2>1 DEF RunFrom, e
<1> HIDE DEF ran, e
<1>4. Len(ran) = e
  BY <1>2, <1>3
<1>5. \A i \in 1..Len(ran) : ran[i] = IF i > n THEN Final ELSE i
  BY <1>3, <1>4
<1>6. CASE stops = {}
  BY <1>2, <1>4, <1>5, <1>6 DEF IsEnd, ran
<1>7. CASE stops # {}
  <2>1. \A t \in stops : t \in 1..n
    OBVIOUS
  <2>2. \A t \in stops : e <= t
    BY <1>2, <2>1 DEF IsEnd
  <2>3. e # n + 1
    <3>1. PICK t \in stops : TRUE
      BY <1>7
    <3>2. t \in 1..n /\ e <= t
      BY <2>1, <2>2
    <3> QED BY <1>2, <3>2
  <2>4. e \in stops
    BY <1>2, <2>3 DEF IsEnd
  <2>5. ASSUME NEW s \in stops, \A t \in stops : s <= t PROVE s = e
    BY <1>2, <2>1, <2>2, <2>4, <2>5
  <2>6. e = CHOOSE s \in stops : \A t \in stops : s <= t
    BY <2>2, <2>4, <2>5
  <2> QED BY <1>4, <1>5, <1>7, <2>6 DEF ran
<1> QED BY <1>6, <1>7

-----------------------------------------------------------------------------
\* The conversions, for every input.

\* There is no input at first, and then one of those that are enumerated.
InputOK == input = [of |-> "none"] \/ input \in Inputs

\* An input stays what it is once chosen.
LEMMA InputInv == InputSpec => []InputOK
<1>1. NoInput => InputOK
  BY DEF NoInput, InputOK
<1>2. InputOK /\ [Choose]_input => InputOK'
  BY DEF InputOK, Choose, Inputs, TimeoutInputs, MetadataInputs, RouteInputs,
     ChainInputs
<1> QED BY <1>1, <1>2, PTL DEF InputSpec

\* What an input is named it is.
LEMMA InputKinds ==
  ASSUME InputOK
  PROVE  /\ input.of = "timeout" => input \in TimeoutInputs
         /\ input.of = "metadata" => input \in MetadataInputs
         /\ input.of = "route" => input \in RouteInputs
         /\ input.of = "chain" => input \in ChainInputs
<1>1. input = [of |-> "none"] => input.of = "none"
  OBVIOUS
<1>2. input \in TimeoutInputs => input.of = "timeout"
  BY DEF TimeoutInputs
<1>3. input \in MetadataInputs => input.of = "metadata"
  BY DEF MetadataInputs
<1>4. input \in RouteInputs => input.of = "route"
  BY DEF RouteInputs
<1>5. input \in ChainInputs => input.of = "chain"
  BY DEF ChainInputs
<1> QED BY <1>1, <1>2, <1>3, <1>4, <1>5 DEF InputOK, Inputs

\* Whatever is left of a client's deadline (headersFromContext), the server
\* reads a deadline in the future and none later than a millisecond allows
\* (contextFromHeaders), and a legal header of any peer is read exactly in
\* every unit but hours: for every word size, units and timeout.
THEOREM DeadlineCrossesWire == InputSpec => []TimeoutKept
<1>1. InputOK => TimeoutKept
  <2> SUFFICES ASSUME InputOK PROVE TimeoutKept
    OBVIOUS
  <2>1. CASE input.of = "timeout"
    BY <2>1, InputKinds, DeadlineOfInput, LegalOfInput DEF TimeoutKept
  <2>2. CASE input.of # "timeout"
    BY <2>2 DEF TimeoutKept, DeadlineKept, LegalTimeoutExact
  <2> QED BY <2>1, <2>2
<1> QED BY <1>1, InputInv, PTL

\* ToMetadata always reads what ToKeyValue wrote, and every key that has values
\* gets those of all its spellings in the order they were met: for any keys,
\* any number of values and any order of the loop over the map.
THEOREM MetadataCrossesWire == InputSpec => []MetadataKept
<1>1. InputOK => MetadataKept
  <2> SUFFICES ASSUME InputOK PROVE MetadataKept
    OBVIOUS
  <2>1. CASE input.of = "metadata"
    BY <2>1, InputKinds, MetadataOfInput
  <2>2. CASE input.of # "metadata"
    BY <2>2 DEF MetadataKept
  <2> QED BY <2>1, <2>2
<1> QED BY <1>1, InputInv, PTL

\* Over connections that marshal, a unary reply or a reset comes back by the
\* very proxies its request went by and arrives, for a way of any length.
THEOREM RepliesRetrace == InputSpec => []ReplyRetraces
<1>1. InputOK => ReplyRetraces
  <2> SUFFICES ASSUME InputOK, input.of = "route", input.kind # "stream",
                      input.transport = "marshalled"
               PROVE  RoutedBack
    BY DEF ReplyRetraces
  <2> DEFINE path == input.path
             kind == input.kind
             r == ReplyRoute(path, kind, "marshalled")
             back == Reverse(path)
  <2>1. input \in RouteInputs
    BY InputKinds
  <2>2. PICK n \in 1..MaxHops : path \in [1..n -> Proxies]
    BY <2>1 DEF RouteInputs
  <2> HIDE DEF path, kind
  <2>3. n \in Nat /\ n >= 1
    BY InputBounds
  <2>4. path \in Seq(Proxies) /\ Len(path) = n
    BY <2>2, <2>3
  <2>5. path # <<>>
    BY <2>3, <2>4
  <2>6. RoutedBack <=> r.end = "delivered" /\ r.visited = back
    BY DEF RoutedBack, path, kind
  <2>7. CASE n = 1
    <3>1. r.end = "delivered" /\ r.visited = <<Last(path)>>
      BY <2>4, <2>5, <2>7, DirectRoute
    <3>2. back = [i \in 1..1 |-> path[1 - i + 1]]
      BY <2>4, <2>7 DEF Reverse
    <3>3. Last(path) = path[1]
      BY <2>4, <2>7 DEF Last
    <3>4. back = <<path[1]>>
      BY <3>2
    <3> HIDE DEF r, back
    <3> QED BY <2>6, <3>1, <3>3, <3>4
  <2>8. CASE n # 1
    <3>1. Len(path) > 1
      BY <2>3, <2>4, <2>8
    <3>2. kind # "stream"
      BY DEF kind
    <3>3. r.visited = back /\ r.end = "delivered"
      BY <2>4, <3>1, <3>2, LongRoute
    <3> QED BY <2>6, <3>3
  <2> QED BY <2>7, <2>8
<1> QED BY <1>1, InputInv, PTL

\* A chain of any number of interceptors runs them in their order up to the
\* first that does not call its handler, and the method only if all do.
THEOREM InterceptorsRunInOrder == InputSpec => []ChainInOrder
<1>1. InputOK => ChainInOrder
  <2> SUFFICES ASSUME InputOK, input.of = "chain", input.n > 0 PROVE ChainInOrder
    BY DEF ChainInOrder
  <2>1. input \in ChainInputs
    BY InputKinds
  <2>2. PICK n \in 0..MaxInterceptors :
             input \in [of : {"chain"}, n : {n}, stops : SUBSET (1..n)]
    BY <2>1 DEF ChainInputs
  <2>3. input.n = n /\ input.stops \in SUBSET (1..n)
    BY <2>2
  <2>4. n \in Nat \ {0}
    BY <2>3, InputBounds
  <2> DEFINE stops == input.stops
  <2>5. stops \in SUBSET (1..n)
    BY <2>3
  <2> HIDE DEF stops
  <2>6. LET ran == ChainInterceptor(n, stops) IN
         /\ \A i \in 1..Len(ran) : ran[i] = IF i > n THEN Final ELSE i
         /\ Len(ran) = IF stops = {} THEN n + 1
                       ELSE CHOOSE s \in stops : \A t \in stops : s <= t
    BY <2>4, <2>5, ChainRuns
  <2> QED BY <2>3, <2>6 DEF ChainInOrder, stops
<1> QED BY <1>1, InputInv, PTL
=============================================================================

-------------------------------- MODULE Chain --------------------------------
(***************************************************************************)
(* ChainUnaryInterceptor and ChainStreamInterceptor: interceptors as one.  *)
(* An interceptor either calls the handler it is given or returns; what is *)
(* computed is who runs, in order; 0 is the method's own handler.          *)
(***************************************************************************)
EXTENDS Integers, Sequences

Final == 0
Panic == -1

\* What interceptor i (of n, counted from one) runs, given its handler's run.
Intercept(i, stops, rest) == IF i \in stops THEN <<i>> ELSE <<i>> \o rest

\* Mutant of getChainHandler: the last interceptor is skipped.
getChainHandlerShort(n, stops) ==
    LET from[curr \in 0..(n - 1)] ==
            IF curr >= n - 2 THEN <<Final>>
            ELSE Intercept(curr + 2, stops, from[curr + 1])
    IN  from[0]

\* The handler given to the first: calls interceptors[curr+1] and so on, and
\* after the last the final handler.  Indices count from zero as in the code.
getChainHandler(n, stops) ==
    LET from[curr \in 0..(n - 1)] ==
            IF curr = n - 1 THEN <<Final>>
            ELSE Intercept(curr + 2, stops, from[curr + 1])
    IN  from[0]

\* interceptors[0] is called without looking whether there is one.
ChainInterceptor(n, stops) ==
    IF n = 0 THEN <<Panic>>
             ELSE Intercept(1, stops, getChainHandler(n, stops))
=============================================================================

----------------------------- MODULE Conversions -----------------------------
(***************************************************************************)
(* The pure conversions, each compared with what it should compute, one    *)
(* input at a time: timeouts, metadata, proxy routes, interceptor chains.  *)
(***************************************************************************)
EXTENDS Timeouts, Metadata, Route, Chain, FiniteSets

CONSTANTS
    Wild,           \* values of timeout headers a peer may send
    Names,          \* names of metadata keys
    Data,           \* metadata values
    MaxKeys,        \* bound: keys in one metadata
    MaxValues,      \* bound: values of one key
    Proxies,        \* proxies on the way
    MaxHops,        \* bound: proxies on one way
    MaxInterceptors \* bound: interceptors in a chain

ASSUME InputBounds ==
    MaxKeys \in Nat /\ MaxValues \in Nat /\ MaxHops \in Nat
        /\ MaxInterceptors \in Nat
ASSUME AbsentIsNoProxy == "absent" \notin Proxies

VARIABLE input      \* the input under test, none at first

Headers == [val : Wild, unit : DOMAIN UnitOf \cup {"x"}]

\* A client's timeout, with what its application put in the metadata itself.
TimeoutInputs ==
    [of : {"timeout"}, timeout : Durations, own : {<<>>} \cup {<<t>> : t \in Headers}]

\* Keys that differ in name, case and suffix, with any number of values, met
\* by the loop over the map in any order.
Keys == [name : Names, upper : BOOLEAN, bin : BOOLEAN]
Values == [data : Data, b64 : {FALSE}]
Lists == UNION {[1..n -> Values] : n \in 0..MaxValues}
Orders(ks) ==
    {o \in [1..Cardinality(ks) -> ks] : \A k \in ks : \E i \in DOMAIN o : o[i] = k}
MetadataInputs ==
    UNION {[of : {"metadata"}, md : [ks -> Lists], order : Orders(ks)] :
              ks \in {s \in SUBSET Keys : IsFiniteSet(s) /\ Cardinality(s) <= MaxKeys}}

RouteInputs ==
    [of : {"route"}, path : UNION {[1..n -> Proxies] : n \in 1..MaxHops},
     kind : {"unary", "stream", "reset"}, transport : {"marshalled", "memory"}]

\* Interceptors of which some return without calling their handler.
ChainInputs ==
    UNION {[of : {"chain"}, n : {n}, stops : SUBSET (1..n)] : n \in 0..MaxInterceptors}

Inputs == TimeoutInputs \cup MetadataInputs \cup RouteInputs \cup ChainInputs

NoInput == input = [of |-> "none"]

Choose == input.of = "none" /\ input' \in Inputs

InputSpec == NoInput /\ [][Choose]_input

-----------------------------------------------------------------------------
(* Properties. *)

\* Whatever time is left on the client's deadline, none or less included, the
\* server's deadline is in the future, never later than the client's except
\* that it is at least one millisecond, and earlier by less than one; unless
\* the application's own metadata has a GRPC-Timeout, which comes first.
DeadlineKept ==
    input.of = "timeout" =>
        LET m == UnitOf["m"]
            t == input.timeout
            got == ServerTimeout(input.own, t)
        IN  IF contextFromHeaders(input.own) = {}
            THEN \E d \in got : /\ got = {d} /\ 0 < d
                                /\ d <= IF t > m THEN t ELSE m
                                /\ t - m < d
            ELSE got = parseGrpcTimeout(input.own[1])

\* A timeout header within gRPC's limits is taken for what it says in every
\* unit but hours, where the product may not fit a duration and wraps.
LegalTimeoutExact ==
    input.of = "timeout" =>
        \A i \in DOMAIN input.own :
            LET h == input.own[i] IN
            (h.val \in 0..MaxLegal /\ h.unit \in DOMAIN UnitOf) =>
                \/ parseGrpcTimeout(h) = {h.val * UnitOf[h.unit]}
                \/ h.unit = "H" /\ h.val * UnitOf["H"] >= HalfRange

\* contextFromHeaders's doc: "If the given headers contain a GRPC-Timeout, it
\* is used to set the deadline on the returned context".  So a timeout header
\* within gRPC's limits is taken for what it says in every unit.  Hours may
\* overflow.
HoursExact ==
    input.of = "timeout" =>
        \A i \in DOMAIN input.own :
            LET h == input.own[i] IN
            (h.val \in 0..MaxLegal /\ h.unit \in DOMAIN UnitOf) =>
                parseGrpcTimeout(h) = {h.val * UnitOf[h.unit]}

\* A deadline crosses the wire, whoever wrote the header.
TimeoutKept == DeadlineKept /\ LegalTimeoutExact

\* What ToKeyValue made ToMetadata can always read (so no Goat peer's headers
\* make processUnaryRpc panic), and every key that has values has, in lower
\* case, those of all its spellings, binary ones decoded, in the order they
\* were met.
MetadataKept ==
    input.of = "metadata" =>
        LET md == input.md
            order == input.order
        IN  ToMetadata(ToKeyValue(md, order)) =
                {[k \in {lower(o) : o \in {p \in DOMAIN md : md[p] # <<>>}} |->
                     FlattenSeq([i \in DOMAIN order |->
                         IF lower(order[i]) = k THEN md[order[i]] ELSE <<>>])]}

\* The reply to the request that is the input comes back by the very proxies
\* the request went by, and arrives.
RoutedBack ==
    LET r == ReplyRoute(input.path, input.kind, input.transport)
    IN  r.end = "delivered" /\ r.visited = Reverse(input.path)

\* Over connections that marshal, a unary reply or a reset goes back through
\* the very proxies its request came by, however many there are and whichever
\* of them it passes twice.
ReplyRetraces ==
    (input.of = "route" /\ input.kind # "stream"
        /\ input.transport = "marshalled") => RoutedBack

\* forwardRpc marks the route "so responses can be routed back via the same
\* path": a stream's do as well.  They name no route.
StreamReplyRetraces ==
    (input.of = "route" /\ input.kind = "stream"
        /\ input.transport = "marshalled") => RoutedBack

\* The same of replies over in-memory connections.  The last hop's empty
\* ProxyNext is not absent there, and the next proxy indexes it.
MemoryReplyRetraces ==
    (input.of = "route" /\ input.kind # "stream"
        /\ input.transport = "memory") => RoutedBack

\* Interceptors run in the order given, each once, up to the first that does
\* not call its handler, and the method only if all of them do.
ChainInOrder ==
    (input.of = "chain" /\ input.n > 0) =>
        LET n == input.n
            ran == ChainInterceptor(n, input.stops)
        IN  /\ \A i \in 1..Len(ran) : ran[i] = IF i > n THEN Final ELSE i
            /\ Len(ran) = IF input.stops = {} THEN n + 1
                          ELSE CHOOSE s \in input.stops : \A t \in input.stops : s <= t
=============================================================================

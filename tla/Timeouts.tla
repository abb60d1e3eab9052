------------------------------ MODULE Timeouts ------------------------------
(***************************************************************************)
(* A deadline's way from the client's context to the server's: as a        *)
(* GRPC-Timeout header (headersFromContext), and back to a duration        *)
(* (parseGrpcTimeout, contextFromHeaders).  A header is the integer before *)
(* its last character, and that character.  time.Duration counts           *)
(* nanoseconds in a signed word, whose arithmetic wraps.                   *)
(***************************************************************************)
EXTENDS Integers, Sequences

CONSTANTS
    HalfRange,      \* 2^63: the word holds -HalfRange..HalfRange-1
    UnitOf,         \* the duration of each suffix: H M S m u n
    MaxLegal        \* the largest value gRPC allows, of 8 digits

ASSUME WordSize == HalfRange \in Nat
ASSUME UnitTypes ==
    /\ UnitOf \in [{"H", "M", "S", "m", "u", "n"} -> Nat \ {0}]
    /\ UnitOf["m"] < HalfRange
\* Only hours can be legal and too long: 99999999 minutes fit 63 bits.
ASSUME LegalRange ==
    /\ MaxLegal \in Nat
    /\ \A u \in {"M", "S", "m", "u", "n"} : MaxLegal * UnitOf[u] < HalfRange

Durations == -HalfRange..(HalfRange - 1)

\* The word that holds x modulo 2 * HalfRange.
wrap(x) == ((x + HalfRange) % (2 * HalfRange)) - HalfRange

\* The duration, or none: for a value that does not fit a word, or a suffix
\* that is unknown or, in an empty header, missing.
parseGrpcTimeout(t) ==
    IF t.val \in Durations /\ t.unit \in DOMAIN UnitOf
        THEN {wrap(t.val * UnitOf[t.unit])}
        ELSE {}

\* Mutant of headersFromContext: no lower bound.
headersFromContextZero(timeout) ==
    [val |-> timeout \div UnitOf["m"], unit |-> "m"]

\* The time until the deadline in whole milliseconds, and at least one.
headersFromContext(timeout) ==
    LET ms == timeout \div UnitOf["m"]
    IN  [val |-> IF ms <= 0 THEN 1 ELSE ms, unit |-> "m"]

\* The first GRPC-Timeout header that can be parsed sets the deadline.
contextFromHeaders(ts) ==
    LET valid == {i \in DOMAIN ts : parseGrpcTimeout(ts[i]) # {}}
        first == {i \in valid : \A j \in valid : i <= j}
    IN  UNION {parseGrpcTimeout(ts[i]) : i \in first}

\* The server's deadline for a client's, when the application's own metadata
\* had the timeout headers `own', which come first.
ServerTimeout(own, timeout) ==
    contextFromHeaders(Append(own, headersFromContext(timeout)))
=============================================================================

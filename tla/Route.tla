-------------------------------- MODULE Route --------------------------------
(***************************************************************************)
(* The route an Rpc takes through a chain of proxies, and its reply's:     *)
(* forwardRpc's use of ProxyRecord and ProxyNext, and what the server puts *)
(* in a reply.  A connection that marshals turns an empty ProxyNext into   *)
(* an absent one; an in-memory connection does not.  Each proxy's          *)
(* intercepter is taken to translate addresses as its network needs.       *)
(***************************************************************************)
EXTENDS Naturals, Sequences, SequencesExt

Absent == <<"absent">>

Carried(next, transport) ==
    IF transport = "marshalled" /\ next = <<>> THEN Absent ELSE next

\* The record of an Rpc that went through the proxies of path.
Record(path) ==
    LET rec[n \in 0..Len(path)] ==
            IF n = 0 THEN <<>> ELSE Append(rec[n - 1], path[n])
    IN  rec[Len(path)]

\* Mutant of ReplyNext: the nearest proxy is named too.
ReplyNextWhole(record, kind) ==
    IF kind # "stream" /\ Len(record) > 1 THEN record ELSE Absent

\* processUnaryRpc and resetStream name the proxies but the nearest one, if
\* there are others; serverStream's Rpcs name none.
ReplyNext(record, kind) ==
    IF kind # "stream" /\ Len(record) > 1 THEN Front(record) ELSE Absent

\* One proxy forwards a reply, or panics on an empty ProxyNext.
Hop(r, transport) ==
    CASE r.end # "no" -> r
      [] r.end = "no" /\ r.next = Absent -> [r EXCEPT !.end = "delivered"]
      [] r.end = "no" /\ r.next = <<>> -> [r EXCEPT !.end = "panic"]
      [] OTHER -> [end |-> "no", next |-> Carried(Front(r.next), transport),
                   visited |-> Append(r.visited, Last(r.next))]

\* The reply's way back, from the proxy next to the server, after n hops.
ReplyRoute(path, kind, transport) ==
    LET start == [end |-> "no", visited |-> <<Last(path)>>,
                  next |-> Carried(ReplyNext(Record(path), kind), transport)]
        after[n \in 0..Len(path)] ==
            IF n = 0 THEN start ELSE Hop(after[n - 1], transport)
    IN  after[Len(path)]
=============================================================================

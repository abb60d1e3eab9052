------------------------------ MODULE Metadata ------------------------------
(***************************************************************************)
(* ToKeyValue and ToMetadata: metadata to the header's list of pairs and   *)
(* back.  A key is its name, whether it is spelled in upper case, and      *)
(* whether it ends in -bin; a value is its data and whether it is base64   *)
(* of that data.  metadata.MD is a map, so its order is any.               *)
(***************************************************************************)
EXTENDS Sequences, SequencesExt

lower(k) == [k EXCEPT !.upper = FALSE]
Encode(v) == [v EXCEPT !.b64 = TRUE]
Decode(v) == [v EXCEPT !.b64 = FALSE]

\* Mutant of isBin: the suffix is compared before lower-casing.
isBinCased(k) == k.bin /\ ~k.upper

isBin(k) == k.bin

\* The pairs of metadata md whose keys the loop meets in this order.
ToKeyValue(md, order) ==
    FlattenSeq([i \in DOMAIN order |->
        LET k == order[i] IN
        [j \in DOMAIN md[k] |->
            [key |-> k, value |-> IF isBin(k) THEN Encode(md[k][j]) ELSE md[k][j]]]])

\* What one pair adds to the list of key k.
Added(kv, k) ==
    IF lower(kv.key) # k THEN <<>>
    ELSE <<IF k.bin THEN Decode(kv.value) ELSE kv.value>>

\* The metadata, or none.  Pairs whose keys differ only in case end in one
\* list; base64 that cannot be decoded fails the whole.
ToMetadata(kvs) ==
    IF \E i \in DOMAIN kvs : lower(kvs[i].key).bin /\ ~kvs[i].value.b64
    THEN {}
    ELSE {[k \in {lower(kvs[i].key) : i \in DOMAIN kvs} |->
              FlattenSeq([i \in DOMAIN kvs |-> Added(kvs[i], k)])]}
=============================================================================

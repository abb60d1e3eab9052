------------------------------- MODULE Proxy -------------------------------
(***************************************************************************)
(* Proxy: a table of clients by id, one goroutine (serveClients) that      *)
(* takes the commands of all of them, and for each client a read loop and  *)
(* a write loop that end together.  A client that connects again is a new  *)
(* proxyClient (an instance here) under the same id; an Rpc for an unknown *)
(* id makes the proxy dial out.                                            *)
(*                                                                         *)
(* `commands' is unbuffered: a send and its handling by serveClients are   *)
(* one step.  forwardRpc's lookup and its send, which never blocks, are    *)
(* one step too: what AddClient does between them it could as well do      *)
(* after.  External: the connections, newConnection, the intercepter       *)
(* (which may reject an Rpc), and the choice of the destination (see       *)
(* Route for the proxy route).  Clients send Rpcs with their own source.   *)
(***************************************************************************)
EXTENDS Naturals, Sequences, FiniteSets

CONSTANTS
    Ids,            \* client ids
    Cap,            \* clientBufferSize
    MaxAdds,        \* bound: calls of AddClient
    MaxRpcs         \* bound: Rpcs the clients send

ASSUME ProxyBounds ==
    Cap \in Nat \ {0} /\ MaxAdds \in Nat /\ MaxRpcs \in Nat
ASSUME RejectedIsNoId == "rejected" \notin Ids

VARIABLES
    owner,          \* the ids of the instances made so far, oldest first
    clients,        \* p.clients: the instance registered for an id, 0 if none
    rd,             \* where each instance's read loop is, or its dialling
    held,           \* the Rpc its read loop has read
    wr,             \* where its write loop is
    buf,            \* its fromServer
    out,            \* the Rpc its write loop is writing
    got,            \* Rpcs written to its connection
    told,           \* calls of clientDisconnect it caused
    serve,          \* serveClients: running or returned
    ctx,            \* p.ctx: live or done
    adds, rpcs      \* AddClient calls and Rpcs so far

instVars == <<owner, rd, held, wr, buf, out, got>>
vars == <<instVars, clients, told, serve, ctx, adds, rpcs>>

Insts == 1..(MaxAdds + MaxRpcs)

\* n tells the Rpcs apart, in the order they were read; the intercepter will
\* let one through to an id or reject it.
Rpc == [from : Insts, to : Ids \cup {"rejected"}, n : 1..MaxRpcs]

\* The types of the proxy's fields; a client's buffer never exceeds its size.
TypeOK ==
    /\ owner \in Seq(Ids) /\ Len(owner) <= MaxAdds + MaxRpcs
    /\ clients \in [Ids -> 0..Len(owner)]
    /\ rd \in [Insts -> {"none", "dial", "read", "send", "err", "exit"}]
    /\ wr \in [Insts -> {"none", "select", "write", "err", "exit"}]
    /\ held \in [Insts -> SUBSET Rpc] /\ out \in [Insts -> SUBSET Rpc]
    /\ buf \in [Insts -> Seq(Rpc)] /\ \A i \in Insts : Len(buf[i]) <= Cap
    /\ got \in [Insts -> Seq(Rpc)]
    /\ told \in [Insts -> 0..2]
    /\ serve \in {"running", "returned"} /\ ctx \in {"live", "done"}
    /\ adds \in 0..MaxAdds /\ rpcs \in 0..MaxRpcs

Init ==
    /\ owner = <<>> /\ clients = [id \in Ids |-> 0]
    /\ rd = [i \in Insts |-> "none"] /\ wr = [i \in Insts |-> "none"]
    /\ held = [i \in Insts |-> {}] /\ out = [i \in Insts |-> {}]
    /\ buf = [i \in Insts |-> <<>>] /\ got = [i \in Insts |-> <<>>]
    /\ told = [i \in Insts |-> 0]
    /\ serve = "running" /\ ctx = "live"
    /\ adds = 0 /\ rpcs = 0

-----------------------------------------------------------------------------
Fresh == Len(owner) + 1

\* A new client takes the place of one with the same id.
Register(id) ==
    /\ owner' = Append(owner, id)
    /\ clients' = [clients EXCEPT ![id] = Fresh]

AddClient(id) ==
    /\ adds < MaxAdds
    /\ adds' = adds + 1
    /\ Register(id)
    /\ rd' = [rd EXCEPT ![Fresh] = "read"]
    /\ wr' = [wr EXCEPT ![Fresh] = "select"]
    /\ UNCHANGED <<held, buf, out, got, told, serve, ctx, rpcs>>

\* Mutant of Offer: a full buffer is waited for.
OfferBlocks(i, r) == Len(buf[i]) < Cap /\ buf' = [buf EXCEPT ![i] = Append(@, r)]

\* client.fromServer <- rpc, or drop it.
Offer(i, r) ==
    buf' = IF Len(buf[i]) < Cap THEN [buf EXCEPT ![i] = Append(@, r)] ELSE buf

\* The read loop's command, with the Rpc, is taken by serveClients.
SendRpc(i, step) ==
    /\ rd[i] = "send" /\ serve = "running"
    /\ rd' = step
    /\ held' = [held EXCEPT ![i] = {}]
    /\ UNCHANGED <<wr, out, got, told, serve, ctx, adds, rpcs>>

\* Mutant of forwardRpc: the destination is overwritten with the source.
forwardRpcStale(i) ==
    \E r \in held[i] :
        /\ r.to \in Ids /\ clients[r.to] # 0
        /\ Offer(clients[r.to], [r EXCEPT !.to = owner[r.from]])
        /\ SendRpc(i, [rd EXCEPT ![i] = "read"])
        /\ UNCHANGED <<owner, clients>>

forwardRpc(i) ==
    \E r \in held[i] :
        /\ r.to \in Ids /\ clients[r.to] # 0
        /\ Offer(clients[r.to], r)
        /\ SendRpc(i, [rd EXCEPT ![i] = "read"])
        /\ UNCHANGED <<owner, clients>>

\* addOutgoingConnectionLocked: an unknown destination is dialled, and the
\* Rpc waits in its buffer.
forwardRpcDial(i) ==
    \E r \in held[i] :
        /\ r.to \in Ids /\ clients[r.to] = 0
        /\ Register(r.to)
        /\ Offer(Fresh, r)
        /\ SendRpc(i, [rd EXCEPT ![i] = "read", ![Fresh] = "dial"])

forwardRpcRejected(i) ==
    /\ \E r \in held[i] : r.to = "rejected"
    /\ SendRpc(i, [rd EXCEPT ![i] = "read"])
    /\ UNCHANGED <<owner, clients, buf>>

connect(i) ==
    /\ rd[i] = "dial"
    /\ \/ /\ rd' = [rd EXCEPT ![i] = "read"]
          /\ wr' = [wr EXCEPT ![i] = "select"]
       \/ rd' = [rd EXCEPT ![i] = "err"] /\ UNCHANGED wr
    /\ UNCHANGED <<owner, held, buf, out, got, clients, told, serve, ctx, adds,
                   rpcs>>

-----------------------------------------------------------------------------
(* The loops of one instance (readWrite). *)

\* Mutant of GroupDone: the loops are not an errgroup.
GroupDoneCtxOnly(i) == ctx = "done"

\* The errgroup's context: done when p.ctx is, or when either loop returned.
GroupDone(i) == ctx = "done" \/ rd[i] = "exit" \/ wr[i] = "exit"

RdStep(i, from, to) ==
    /\ rd[i] = from
    /\ rd' = [rd EXCEPT ![i] = to]
    /\ UNCHANGED <<owner, wr, buf, out, got, clients, told, serve, ctx, adds>>

ReadOk(i) ==
    /\ rpcs < MaxRpcs
    /\ rpcs' = rpcs + 1
    /\ \E id \in Ids \cup {"rejected"} :
           held' = [held EXCEPT ![i] = {[from |-> i, to |-> id, n |-> rpcs + 1]}]
    /\ RdStep(i, "read", "send")

ReadErr(i) == RdStep(i, "read", "err") /\ UNCHANGED <<held, rpcs>>

SendCtx(i) ==
    /\ GroupDone(i)
    /\ RdStep(i, "send", "exit")
    /\ held' = [held EXCEPT ![i] = {}]
    /\ UNCHANGED rpcs

WrStep(i, from, to) ==
    /\ wr[i] = from
    /\ wr' = [wr EXCEPT ![i] = to]
    /\ UNCHANGED <<owner, rd, held, clients, told, serve, ctx, adds, rpcs>>

WriteBegin(i) ==
    /\ buf[i] # <<>>
    /\ WrStep(i, "select", "write")
    /\ out' = [out EXCEPT ![i] = {Head(buf[i])}]
    /\ buf' = [buf EXCEPT ![i] = Tail(@)]
    /\ UNCHANGED got

WriteOk(i) ==
    /\ WrStep(i, "write", "select")
    /\ \E r \in out[i] : got' = [got EXCEPT ![i] = Append(@, r)]
    /\ out' = [out EXCEPT ![i] = {}]
    /\ UNCHANGED buf

WriteErr(i) ==
    /\ WrStep(i, "write", "err")
    /\ out' = [out EXCEPT ![i] = {}]
    /\ UNCHANGED <<buf, got>>

WriteCtx(i) ==
    GroupDone(i) /\ WrStep(i, "select", "exit") /\ UNCHANGED <<buf, out, got>>

\* Mutant of Forget: the entry is left.
ForgetNothing(i) == UNCHANGED clients

\* delete(p.clients, id), whichever instance has the id by now.
Forget(i) == clients' = [clients EXCEPT ![owner[i]] = 0]

\* A loop's error command: sent without watching any context, so only
\* serveClients can take it.
ErrorCommand(i) ==
    /\ serve = "running"
    /\ Forget(i)
    /\ told' = [told EXCEPT ![i] = @ + 1]
    /\ UNCHANGED <<owner, held, buf, out, got, serve, ctx, adds, rpcs>>

ReadErrCommand(i) ==
    /\ rd[i] = "err"
    /\ rd' = [rd EXCEPT ![i] = "exit"]
    /\ ErrorCommand(i)
    /\ UNCHANGED wr

WriteErrCommand(i) ==
    /\ wr[i] = "err"
    /\ wr' = [wr EXCEPT ![i] = "exit"]
    /\ ErrorCommand(i)
    /\ UNCHANGED rd

CtxDone ==
    /\ ctx = "live"
    /\ ctx' = "done"
    /\ UNCHANGED <<instVars, clients, told, serve, adds, rpcs>>

ServeReturns ==
    /\ serve = "running" /\ ctx = "done"
    /\ serve' = "returned"
    /\ UNCHANGED <<instVars, clients, told, ctx, adds, rpcs>>

-----------------------------------------------------------------------------
Forward(i) == forwardRpc(i) \/ forwardRpcDial(i) \/ forwardRpcRejected(i)

Write(i) == WriteOk(i) \/ WriteErr(i)

Next ==
    \/ CtxDone \/ ServeReturns
    \/ \E id \in Ids : AddClient(id)
    \/ \E i \in Insts :
           \/ Forward(i) \/ connect(i)
           \/ ReadOk(i) \/ ReadErr(i) \/ SendCtx(i) \/ ReadErrCommand(i)
           \/ WriteBegin(i) \/ Write(i) \/ WriteCtx(i) \/ WriteErrCommand(i)

Spec == Init /\ [][Next]_vars

\* Every goroutine runs; senders on `commands' are served in turn; reads and
\* writes end once the context they were given is done.  Otherwise a
\* connection may block a read or a write for ever, and newConnection may not
\* return.
FairSpec ==
    /\ Spec
    /\ WF_vars(ServeReturns)
    /\ \A i \in Insts :
           /\ WF_vars(Forward(i) \/ SendCtx(i) \/ ReadErrCommand(i)
                          \/ (GroupDone(i) /\ ReadErr(i)))
           /\ WF_vars(WriteBegin(i) \/ WriteCtx(i) \/ WriteErrCommand(i)
                          \/ (GroupDone(i) /\ Write(i)))

-----------------------------------------------------------------------------
(* Properties. *)

Healthy(i) == rd[i] \in {"dial", "read", "send"} /\ wr[i] # "err" /\ wr[i] # "exit"
Unchallenged(i) ==
    \A j \in DOMAIN owner : owner[j] = owner[i] /\ j # i => j < i /\ told[j] = 0

\* The newest client of an id stays reachable as long as both its loops are
\* well: neither another id's failure, nor a predecessor that is still served
\* or that ends without an error, removes it.  Only a predecessor's error
\* command does (or did: it deletes whoever has the id by then), so nothing is
\* claimed of a client one of whose predecessors has reported an error.
HealthyReachable ==
    \A i \in DOMAIN owner : Healthy(i) /\ Unchallenged(i) => clients[owner[i]] = i

\* However clients come, go and reconnect, a connection is only ever written
\* Rpcs for its own id, each once, and those of one sender in the order in
\* which they were read; Rpcs may be missing, since full buffers drop.
DeliveredInOrder ==
    \A i \in Insts : \A a, b \in DOMAIN got[i] :
        /\ got[i][a].to = owner[i]
        /\ (a < b /\ got[i][a].from = got[i][b].from) => got[i][a].n < got[i][b].n

\* Once either loop of a client has ended its entry is gone, although the two
\* loops report in any order, or only one of them does: nothing more is
\* queued for a connection that nobody serves.
NoDeadClient ==
    \A i \in DOMAIN owner :
        ctx = "live" /\ "exit" \in {rd[i], wr[i]} => clients[owner[i]] # i

\* The table of clients has no dead client, and every client that is served,
\* reconnected ones included, but for those that a newer connection replaced
\* and those with a predecessor that reported an error (serveClients).
TableTrue == HealthyReachable /\ NoDeadClient

\* TestUnresponsiveClient: a client whose connection blocks every write
\* delays nobody; what any other client has read is taken from it.
SlowClientHarmless == \A i \in Insts : rd[i] = "send" ~> rd[i] # "send"

\* TestReadErrorClosesBothLoops: when either loop of a client ends, so does
\* the other, or it waits with an error command that nobody takes any more
\* because serveClients has returned.
BothLoopsEnd ==
    \A i \in Insts :
        (wr[i] # "none" /\ "exit" \in {rd[i], wr[i]}) ~>
            \/ rd[i] = "exit" /\ wr[i] = "exit"
            \/ serve = "returned" /\ "err" \in {rd[i], wr[i]}

\* A failed connection is reported, unless the proxy is shut down.
FailureReported ==
    \A i \in Insts : "err" \in {rd[i], wr[i]} ~> (told[i] > 0 \/ ctx = "done")

\* A connection that fails on either side is taken down whole, and said so.
LoopsEndTogether == BothLoopsEnd /\ FailureReported
=============================================================================

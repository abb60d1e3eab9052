---------------------------- MODULE ProxyProofs ----------------------------
(***************************************************************************)
(* Proxy, for any ids, buffer size and number of clients and Rpcs: the     *)
(* types, which clients the table has, and what each connection is         *)
(* written.                                                                *)
(***************************************************************************)
EXTENDS Proxy, FiniteSetTheorems, TLAPS

\* An instance exists, and has state, once it was registered; its read loop
\* holds an Rpc only while it sends it; each loop reports at most once.
InstOK ==
    /\ \A i \in Insts : rd[i] # "none" => i \in DOMAIN owner
    /\ \A i \in Insts : i \notin DOMAIN owner =>
           /\ wr[i] = "none" /\ held[i] = {} /\ out[i] = {}
           /\ buf[i] = <<>> /\ got[i] = <<>>
    /\ \A i \in Insts : rd[i] = "dial" => wr[i] = "none"
    /\ \A i \in Insts :
           told[i] <= (IF rd[i] = "exit" THEN 1 ELSE 0)
                          + (IF wr[i] = "exit" THEN 1 ELSE 0)

Holding == {i \in Insts : rd[i] = "send"}

\* Each instance was added or dialled for an Rpc that was read, and an Rpc
\* that is still held has not been dialled for.
CountOK == Len(owner) + Cardinality(Holding) <= adds + rpcs

\* Besides being true to the connections, the table has an instance only
\* under its own id.
TableOK ==
    /\ \A id \in Ids : clients[id] # 0 => owner[clients[id]] = id
    /\ TableTrue

\* Before(A, B): of Rpcs of one sender, those in A were read before those in B.
Before(A, B) == \A x \in A, y \in B : x.from = y.from => x.n < y.n
Elems(s) == {s[k] : k \in DOMAIN s}
Ascending(s) == \A j, k \in DOMAIN s :
                    j < k /\ s[j].from = s[k].from => s[j].n < s[k].n

\* What has been sent on to an instance.
Pending(i) == Elems(got[i]) \cup out[i] \cup Elems(buf[i])

\* An Rpc moves from held to buf to out to got, behind every Rpc that its
\* sender read earlier.
OrderOK ==
    /\ \A i \in Insts : \A r \in held[i] : r.from = i /\ r.n <= rpcs
    /\ \A i \in Insts : \A r \in Pending(i) : r.to = owner[i] /\ r.n <= rpcs
    /\ \A i, j \in Insts : Before(Pending(i), held[j])
    /\ \A i \in Insts : Ascending(got[i]) /\ Ascending(buf[i])
    /\ \A i \in Insts : Before(Elems(got[i]), out[i] \cup Elems(buf[i]))
    /\ \A i \in Insts : Before(out[i], Elems(buf[i]))

IInv == TypeOK /\ InstOK /\ CountOK /\ TableOK /\ OrderOK

-----------------------------------------------------------------------------
\* The operators the steps are made of.

\* Finitely many Rpcs are held.
LEMMA HoldingCount == IsFiniteSet(Holding) /\ Cardinality(Holding) \in Nat
<1>1. IsFiniteSet(Insts)
  BY ProxyBounds, FS_Interval DEF Insts
<1>2. Holding \subseteq Insts
  BY DEF Holding
<1>3. QED
  BY <1>1, <1>2, FS_Subset, FS_CardinalityType

\* While AddClient may be called, there is room for another instance.
LEMMA RoomToAdd ==
    ASSUME TypeOK, CountOK, adds < MaxAdds
    PROVE  Fresh \in Insts
  BY HoldingCount, ProxyBounds DEF TypeOK, CountOK, Fresh, Insts

\* So there is for the destination of an Rpc that is held.
LEMMA RoomToDial ==
    ASSUME TypeOK, CountOK, NEW i \in Insts, rd[i] = "send"
    PROVE  Fresh \in Insts
<1>1. i \in Holding
  BY DEF Holding
<1>2. /\ Cardinality(Holding \ {i}) = Cardinality(Holding) - 1
      /\ Cardinality(Holding \ {i}) \in Nat
  BY <1>1, HoldingCount, FS_RemoveElement, FS_CardinalityType
<1>3. Cardinality(Holding) >= 1
  BY <1>2, HoldingCount
<1>4. QED
  BY <1>3, HoldingCount, ProxyBounds DEF TypeOK, CountOK, Fresh, Insts

\* Register appends one instance and registers it.
LEMMA RegisterOK ==
    ASSUME TypeOK, NEW id \in Ids, Register(id)
    PROVE  /\ owner' \in Seq(Ids) /\ Len(owner') = Fresh
           /\ DOMAIN owner' = 1..Fresh /\ owner'[Fresh] = id
           /\ \A k \in DOMAIN owner : owner'[k] = owner[k]
           /\ DOMAIN owner = 1..Len(owner) /\ Len(owner) \in Nat
           /\ Fresh \in Nat /\ Fresh = Len(owner) + 1
           /\ clients' = [clients EXCEPT ![id] = Fresh]
           /\ clients' \in [Ids -> 0..Len(owner')]
<1>1. owner \in Seq(Ids) /\ Len(owner) \in Nat /\ DOMAIN owner = 1..Len(owner)
  BY DEF TypeOK
<1>2. /\ owner' \in Seq(Ids) /\ Len(owner') = Len(owner) + 1
      /\ DOMAIN owner' = 1..(Len(owner) + 1) /\ owner'[Len(owner) + 1] = id
      /\ \A k \in DOMAIN owner : owner'[k] = owner[k]
  BY <1>1 DEF Register
<1>3. clients' = [clients EXCEPT ![id] = Fresh]
  BY DEF Register
<1>4. clients' \in [Ids -> 0..Len(owner')]
  BY <1>1, <1>2, <1>3 DEF TypeOK, Fresh
<1>5. QED
  BY <1>1, <1>2, <1>3, <1>4 DEF Fresh

\* Offer never overfills a buffer, and touches no other.
LEMMA OfferOK ==
    ASSUME TypeOK, NEW i \in Insts, NEW r \in Rpc, Offer(i, r)
    PROVE  /\ buf' \in [Insts -> Seq(Rpc)]
           /\ \A k \in Insts : Len(buf'[k]) <= Cap
           /\ \A k \in Insts \ {i} : buf'[k] = buf[k]
           /\ buf'[i] \in {buf[i], Append(buf[i], r)}
<1>1. buf[i] \in Seq(Rpc) /\ Len(buf[i]) \in Nat
  BY DEF TypeOK
<1>2. CASE Len(buf[i]) < Cap
  <2>1. buf' = [buf EXCEPT ![i] = Append(buf[i], r)]
    BY <1>2 DEF Offer
  <2>2. Append(buf[i], r) \in Seq(Rpc) /\ Len(Append(buf[i], r)) <= Cap
    BY <1>1, <1>2, ProxyBounds
  <2>3. QED
    BY <2>1, <2>2 DEF TypeOK
<1>3. CASE ~(Len(buf[i]) < Cap)
  BY <1>3 DEF Offer, TypeOK
<1>4. QED
  BY <1>2, <1>3

-----------------------------------------------------------------------------
\* Every step keeps the types.
LEMMA TypeStep == IInv /\ [Next]_vars => TypeOK'
<1> SUFFICES ASSUME TypeOK, InstOK, CountOK, TableOK, [Next]_vars PROVE TypeOK'
  BY DEF IInv
<1>1. ASSUME CtxDone PROVE TypeOK'
  BY <1>1, ProxyBounds DEF CtxDone, instVars, TypeOK, Insts, Rpc
<1>2. ASSUME ServeReturns PROVE TypeOK'
  BY <1>2, ProxyBounds DEF ServeReturns, instVars, TypeOK, Insts, Rpc
<1>3. ASSUME NEW id \in Ids, AddClient(id) PROVE TypeOK'
  <2>1. Fresh \in Insts
    BY <1>3, RoomToAdd DEF AddClient
  <2>2. /\ owner' \in Seq(Ids) /\ Len(owner') <= MaxAdds + MaxRpcs
        /\ clients' \in [Ids -> 0..Len(owner')]
    BY <1>3, <2>1, RegisterOK, ProxyBounds DEF AddClient, Insts
  <2>3. rd' \in [Insts -> {"none", "dial", "read", "send", "err", "exit"}]
    BY <1>3, <2>1 DEF AddClient, TypeOK
  <2>4. wr' \in [Insts -> {"none", "select", "write", "err", "exit"}]
    BY <1>3, <2>1 DEF AddClient, TypeOK
  <2>5. adds' \in 0..MaxAdds
    BY <1>3, ProxyBounds DEF AddClient, TypeOK
  <2>6. QED
    BY <1>3, <2>2, <2>3, <2>4, <2>5 DEF AddClient, TypeOK
<1>4. ASSUME NEW i \in Insts, forwardRpc(i) PROVE TypeOK'
  <2>1. PICK r \in held[i] :
            /\ r.to \in Ids /\ clients[r.to] # 0
            /\ Offer(clients[r.to], r)
            /\ SendRpc(i, [rd EXCEPT ![i] = "read"])
            /\ UNCHANGED <<owner, clients>>
    BY <1>4 DEF forwardRpc
  <2>2. r \in Rpc /\ clients[r.to] \in Insts
    BY <2>1, ProxyBounds DEF TypeOK, Insts
  <2>3. buf' \in [Insts -> Seq(Rpc)] /\ \A k \in Insts : Len(buf'[k]) <= Cap
    BY <2>1, <2>2, OfferOK
  <2>4. rd' \in [Insts -> {"none", "dial", "read", "send", "err", "exit"}]
    BY <2>1 DEF SendRpc, TypeOK
  <2>5. held' \in [Insts -> SUBSET Rpc]
    BY <2>1 DEF SendRpc, TypeOK
  <2>6. QED
    BY <2>1, <2>3, <2>4, <2>5 DEF SendRpc, TypeOK
<1>5. ASSUME NEW i \in Insts, forwardRpcDial(i) PROVE TypeOK'
  <2>1. PICK r \in held[i] :
            /\ r.to \in Ids /\ clients[r.to] = 0
            /\ Register(r.to)
            /\ Offer(Fresh, r)
            /\ SendRpc(i, [rd EXCEPT ![i] = "read", ![Fresh] = "dial"])
    BY <1>5 DEF forwardRpcDial
  <2>2. r \in Rpc /\ Fresh \in Insts
    BY <2>1, RoomToDial DEF SendRpc, TypeOK
  <2>3. buf' \in [Insts -> Seq(Rpc)] /\ \A k \in Insts : Len(buf'[k]) <= Cap
    BY <2>1, <2>2, OfferOK
  <2>4. rd' \in [Insts -> {"none", "dial", "read", "send", "err", "exit"}]
    BY <2>1, <2>2 DEF SendRpc, TypeOK
  <2>5. held' \in [Insts -> SUBSET Rpc]
    BY <2>1 DEF SendRpc, TypeOK
  <2>6. /\ owner' \in Seq(Ids) /\ Len(owner') <= MaxAdds + MaxRpcs
        /\ clients' \in [Ids -> 0..Len(owner')]
    BY <2>1, <2>2, RegisterOK, ProxyBounds DEF Insts
  <2>7. QED
    BY <2>1, <2>3, <2>4, <2>5, <2>6 DEF SendRpc, TypeOK
<1>6. ASSUME NEW i \in Insts, forwardRpcRejected(i) PROVE TypeOK'
  BY <1>6, ProxyBounds DEF forwardRpcRejected, SendRpc, TypeOK, Insts, Rpc
<1>7. ASSUME NEW i \in Insts, connect(i) PROVE TypeOK'
  BY <1>7, ProxyBounds DEF connect, TypeOK, Insts, Rpc
<1>8. ASSUME NEW i \in Insts, ReadOk(i) PROVE TypeOK'
  <2>1. PICK id \in Ids \cup {"rejected"} :
            held' = [held EXCEPT
                        ![i] = {[from |-> i, to |-> id, n |-> rpcs + 1]}]
    BY <1>8 DEF ReadOk
  <2>2. rpcs + 1 \in 1..MaxRpcs /\ rpcs' \in 0..MaxRpcs
    BY <1>8, ProxyBounds DEF ReadOk, TypeOK
  <2>3. [from |-> i, to |-> id, n |-> rpcs + 1] \in Rpc
    BY <2>2 DEF Rpc
  <2>4. held' \in [Insts -> SUBSET Rpc]
    BY <2>1, <2>3 DEF TypeOK
  <2>5. QED
    BY <1>8, <2>2, <2>4 DEF ReadOk, RdStep, TypeOK
<1>9. ASSUME NEW i \in Insts, ReadErr(i) PROVE TypeOK'
  BY <1>9, ProxyBounds DEF ReadErr, RdStep, TypeOK, Insts, Rpc
<1>10. ASSUME NEW i \in Insts, SendCtx(i) PROVE TypeOK'
  BY <1>10, ProxyBounds DEF SendCtx, GroupDone, RdStep, TypeOK, Insts, Rpc
<1>11. ASSUME NEW i \in Insts, ReadErrCommand(i) PROVE TypeOK'
  <2>1. told[i] \in 0..2 /\ Len(owner) \in Nat /\ 0 \in 0..Len(owner)
    BY DEF TypeOK
  <2>2. told[i] <= IF wr[i] = "exit" THEN 1 ELSE 0
    BY <1>11, <2>1 DEF ReadErrCommand, InstOK
  <2>3. told[i] + 1 \in 0..2
    BY <2>1, <2>2
  <2>4. told' \in [Insts -> 0..2]
    BY <1>11, <2>3 DEF ReadErrCommand, ErrorCommand, TypeOK
  <2>5. clients' \in [Ids -> 0..Len(owner)]
    BY <1>11, <2>1 DEF ReadErrCommand, ErrorCommand, Forget, TypeOK
  <2>6. QED
    BY <1>11, <2>4, <2>5 DEF ReadErrCommand, ErrorCommand, TypeOK
<1>12. ASSUME NEW i \in Insts, WriteBegin(i) PROVE TypeOK'
  <2>1. buf[i] \in Seq(Rpc) /\ buf[i] # <<>> /\ Len(buf[i]) <= Cap
    BY <1>12 DEF WriteBegin, TypeOK
  <2>2. /\ Head(buf[i]) \in Rpc /\ Tail(buf[i]) \in Seq(Rpc)
        /\ Len(Tail(buf[i])) <= Cap
    BY <2>1, ProxyBounds
  <2>3. buf' \in [Insts -> Seq(Rpc)] /\ \A k \in Insts : Len(buf'[k]) <= Cap
    BY <1>12, <2>2 DEF WriteBegin, TypeOK
  <2>4. out' \in [Insts -> SUBSET Rpc]
    BY <1>12, <2>2 DEF WriteBegin, TypeOK
  <2>5. QED
    BY <1>12, <2>3, <2>4 DEF WriteBegin, WrStep, TypeOK
<1>13. ASSUME NEW i \in Insts, WriteOk(i) PROVE TypeOK'
  <2>1. PICK r \in out[i] : got' = [got EXCEPT ![i] = Append(@, r)]
    BY <1>13 DEF WriteOk
  <2>2. got' \in [Insts -> Seq(Rpc)]
    BY <2>1 DEF TypeOK
  <2>3. out' \in [Insts -> SUBSET Rpc]
    BY <1>13 DEF WriteOk, TypeOK
  <2>4. QED
    BY <1>13, <2>2, <2>3 DEF WriteOk, WrStep, TypeOK
<1>14. ASSUME NEW i \in Insts, WriteErr(i) PROVE TypeOK'
  BY <1>14, ProxyBounds DEF WriteErr, WrStep, TypeOK, Insts, Rpc
<1>15. ASSUME NEW i \in Insts, WriteCtx(i) PROVE TypeOK'
  BY <1>15, ProxyBounds DEF WriteCtx, GroupDone, WrStep, TypeOK, Insts, Rpc
<1>16. ASSUME NEW i \in Insts, WriteErrCommand(i) PROVE TypeOK'
  <2>1. told[i] \in 0..2 /\ Len(owner) \in Nat /\ 0 \in 0..Len(owner)
    BY DEF TypeOK
  <2>2. told[i] <= IF rd[i] = "exit" THEN 1 ELSE 0
    BY <1>16, <2>1 DEF WriteErrCommand, InstOK
  <2>3. told[i] + 1 \in 0..2
    BY <2>1, <2>2
  <2>4. told' \in [Insts -> 0..2]
    BY <1>16, <2>3 DEF WriteErrCommand, ErrorCommand, TypeOK
  <2>5. clients' \in [Ids -> 0..Len(owner)]
    BY <1>16, <2>1 DEF WriteErrCommand, ErrorCommand, Forget, TypeOK
  <2>6. QED
    BY <1>16, <2>4, <2>5 DEF WriteErrCommand, ErrorCommand, TypeOK
<1>17. CASE UNCHANGED vars
  BY <1>17 DEF vars, instVars, TypeOK, Insts, Rpc
<1>18. QED
  BY <1>1, <1>2, <1>3, <1>4, <1>5, <1>6, <1>7, <1>8, <1>9, <1>10, <1>11,
     <1>12, <1>13, <1>14, <1>15, <1>16, <1>17 DEF Next, Forward, Write

\* Every step keeps the instances.
LEMMA InstStep == IInv /\ [Next]_vars => InstOK'
<1> SUFFICES ASSUME TypeOK, InstOK, CountOK, TableOK, [Next]_vars PROVE InstOK'
  BY DEF IInv
<1>1. ASSUME CtxDone PROVE InstOK'
  BY <1>1 DEF CtxDone, instVars, TypeOK, InstOK
<1>2. ASSUME ServeReturns PROVE InstOK'
  BY <1>2 DEF ServeReturns, instVars, TypeOK, InstOK
<1>3. ASSUME NEW id \in Ids, AddClient(id) PROVE InstOK'
  <2>1. Fresh \in Insts
    BY <1>3, RoomToAdd DEF AddClient
  <2>2. /\ DOMAIN owner' = 1..Fresh /\ DOMAIN owner = 1..Len(owner)
        /\ Len(owner) \in Nat /\ Fresh = Len(owner) + 1
    BY <1>3, RegisterOK DEF AddClient
  <2>3. \A k \in Insts : k \in DOMAIN owner' <=> k = Fresh \/ k \in DOMAIN owner
    BY <2>2 DEF Insts
  <2>4. /\ \A k \in Insts \ {Fresh} : rd'[k] = rd[k] /\ wr'[k] = wr[k]
        /\ rd'[Fresh] = "read" /\ wr'[Fresh] = "select"
        /\ UNCHANGED <<held, out, buf, got, told>>
    BY <1>3, <2>1 DEF AddClient, TypeOK
  <2>5. wr[Fresh] = "none" /\ rd[Fresh] = "none"
    BY <2>1, <2>2 DEF InstOK
  <2>6. QED
    BY <2>1, <2>3, <2>4, <2>5 DEF InstOK
<1>4. ASSUME NEW i \in Insts, forwardRpc(i) PROVE InstOK'
  <2>1. PICK r \in held[i] :
            /\ r.to \in Ids /\ clients[r.to] # 0
            /\ Offer(clients[r.to], r)
            /\ SendRpc(i, [rd EXCEPT ![i] = "read"])
            /\ UNCHANGED <<owner, clients>>
    BY <1>4 DEF forwardRpc
  <2>2. r \in Rpc /\ clients[r.to] \in Insts /\ clients[r.to] \in DOMAIN owner
    BY <2>1, ProxyBounds DEF TypeOK, Insts
  <2>3. \A k \in Insts : k \notin DOMAIN owner => buf'[k] = buf[k]
    BY <2>1, <2>2, OfferOK
  <2>4. /\ \A k \in Insts \ {i} : rd'[k] = rd[k] /\ held'[k] = held[k]
        /\ rd[i] = "send" /\ rd'[i] = "read" /\ held'[i] = {}
        /\ UNCHANGED <<owner, wr, out, got, told>>
    BY <2>1 DEF SendRpc, TypeOK
  <2>5. QED
    BY <2>3, <2>4 DEF InstOK
<1>5. ASSUME NEW i \in Insts, forwardRpcDial(i) PROVE InstOK'
  <2>1. PICK r \in held[i] :
            /\ r.to \in Ids /\ clients[r.to] = 0
            /\ Register(r.to)
            /\ Offer(Fresh, r)
            /\ SendRpc(i, [rd EXCEPT ![i] = "read", ![Fresh] = "dial"])
    BY <1>5 DEF forwardRpcDial
  <2>2. r \in Rpc /\ Fresh \in Insts
    BY <2>1, RoomToDial DEF SendRpc, TypeOK
  <2>3. /\ DOMAIN owner' = 1..Fresh /\ DOMAIN owner = 1..Len(owner)
        /\ Len(owner) \in Nat /\ Fresh = Len(owner) + 1
    BY <2>1, RegisterOK
  <2>4. \A k \in Insts : k \in DOMAIN owner' <=> k = Fresh \/ k \in DOMAIN owner
    BY <2>3 DEF Insts
  <2>5. \A k \in Insts \ {Fresh} : buf'[k] = buf[k]
    BY <2>1, <2>2, OfferOK
  <2>6. /\ wr[Fresh] = "none" /\ rd[Fresh] = "none" /\ rd[i] = "send"
        /\ i # Fresh
    BY <2>1, <2>2, <2>3 DEF InstOK, SendRpc
  <2>7. /\ \A k \in Insts \ {i, Fresh} : rd'[k] = rd[k] /\ held'[k] = held[k]
        /\ rd'[i] = "read" /\ held'[i] = {} /\ rd'[Fresh] = "dial"
        /\ UNCHANGED <<wr, out, got, told>>
    BY <2>1, <2>2, <2>6 DEF SendRpc, TypeOK
  <2>8. QED
    BY <2>2, <2>4, <2>5, <2>6, <2>7 DEF InstOK
<1>6. ASSUME NEW i \in Insts, forwardRpcRejected(i) PROVE InstOK'
  BY <1>6 DEF forwardRpcRejected, SendRpc, TypeOK, InstOK
<1>7. ASSUME NEW i \in Insts, connect(i) PROVE InstOK'
  <2>1. /\ \A k \in Insts \ {i} : rd'[k] = rd[k] /\ wr'[k] = wr[k]
        /\ rd[i] = "dial" /\ rd'[i] \in {"read", "err"}
        /\ wr'[i] \in {"select", wr[i]}
        /\ UNCHANGED <<owner, held, out, buf, got, told>>
    BY <1>7 DEF connect, TypeOK
  <2>2. QED
    BY <2>1 DEF InstOK
<1>8. ASSUME NEW i \in Insts, ReadOk(i) PROVE InstOK'
  BY <1>8 DEF ReadOk, RdStep, TypeOK, InstOK
<1>9. ASSUME NEW i \in Insts, ReadErr(i) PROVE InstOK'
  BY <1>9 DEF ReadErr, RdStep, TypeOK, InstOK
<1>10. ASSUME NEW i \in Insts, SendCtx(i) PROVE InstOK'
  <2>1. /\ \A k \in Insts \ {i} : rd'[k] = rd[k] /\ held'[k] = held[k]
        /\ rd[i] = "send" /\ rd'[i] = "exit" /\ held'[i] = {}
        /\ UNCHANGED <<owner, wr, out, buf, got, told>>
    BY <1>10 DEF SendCtx, RdStep, TypeOK
  <2>2. told \in [Insts -> 0..2]
    BY DEF TypeOK
  <2>3. QED
    BY <2>1, <2>2 DEF InstOK
<1>11. ASSUME NEW i \in Insts, ReadErrCommand(i) PROVE InstOK'
  <2>1. /\ \A k \in Insts \ {i} : rd'[k] = rd[k] /\ told'[k] = told[k]
        /\ rd[i] = "err" /\ rd'[i] = "exit" /\ told'[i] = told[i] + 1
        /\ UNCHANGED <<owner, wr, held, out, buf, got>>
    BY <1>11 DEF ReadErrCommand, ErrorCommand, TypeOK
  <2>2. told \in [Insts -> 0..2]
    BY DEF TypeOK
  <2>3. QED
    BY <2>1, <2>2 DEF InstOK
<1>12. ASSUME NEW i \in Insts, WriteBegin(i) PROVE InstOK'
  BY <1>12 DEF WriteBegin, WrStep, TypeOK, InstOK
<1>13. ASSUME NEW i \in Insts, WriteOk(i) PROVE InstOK'
  BY <1>13 DEF WriteOk, WrStep, TypeOK, InstOK
<1>14. ASSUME NEW i \in Insts, WriteErr(i) PROVE InstOK'
  BY <1>14 DEF WriteErr, WrStep, TypeOK, InstOK
<1>15. ASSUME NEW i \in Insts, WriteCtx(i) PROVE InstOK'
  <2>1. /\ \A k \in Insts \ {i} : wr'[k] = wr[k]
        /\ wr[i] = "select" /\ wr'[i] = "exit"
        /\ UNCHANGED <<owner, rd, held, out, buf, got, told>>
    BY <1>15 DEF WriteCtx, WrStep, TypeOK
  <2>2. told \in [Insts -> 0..2]
    BY DEF TypeOK
  <2>3. QED
    BY <2>1, <2>2 DEF InstOK
<1>16. ASSUME NEW i \in Insts, WriteErrCommand(i) PROVE InstOK'
  <2>1. /\ \A k \in Insts \ {i} : wr'[k] = wr[k] /\ told'[k] = told[k]
        /\ wr[i] = "err" /\ wr'[i] = "exit" /\ told'[i] = told[i] + 1
        /\ UNCHANGED <<owner, rd, held, out, buf, got>>
    BY <1>16 DEF WriteErrCommand, ErrorCommand, TypeOK
  <2>2. told \in [Insts -> 0..2]
    BY DEF TypeOK
  <2>3. QED
    BY <2>1, <2>2 DEF InstOK
<1>17. CASE UNCHANGED vars
  BY <1>17 DEF vars, instVars, InstOK
<1>18. QED
  BY <1>1, <1>2, <1>3, <1>4, <1>5, <1>6, <1>7, <1>8, <1>9, <1>10, <1>11,
     <1>12, <1>13, <1>14, <1>15, <1>16, <1>17 DEF Next, Forward, Write

\* The registered instances are instances.
LEMMA DomainInsts == TypeOK => DOMAIN owner \subseteq Insts
  BY ProxyBounds DEF TypeOK, Insts

\* A new client takes its id's entry: the one that had it is not the
\* newest any more, and nobody else's entry changes.
LEMMA RegisterKeeps ==
    ASSUME TypeOK, TableOK, NEW id \in Ids, Register(id), ctx' = ctx,
           told' = told,
           rd'[Fresh] # "exit", wr'[Fresh] # "exit",
           \A k \in Insts \ {Fresh} :
               /\ wr'[k] = wr[k]
               /\ \/ rd'[k] = rd[k]
                  \/ rd[k] \in {"read", "send"} /\ rd'[k] \in {"read", "send"}
    PROVE  TableOK'
<1>1. /\ DOMAIN owner' = 1..Fresh /\ owner'[Fresh] = id
      /\ \A k \in DOMAIN owner : owner'[k] = owner[k] /\ owner[k] \in Ids
      /\ DOMAIN owner = 1..Len(owner) /\ Len(owner) \in Nat
      /\ Fresh \in Nat /\ Fresh = Len(owner) + 1
      /\ clients' = [clients EXCEPT ![id] = Fresh]
  BY RegisterOK DEF TypeOK
<1>2. clients \in [Ids -> 0..Len(owner)]
  BY DEF TypeOK
<1>3. ASSUME NEW j \in Ids, clients'[j] # 0 PROVE owner'[clients'[j]] = j
  <2>1. CASE j = id
    BY <1>1, <1>2, <2>1
  <2>2. CASE j # id
    <3>1. clients'[j] = clients[j] /\ clients[j] \in DOMAIN owner
      BY <1>1, <1>2, <1>3, <2>2
    <3>2. QED
      BY <3>1, <1>1, <1>3 DEF TableOK
  <2>3. QED
    BY <2>1, <2>2
<1>4. ASSUME NEW k \in DOMAIN owner'
      PROVE  /\ Healthy(k)' /\ Unchallenged(k)' => clients'[owner'[k]] = k
             /\ ctx = "live" /\ "exit" \in {rd'[k], wr'[k]} =>
                    clients'[owner'[k]] # k
  <2>1. CASE k = Fresh
    BY <1>1, <1>2, <2>1
  <2>2. CASE k \in DOMAIN owner
    <3>1. /\ k # Fresh /\ k \in Insts /\ owner'[k] = owner[k]
          /\ owner[k] \in Ids /\ Fresh \in DOMAIN owner'
      BY <1>1, <2>2, DomainInsts
    <3>2. Unchallenged(k)' => owner[k] # id
      BY <1>1, <3>1 DEF Unchallenged
    <3>3. Unchallenged(k)' => Unchallenged(k)
      BY <1>1 , <3>1 DEF Unchallenged
    <3>4. owner[k] # id => clients'[owner[k]] = clients[owner[k]]
      BY <1>1, <1>2, <3>1
    <3>5. Healthy(k)' => Healthy(k)
      BY <3>1 DEF Healthy
    <3>6. "exit" \in {rd'[k], wr'[k]} => "exit" \in {rd[k], wr[k]}
      BY <3>1
    <3>7. owner[k] = id => clients'[owner[k]] = Fresh
      BY <1>1, <1>2, <3>1
    <3>8. QED
      BY <2>2, <3>1, <3>2, <3>3, <3>4, <3>5, <3>6, <3>7
         DEF TableOK, TableTrue, HealthyReachable, NoDeadClient
  <2>3. QED
    BY <1>1, <2>1, <2>2
<1>5. QED
  BY <1>3, <1>4 DEF TableOK, TableTrue, HealthyReachable, NoDeadClient

\* A step that neither heals a client nor ends a loop of one that had none
\* ended keeps the table, if it does not touch it.
LEMMA TableKeeps ==
    ASSUME TableOK, UNCHANGED <<owner, clients, told, ctx>>,
           \A k \in DOMAIN owner :
               /\ Healthy(k)' => Healthy(k)
               /\ ctx = "live" /\ "exit" \in {rd'[k], wr'[k]} =>
                      "exit" \in {rd[k], wr[k]}
    PROVE  TableOK'
<1>1. \A k \in DOMAIN owner : Unchallenged(k)' => Unchallenged(k)
  BY DEF Unchallenged
<1>2. HealthyReachable'
  BY <1>1 DEF TableOK, TableTrue, HealthyReachable
<1>3. NoDeadClient'
  BY DEF TableOK, TableTrue, NoDeadClient
<1>4. QED
  BY <1>2, <1>3 DEF TableOK, TableTrue

\* Every step keeps the table.
LEMMA TableStep == IInv /\ [Next]_vars => TableOK'
<1> SUFFICES ASSUME TypeOK, InstOK, CountOK, TableOK, [Next]_vars PROVE TableOK'
  BY DEF IInv
<1>1. ASSUME CtxDone PROVE TableOK'
  BY <1>1 DEF CtxDone, instVars, TypeOK, TableOK, TableTrue, HealthyReachable,
     NoDeadClient, Healthy, Unchallenged
<1>2. ASSUME ServeReturns PROVE TableOK'
  BY <1>2 DEF ServeReturns, instVars, TypeOK, TableOK, TableTrue,
     HealthyReachable, NoDeadClient, Healthy, Unchallenged
<1>3. ASSUME NEW id \in Ids, AddClient(id) PROVE TableOK'
  <2>1. Fresh \in Insts
    BY <1>3, RoomToAdd DEF AddClient
  <2>2. /\ \A k \in Insts \ {Fresh} : rd'[k] = rd[k] /\ wr'[k] = wr[k]
        /\ rd'[Fresh] = "read" /\ wr'[Fresh] = "select" /\ ctx' = ctx
        /\ told' = told
    BY <1>3, <2>1 DEF AddClient, TypeOK
  <2>3. QED
    BY <1>3, <2>2, RegisterKeeps DEF AddClient
<1>4. ASSUME NEW i \in Insts, forwardRpc(i) PROVE TableOK'
  <2>1. /\ UNCHANGED <<owner, clients, told, ctx>>
        /\ \A k \in Insts :
               /\ Healthy(k)' => Healthy(k)
               /\ ctx = "live" /\ "exit" \in {rd'[k], wr'[k]} =>
                      "exit" \in {rd[k], wr[k]}
    BY <1>4 DEF forwardRpc, SendRpc, TypeOK, Healthy
  <2>2. QED
    BY <2>1, TableKeeps, DomainInsts
<1>5. ASSUME NEW i \in Insts, forwardRpcDial(i) PROVE TableOK'
  <2>1. PICK r \in held[i] :
            /\ r.to \in Ids /\ clients[r.to] = 0
            /\ Register(r.to)
            /\ Offer(Fresh, r)
            /\ SendRpc(i, [rd EXCEPT ![i] = "read", ![Fresh] = "dial"])
    BY <1>5 DEF forwardRpcDial
  <2>2. Fresh \in Insts
    BY <2>1, RoomToDial DEF SendRpc, TypeOK
  <2>3. Fresh \notin DOMAIN owner
    BY <2>1, RegisterOK
  <2>4. rd[i] = "send" /\ i # Fresh /\ wr[Fresh] = "none"
    BY <2>1, <2>2, <2>3 DEF SendRpc, InstOK
  <2>5. /\ \A k \in Insts \ {i, Fresh} : rd'[k] = rd[k]
        /\ rd'[i] = "read" /\ rd'[Fresh] = "dial" /\ UNCHANGED <<wr, ctx, told>>
    BY <2>1, <2>2, <2>4 DEF SendRpc, TypeOK
  <2>6. \A k \in Insts \ {Fresh} :
            /\ wr'[k] = wr[k]
            /\ \/ rd'[k] = rd[k]
               \/ rd[k] \in {"read", "send"} /\ rd'[k] \in {"read", "send"}
    BY <2>4, <2>5
  <2>7. QED
    BY <2>1, <2>4, <2>5, <2>6, RegisterKeeps
<1>6. ASSUME NEW i \in Insts, forwardRpcRejected(i) PROVE TableOK'
  <2>1. /\ UNCHANGED <<owner, clients, told, ctx>>
        /\ \A k \in Insts :
               /\ Healthy(k)' => Healthy(k)
               /\ ctx = "live" /\ "exit" \in {rd'[k], wr'[k]} =>
                      "exit" \in {rd[k], wr[k]}
    BY <1>6 DEF forwardRpcRejected, SendRpc, TypeOK, Healthy
  <2>2. QED
    BY <2>1, TableKeeps, DomainInsts
<1>7. ASSUME NEW i \in Insts, connect(i) PROVE TableOK'
  <2>1. /\ \A k \in Insts \ {i} : rd'[k] = rd[k] /\ wr'[k] = wr[k]
        /\ rd[i] = "dial" /\ rd'[i] \in {"read", "err"}
        /\ wr[i] = "none" /\ wr'[i] \in {"select", "none"}
        /\ UNCHANGED <<owner, clients, ctx, told>>
    BY <1>7 DEF connect, TypeOK, InstOK
  <2>2. \A k \in DOMAIN owner : k \in Insts
    BY DomainInsts
  <2>3. QED
    BY <2>1, <2>2 DEF TableOK, TableTrue, HealthyReachable, NoDeadClient,
       Healthy, Unchallenged
<1>8. ASSUME NEW i \in Insts, ReadOk(i) PROVE TableOK'
  <2>1. /\ UNCHANGED <<owner, clients, told, ctx>>
        /\ \A k \in Insts :
               /\ Healthy(k)' => Healthy(k)
               /\ ctx = "live" /\ "exit" \in {rd'[k], wr'[k]} =>
                      "exit" \in {rd[k], wr[k]}
    BY <1>8 DEF ReadOk, RdStep, TypeOK, Healthy
  <2>2. QED
    BY <2>1, TableKeeps, DomainInsts
<1>9. ASSUME NEW i \in Insts, ReadErr(i) PROVE TableOK'
  <2>1. /\ UNCHANGED <<owner, clients, told, ctx>>
        /\ \A k \in Insts :
               /\ Healthy(k)' => Healthy(k)
               /\ ctx = "live" /\ "exit" \in {rd'[k], wr'[k]} =>
                      "exit" \in {rd[k], wr[k]}
    BY <1>9 DEF ReadErr, RdStep, TypeOK, Healthy
  <2>2. QED
    BY <2>1, TableKeeps, DomainInsts
<1>10. ASSUME NEW i \in Insts, SendCtx(i) PROVE TableOK'
  <2>1. /\ UNCHANGED <<owner, clients, told, ctx>>
        /\ \A k \in Insts :
               /\ Healthy(k)' => Healthy(k)
               /\ ctx = "live" /\ "exit" \in {rd'[k], wr'[k]} =>
                      "exit" \in {rd[k], wr[k]}
    BY <1>10 DEF SendCtx, GroupDone, RdStep, TypeOK, Healthy
  <2>2. QED
    BY <2>1, TableKeeps, DomainInsts
<1>11. ASSUME NEW i \in Insts, ReadErrCommand(i) PROVE TableOK'
  <2>1. i \in DOMAIN owner /\ owner[i] \in Ids
    BY <1>11 DEF ReadErrCommand, InstOK, TypeOK
  <2>2. /\ clients' = [clients EXCEPT ![owner[i]] = 0] /\ rd'[i] = "exit"
        /\ \A k \in Insts \ {i} : rd'[k] = rd[k] /\ told'[k] = told[k]
        /\ told[i] \in Nat /\ told'[i] = told[i] + 1
        /\ UNCHANGED <<owner, wr, ctx>>
    BY <1>11 DEF ReadErrCommand, ErrorCommand, Forget, TypeOK
  <2>3. \A id \in Ids : clients'[id] # 0 => owner'[clients'[id]] = id
    BY <2>1, <2>2 DEF TableOK, TypeOK
  <2>4. ASSUME NEW k \in DOMAIN owner
        PROVE  /\ Healthy(k)' /\ Unchallenged(k)' => clients'[owner[k]] = k
               /\ ctx = "live" /\ "exit" \in {rd'[k], wr'[k]} =>
                      clients'[owner[k]] # k
    <3>1. k \in Insts /\ owner[k] \in Ids /\ k # 0
      BY DomainInsts DEF TypeOK, Insts
    <3>2. CASE owner[k] = owner[i]
      <4>1. clients'[owner[k]] = 0
        BY <2>1, <2>2, <3>2 DEF TypeOK
      <4>2. Unchallenged(k)' => k = i
        BY <2>1, <2>2, <3>2 DEF Unchallenged
      <4>3. QED
        BY <3>1, <4>1, <4>2, <2>2 DEF Healthy
    <3>3. CASE owner[k] # owner[i]
      <4>1. /\ k # i /\ rd'[k] = rd[k] /\ wr'[k] = wr[k]
            /\ clients'[owner[k]] = clients[owner[k]]
        BY <2>1, <2>2, <3>1, <3>3 DEF TypeOK
      <4>2. Unchallenged(k)' => Unchallenged(k)
        BY <2>2, <3>3, DomainInsts DEF Unchallenged
      <4>3. QED
        BY <4>1, <4>2 DEF TableOK, TableTrue, HealthyReachable, NoDeadClient,
           Healthy
    <3>4. QED
      BY <3>2, <3>3
  <2>5. QED
    BY <2>2, <2>3, <2>4 DEF TableOK, TableTrue, HealthyReachable, NoDeadClient
<1>12. ASSUME NEW i \in Insts, WriteBegin(i) PROVE TableOK'
  <2>1. /\ UNCHANGED <<owner, clients, told, ctx>>
        /\ \A k \in Insts :
               /\ Healthy(k)' => Healthy(k)
               /\ ctx = "live" /\ "exit" \in {rd'[k], wr'[k]} =>
                      "exit" \in {rd[k], wr[k]}
    BY <1>12 DEF WriteBegin, WrStep, TypeOK, Healthy
  <2>2. QED
    BY <2>1, TableKeeps, DomainInsts
<1>13. ASSUME NEW i \in Insts, WriteOk(i) PROVE TableOK'
  <2>1. /\ UNCHANGED <<owner, clients, told, ctx>>
        /\ \A k \in Insts :
               /\ Healthy(k)' => Healthy(k)
               /\ ctx = "live" /\ "exit" \in {rd'[k], wr'[k]} =>
                      "exit" \in {rd[k], wr[k]}
    BY <1>13 DEF WriteOk, WrStep, TypeOK, Healthy
  <2>2. QED
    BY <2>1, TableKeeps, DomainInsts
<1>14. ASSUME NEW i \in Insts, WriteErr(i) PROVE TableOK'
  <2>1. /\ UNCHANGED <<owner, clients, told, ctx>>
        /\ \A k \in Insts :
               /\ Healthy(k)' => Healthy(k)
               /\ ctx = "live" /\ "exit" \in {rd'[k], wr'[k]} =>
                      "exit" \in {rd[k], wr[k]}
    BY <1>14 DEF WriteErr, WrStep, TypeOK, Healthy
  <2>2. QED
    BY <2>1, TableKeeps, DomainInsts
<1>15. ASSUME NEW i \in Insts, WriteCtx(i) PROVE TableOK'
  <2>1. /\ UNCHANGED <<owner, clients, told, ctx>>
        /\ \A k \in Insts :
               /\ Healthy(k)' => Healthy(k)
               /\ ctx = "live" /\ "exit" \in {rd'[k], wr'[k]} =>
                      "exit" \in {rd[k], wr[k]}
    BY <1>15 DEF WriteCtx, GroupDone, WrStep, TypeOK, Healthy
  <2>2. QED
    BY <2>1, TableKeeps, DomainInsts
<1>16. ASSUME NEW i \in Insts, WriteErrCommand(i) PROVE TableOK'
  <2>1. i \in DOMAIN owner /\ owner[i] \in Ids
    BY <1>16 DEF WriteErrCommand, InstOK, TypeOK
  <2>2. /\ clients' = [clients EXCEPT ![owner[i]] = 0] /\ wr'[i] = "exit"
        /\ \A k \in Insts \ {i} : wr'[k] = wr[k] /\ told'[k] = told[k]
        /\ told[i] \in Nat /\ told'[i] = told[i] + 1
        /\ UNCHANGED <<owner, rd, ctx>>
    BY <1>16 DEF WriteErrCommand, ErrorCommand, Forget, TypeOK
  <2>3. \A id \in Ids : clients'[id] # 0 => owner'[clients'[id]] = id
    BY <2>1, <2>2 DEF TableOK, TypeOK
  <2>4. ASSUME NEW k \in DOMAIN owner
        PROVE  /\ Healthy(k)' /\ Unchallenged(k)' => clients'[owner[k]] = k
               /\ ctx = "live" /\ "exit" \in {rd'[k], wr'[k]} =>
                      clients'[owner[k]] # k
    <3>1. k \in Insts /\ owner[k] \in Ids /\ k # 0
      BY DomainInsts DEF TypeOK, Insts
    <3>2. CASE owner[k] = owner[i]
      <4>1. clients'[owner[k]] = 0
        BY <2>1, <2>2, <3>2 DEF TypeOK
      <4>2. Unchallenged(k)' => k = i
        BY <2>1, <2>2, <3>2 DEF Unchallenged
      <4>3. QED
        BY <3>1, <4>1, <4>2, <2>2 DEF Healthy
    <3>3. CASE owner[k] # owner[i]
      <4>1. /\ k # i /\ wr'[k] = wr[k] /\ rd'[k] = rd[k]
            /\ clients'[owner[k]] = clients[owner[k]]
        BY <2>1, <2>2, <3>1, <3>3 DEF TypeOK
      <4>2. Unchallenged(k)' => Unchallenged(k)
        BY <2>2, <3>3, DomainInsts DEF Unchallenged
      <4>3. QED
        BY <4>1, <4>2 DEF TableOK, TableTrue, HealthyReachable, NoDeadClient,
           Healthy
    <3>4. QED
      BY <3>2, <3>3
  <2>5. QED
    BY <2>2, <2>3, <2>4 DEF TableOK, TableTrue, HealthyReachable, NoDeadClient
<1>17. CASE UNCHANGED vars
  BY <1>17 DEF vars, instVars, TableOK, TableTrue, HealthyReachable,
     NoDeadClient, Healthy, Unchallenged
<1>18. QED
  BY <1>1, <1>2, <1>3, <1>4, <1>5, <1>6, <1>7, <1>8, <1>9, <1>10, <1>11,
     <1>12, <1>13, <1>14, <1>15, <1>16, <1>17 DEF Next, Forward, Write

countVars == <<owner, rd, adds, rpcs>>

\* Steps that leave these variables alone keep the count.
LEMMA CountFrame == CountOK /\ UNCHANGED countVars => CountOK'
  BY DEF CountOK, Holding, countVars

\* Every step keeps the count of the instances.
LEMMA CountStep == IInv /\ [Next]_vars => CountOK'
<1> SUFFICES ASSUME TypeOK, InstOK, CountOK, [Next]_vars PROVE CountOK'
  BY DEF IInv
<1>1. ASSUME CtxDone PROVE CountOK'
  BY <1>1, CountFrame DEF CtxDone, instVars, countVars
<1>2. ASSUME ServeReturns PROVE CountOK'
  BY <1>2, CountFrame DEF ServeReturns, instVars, countVars
<1>3. ASSUME NEW id \in Ids, AddClient(id) PROVE CountOK'
  <2>1. rd[Fresh] # "send" /\ Fresh \in Insts
    BY <1>3, RoomToAdd, RegisterOK DEF AddClient, InstOK
  <2>2. Holding' = Holding
    BY <1>3, <2>1 DEF AddClient, Holding, TypeOK
  <2>3. /\ Len(owner') = Len(owner) + 1 /\ Len(owner) \in Nat
        /\ adds' = adds + 1 /\ rpcs' = rpcs
    BY <1>3, RegisterOK DEF AddClient
  <2>4. QED
    BY <2>2, <2>3, HoldingCount, ProxyBounds DEF CountOK, TypeOK
<1>4. ASSUME NEW i \in Insts, forwardRpc(i) PROVE CountOK'
  <2>1. Holding' = Holding \ {i} /\ i \in Holding
    BY <1>4 DEF forwardRpc, SendRpc, Holding, TypeOK
  <2>2. Cardinality(Holding') = Cardinality(Holding) - 1
    BY <2>1, HoldingCount, FS_RemoveElement
  <2>3. /\ UNCHANGED <<owner, adds, rpcs>> /\ Len(owner) \in Nat
        /\ adds \in Nat /\ rpcs \in Nat
    BY <1>4, ProxyBounds DEF forwardRpc, SendRpc, TypeOK
  <2>4. QED
    BY <2>2, <2>3, HoldingCount DEF CountOK
<1>5. ASSUME NEW i \in Insts, forwardRpcDial(i) PROVE CountOK'
  <2>1. PICK r \in held[i] :
            /\ r.to \in Ids /\ clients[r.to] = 0
            /\ Register(r.to)
            /\ Offer(Fresh, r)
            /\ SendRpc(i, [rd EXCEPT ![i] = "read", ![Fresh] = "dial"])
    BY <1>5 DEF forwardRpcDial
  <2>2. Fresh \in Insts /\ rd[i] = "send"
    BY <2>1, RoomToDial DEF SendRpc, TypeOK
  <2>3. rd[Fresh] = "none"
    BY <2>1, <2>2, RegisterOK DEF InstOK
  <2>4. Holding' = Holding \ {i} /\ i \in Holding
    BY <2>1, <2>2, <2>3 DEF SendRpc, Holding, TypeOK
  <2>5. Cardinality(Holding') = Cardinality(Holding) - 1
    BY <2>4, HoldingCount, FS_RemoveElement
  <2>6. /\ Len(owner') = Len(owner) + 1 /\ Len(owner) \in Nat
        /\ UNCHANGED <<adds, rpcs>> /\ adds \in Nat /\ rpcs \in Nat
    BY <2>1, RegisterOK, ProxyBounds DEF SendRpc, TypeOK
  <2>7. QED
    BY <2>5, <2>6, HoldingCount DEF CountOK
<1>6. ASSUME NEW i \in Insts, forwardRpcRejected(i) PROVE CountOK'
  <2>1. Holding' = Holding \ {i} /\ i \in Holding
    BY <1>6 DEF forwardRpcRejected, SendRpc, Holding, TypeOK
  <2>2. Cardinality(Holding') = Cardinality(Holding) - 1
    BY <2>1, HoldingCount, FS_RemoveElement
  <2>3. /\ UNCHANGED <<owner, adds, rpcs>> /\ Len(owner) \in Nat
        /\ adds \in Nat /\ rpcs \in Nat
    BY <1>6, ProxyBounds DEF forwardRpcRejected, SendRpc, TypeOK
  <2>4. QED
    BY <2>2, <2>3, HoldingCount DEF CountOK
<1>7. ASSUME NEW i \in Insts, connect(i) PROVE CountOK'
  <2>1. Holding' = Holding
    BY <1>7 DEF connect, Holding, TypeOK
  <2>2. QED
    BY <1>7, <2>1 DEF connect, CountOK
<1>8. ASSUME NEW i \in Insts, ReadOk(i) PROVE CountOK'
  <2>1. Holding' = Holding \cup {i} /\ i \notin Holding
    BY <1>8 DEF ReadOk, RdStep, Holding, TypeOK
  <2>2. Cardinality(Holding') = Cardinality(Holding) + 1
    BY <2>1, HoldingCount, FS_AddElement
  <2>3. /\ UNCHANGED <<owner, adds>> /\ rpcs' = rpcs + 1
        /\ Len(owner) \in Nat /\ adds \in Nat /\ rpcs \in Nat
    BY <1>8, ProxyBounds DEF ReadOk, RdStep, TypeOK
  <2>4. QED
    BY <2>2, <2>3, HoldingCount DEF CountOK
<1>9. ASSUME NEW i \in Insts, ReadErr(i) PROVE CountOK'
  <2>1. Holding' = Holding
    BY <1>9 DEF ReadErr, RdStep, Holding, TypeOK
  <2>2. QED
    BY <1>9, <2>1 DEF ReadErr, RdStep, CountOK
<1>10. ASSUME NEW i \in Insts, SendCtx(i) PROVE CountOK'
  <2>1. Holding' = Holding \ {i} /\ i \in Holding
    BY <1>10 DEF SendCtx, RdStep, Holding, TypeOK
  <2>2. Cardinality(Holding') = Cardinality(Holding) - 1
    BY <2>1, HoldingCount, FS_RemoveElement
  <2>3. /\ UNCHANGED <<owner, adds, rpcs>> /\ Len(owner) \in Nat
        /\ adds \in Nat /\ rpcs \in Nat
    BY <1>10, ProxyBounds DEF SendCtx, RdStep, TypeOK
  <2>4. QED
    BY <2>2, <2>3, HoldingCount DEF CountOK
<1>11. ASSUME NEW i \in Insts, ReadErrCommand(i) PROVE CountOK'
  <2>1. Holding' = Holding
    BY <1>11 DEF ReadErrCommand, ErrorCommand, Holding, TypeOK
  <2>2. QED
    BY <1>11, <2>1 DEF ReadErrCommand, ErrorCommand, CountOK
<1>12. ASSUME NEW i \in Insts, WriteBegin(i) PROVE CountOK'
  BY <1>12, CountFrame DEF WriteBegin, WrStep, countVars
<1>13. ASSUME NEW i \in Insts, WriteOk(i) PROVE CountOK'
  BY <1>13, CountFrame DEF WriteOk, WrStep, countVars
<1>14. ASSUME NEW i \in Insts, WriteErr(i) PROVE CountOK'
  BY <1>14, CountFrame DEF WriteErr, WrStep, countVars
<1>15. ASSUME NEW i \in Insts, WriteCtx(i) PROVE CountOK'
  BY <1>15, CountFrame DEF WriteCtx, GroupDone, WrStep, countVars
<1>16. ASSUME NEW i \in Insts, WriteErrCommand(i) PROVE CountOK'
  BY <1>16, CountFrame DEF WriteErrCommand, ErrorCommand, Forget, countVars
<1>17. CASE UNCHANGED vars
  BY <1>17, CountFrame DEF vars, instVars, countVars
<1>18. QED
  BY <1>1, <1>2, <1>3, <1>4, <1>5, <1>6, <1>7, <1>8, <1>9, <1>10, <1>11,
     <1>12, <1>13, <1>14, <1>15, <1>16, <1>17 DEF Next, Forward, Write
-----------------------------------------------------------------------------
\* The order of the Rpcs.

\* Appending an Rpc that comes after all others keeps a sequence ascending.
LEMMA AppendOK ==
    ASSUME NEW s \in Seq(Rpc), NEW r \in Rpc
    PROVE  /\ Elems(Append(s, r)) = Elems(s) \cup {r}
           /\ Ascending(s) /\ Before(Elems(s), {r}) => Ascending(Append(s, r))
<1> DEFINE t == Append(s, r)
<1>1. /\ Len(s) \in Nat /\ DOMAIN s = 1..Len(s) /\ DOMAIN t = 1..(Len(s) + 1)
      /\ t[Len(s) + 1] = r /\ \A k \in 1..Len(s) : t[k] = s[k]
  OBVIOUS
<1> HIDE DEF t
<1>2. Elems(t) = Elems(s) \cup {r}
  <2>1. Elems(t) \subseteq Elems(s) \cup {r}
    BY <1>1 DEF Elems
  <2>2. Elems(s) \cup {r} \subseteq Elems(t)
    BY <1>1 DEF Elems
  <2>3. QED
    BY <2>1, <2>2
<1>3. ASSUME Ascending(s), Before(Elems(s), {r}) PROVE Ascending(t)
  <2> SUFFICES ASSUME NEW j \in DOMAIN t, NEW k \in DOMAIN t,
                      j < k, t[j].from = t[k].from
               PROVE  t[j].n < t[k].n
    BY DEF Ascending
  <2>1. j \in DOMAIN s /\ t[j] = s[j] /\ s[j] \in Elems(s)
    BY <1>1 DEF Elems
  <2>2. CASE k = Len(s) + 1
    BY <1>1, <1>3, <2>1, <2>2 DEF Before
  <2>3. CASE k \in DOMAIN s
    BY <1>1, <1>3, <2>1, <2>3 DEF Ascending
  <2>4. QED
    BY <1>1, <2>2, <2>3
<1>4. QED
  BY <1>2, <1>3 DEF t

\* The first of an ascending sequence comes before the others, which are
\* ascending too.
LEMMA TailOK ==
    ASSUME NEW s \in Seq(Rpc), s # <<>>
    PROVE  /\ Elems(s) = {Head(s)} \cup Elems(Tail(s))
           /\ Ascending(s) => Ascending(Tail(s))
           /\ Ascending(s) => Before({Head(s)}, Elems(Tail(s)))
<1> DEFINE t == Tail(s)
<1>1. /\ Len(s) \in Nat \ {0} /\ DOMAIN s = 1..Len(s) /\ Head(s) = s[1]
      /\ DOMAIN t = 1..(Len(s) - 1) /\ \A k \in DOMAIN t : t[k] = s[k + 1]
  OBVIOUS
<1> HIDE DEF t
<1>2. Elems(s) = {Head(s)} \cup Elems(t)
  <2>1. Elems(s) \subseteq {Head(s)} \cup Elems(t)
    <3> SUFFICES ASSUME NEW k \in DOMAIN s, k # 1 PROVE s[k] \in Elems(t)
      BY <1>1 DEF Elems
    <3>1. k - 1 \in DOMAIN t /\ s[k] = t[k - 1]
      BY <1>1
    <3>2. QED
      BY <3>1 DEF Elems
  <2>2. {Head(s)} \cup Elems(t) \subseteq Elems(s)
    <3>1. 1 \in DOMAIN s /\ \A k \in DOMAIN t : k + 1 \in DOMAIN s
      BY <1>1
    <3>2. QED
      BY <1>1, <3>1 DEF Elems
  <2>3. QED
    BY <2>1, <2>2
<1>3. ASSUME Ascending(s) PROVE Ascending(t)
  <2>1. \A j, k \in DOMAIN t :
            /\ j + 1 \in DOMAIN s /\ k + 1 \in DOMAIN s
            /\ j < k => j + 1 < k + 1
    BY <1>1
  <2>2. QED
    BY <1>1, <1>3, <2>1 DEF Ascending
<1>4. ASSUME Ascending(s) PROVE Before({Head(s)}, Elems(t))
  <2>1. \A k \in DOMAIN t : k + 1 \in DOMAIN s /\ 1 \in DOMAIN s /\ 1 < k + 1
    BY <1>1
  <2>2. QED
    BY <1>1, <1>4, <2>1 DEF Ascending, Before, Elems
<1>5. QED
  BY <1>2, <1>3, <1>4 DEF t

orderVars == <<held, rpcs, got, out, buf, owner>>

\* Steps that move no Rpc keep their order.
LEMMA OrderFrame == OrderOK /\ UNCHANGED orderVars => OrderOK'
  BY DEF OrderOK, Pending, orderVars

\* Dropping what was held, and registering an instance, do too.
LEMMA OrderDrop ==
    ASSUME OrderOK, NEW i \in Insts, held \in [Insts -> SUBSET Rpc],
           held' = [held EXCEPT ![i] = {}],
           UNCHANGED <<rpcs, got, out, buf, owner>>
    PROVE  OrderOK'
<1>1. \A k \in Insts : held'[k] \subseteq held[k]
  OBVIOUS
<1>2. QED
  BY <1>1 DEF OrderOK, Pending, Before

\* An Rpc that is offered to an instance of its destination comes after those
\* that its sender sent there before.
LEMMA OrderOffer ==
    ASSUME TypeOK, OrderOK, NEW i \in Insts, NEW c \in Insts, NEW r \in held[i],
           Offer(c, r), held' = [held EXCEPT ![i] = {}],
           UNCHANGED <<rpcs, got, out>>, owner'[c] = r.to,
           \A k \in Insts \ {c} : Pending(k) = {} \/ owner'[k] = owner[k],
           Pending(c) = {} \/ owner'[c] = owner[c]
    PROVE  OrderOK'
<1>1. r \in Rpc /\ r.from = i /\ r.n <= rpcs
  BY DEF TypeOK, OrderOK
<1>2. /\ \A k \in Insts \ {c} : buf'[k] = buf[k]
      /\ buf'[c] \in {buf[c], Append(buf[c], r)}
      /\ buf[c] \in Seq(Rpc)
  BY <1>1, OfferOK DEF TypeOK
<1>3. Elems(buf'[c]) \subseteq Elems(buf[c]) \cup {r}
  BY <1>1, <1>2, AppendOK
<1>4. /\ \A k \in Insts : Pending(k)' \subseteq Pending(k) \cup {r}
      /\ \A k \in Insts \ {c} : Pending(k)' = Pending(k)
  BY <1>2, <1>3 DEF Pending
<1>5. \A k \in Insts : held'[k] \subseteq held[k] /\ held'[i] = {}
  BY DEF TypeOK
<1>6. Before(Pending(c), {r})
  BY DEF OrderOK, Before
<1>7. \A k \in Insts : \A x \in held'[k] : x.from = k /\ x.n <= rpcs'
  BY <1>5 DEF OrderOK
<1>8. ASSUME NEW k \in Insts, NEW x \in Pending(k)'
      PROVE  x.to = owner'[k] /\ x.n <= rpcs'
  BY <1>1, <1>4 DEF OrderOK
<1>9. ASSUME NEW k \in Insts, NEW j \in Insts
      PROVE  Before(Pending(k)', held'[j])
  <2>1. Before(Pending(k), held'[j])
    BY <1>5 DEF OrderOK, Before
  <2>2. Before({r}, held'[j])
    <3>1. CASE j = i
      BY <1>5, <3>1 DEF Before
    <3>2. CASE j # i
      BY <1>1, <1>7, <3>2 DEF Before
    <3>3. QED
      BY <3>1, <3>2
  <2>3. QED
    BY <1>4, <2>1, <2>2 DEF Before
<1>10. \A k \in Insts : Ascending(got'[k]) /\ Ascending(buf'[k])
  <2>1. Before(Elems(buf[c]), {r})
    BY <1>6 DEF Pending, Before
  <2>2. Ascending(buf'[c])
    BY <1>1, <1>2, <2>1, AppendOK DEF OrderOK
  <2>3. QED
    BY <1>2, <2>2 DEF OrderOK
<1>11. \A k \in Insts : /\ Before(Elems(got'[k]), out'[k] \cup Elems(buf'[k]))
                        /\ Before(out'[k], Elems(buf'[k]))
  <2>1. Before(Elems(got[c]), {r}) /\ Before(out[c], {r})
    BY <1>6 DEF Pending, Before
  <2>2. /\ Before(Elems(got[c]), out[c] \cup Elems(buf'[c]))
        /\ Before(out[c], Elems(buf'[c]))
    BY <1>3, <2>1 DEF OrderOK, Before
  <2>3. QED
    BY <1>2, <2>2 DEF OrderOK
<1>12. QED
  BY <1>7, <1>8, <1>9, <1>10, <1>11 DEF OrderOK

\* What is pending are Rpcs, and nothing is pending for an instance to come.
LEMMA PendingRpc == TypeOK => \A i \in Insts : Pending(i) \subseteq Rpc
  BY DEF TypeOK, Pending, Elems

\* Nothing was sent to an instance that does not exist.
LEMMA NothingPending ==
    InstOK => \A i \in Insts : i \notin DOMAIN owner => Pending(i) = {}
  BY DEF InstOK, Pending, Elems

\* Every step keeps the Rpcs of each sender in order, on their way to an
\* instance of their destination.
LEMMA OrderStep == IInv /\ [Next]_vars => OrderOK'
<1> SUFFICES ASSUME TypeOK, InstOK, CountOK, TableOK, OrderOK, [Next]_vars
             PROVE OrderOK'
  BY DEF IInv
<1>1. ASSUME CtxDone PROVE OrderOK'
  BY <1>1, OrderFrame DEF CtxDone, instVars, orderVars
<1>2. ASSUME ServeReturns PROVE OrderOK'
  BY <1>2, OrderFrame DEF ServeReturns, instVars, orderVars
<1>3. ASSUME NEW id \in Ids, AddClient(id) PROVE OrderOK'
  <2>1. Fresh \in Insts
    BY <1>3, RoomToAdd DEF AddClient
  <2>2. /\ \A k \in DOMAIN owner : owner'[k] = owner[k]
        /\ UNCHANGED <<held, rpcs, got, out, buf>>
    BY <1>3, RegisterOK DEF AddClient
  <2>3. \A k \in Insts : k \notin DOMAIN owner => Pending(k) = {}
    BY NothingPending
  <2>4. \A k \in Insts : Pending(k)' = Pending(k)
    BY <2>2 DEF Pending
  <2>5. \A k \in Insts : \A r \in Pending(k)' : r.to = owner'[k] /\ r.n <= rpcs'
    BY <2>2, <2>3, <2>4 DEF OrderOK
  <2>6. QED
    BY <2>2, <2>4, <2>5 DEF OrderOK
<1>4. ASSUME NEW i \in Insts, forwardRpc(i) PROVE OrderOK'
  <2>1. PICK r \in held[i] :
            /\ r.to \in Ids /\ clients[r.to] # 0
            /\ Offer(clients[r.to], r)
            /\ SendRpc(i, [rd EXCEPT ![i] = "read"])
            /\ UNCHANGED <<owner, clients>>
    BY <1>4 DEF forwardRpc
  <2>2. clients[r.to] \in Insts
    BY <2>1, ProxyBounds DEF TypeOK, Insts
  <2>3. owner'[clients[r.to]] = r.to
    BY <2>1 DEF TableOK
  <2>4. held' = [held EXCEPT ![i] = {}] /\ UNCHANGED <<rpcs, got, out, owner>>
    BY <2>1 DEF SendRpc
  <2>5. QED
    BY <2>1, <2>2, <2>3, <2>4, OrderOffer
<1>5. ASSUME NEW i \in Insts, forwardRpcDial(i) PROVE OrderOK'
  <2>1. PICK r \in held[i] :
            /\ r.to \in Ids /\ clients[r.to] = 0
            /\ Register(r.to)
            /\ Offer(Fresh, r)
            /\ SendRpc(i, [rd EXCEPT ![i] = "read", ![Fresh] = "dial"])
    BY <1>5 DEF forwardRpcDial
  <2>2. Fresh \in Insts
    BY <2>1, RoomToDial DEF SendRpc, TypeOK
  <2>3. /\ owner'[Fresh] = r.to /\ Fresh \notin DOMAIN owner
        /\ \A k \in DOMAIN owner : owner'[k] = owner[k]
    BY <2>1, RegisterOK
  <2>4. held' = [held EXCEPT ![i] = {}] /\ UNCHANGED <<rpcs, got, out>>
    BY <2>1 DEF SendRpc
  <2>5. \A k \in Insts : Pending(k) = {} \/ owner'[k] = owner[k]
    BY <2>3, NothingPending
  <2>6. QED
    BY <2>1, <2>2, <2>3, <2>4, <2>5, OrderOffer
<1>6. ASSUME NEW i \in Insts, forwardRpcRejected(i) PROVE OrderOK'
  BY <1>6, OrderDrop DEF forwardRpcRejected, SendRpc, TypeOK
<1>7. ASSUME NEW i \in Insts, connect(i) PROVE OrderOK'
  BY <1>7, OrderFrame DEF connect, orderVars
<1>8. ASSUME NEW i \in Insts, ReadOk(i) PROVE OrderOK'
  <2>1. PICK id \in Ids \cup {"rejected"} :
            held' = [held EXCEPT
                        ![i] = {[from |-> i, to |-> id, n |-> rpcs + 1]}]
    BY <1>8 DEF ReadOk
  <2>2. /\ rpcs' = rpcs + 1 /\ rpcs \in Nat
        /\ UNCHANGED <<got, out, buf, owner>>
    BY <1>8, ProxyBounds DEF ReadOk, RdStep, TypeOK
  <2>3. \A k \in Insts : /\ held'[k] = held[k] \/ k = i
                         /\ Pending(k)' = Pending(k)
    BY <2>1, <2>2 DEF Pending, TypeOK
  <2>4. \A x \in held'[i] : x.from = i /\ x.n = rpcs'
    BY <2>1, <2>2 DEF TypeOK
  <2>5. \A k \in Insts : \A x \in Pending(k) : x.n \in Nat /\ x.n <= rpcs
    BY PendingRpc DEF OrderOK, Rpc
  <2>6. \A k \in Insts : \A x \in held[k] : x.n \in Nat
    BY DEF TypeOK, Rpc
  <2>7. \A k \in Insts : \A x \in held'[k] : x.from = k /\ x.n <= rpcs'
    BY <2>2, <2>3, <2>4, <2>6 DEF OrderOK
  <2>8. \A k \in Insts : \A x \in Pending(k)' :
            x.to = owner'[k] /\ x.n <= rpcs'
    BY <2>2, <2>3, <2>5 DEF OrderOK
  <2>9. ASSUME NEW k \in Insts, NEW j \in Insts
        PROVE  Before(Pending(k)', held'[j])
    <3>1. CASE j = i
      BY <2>2, <2>3, <2>4, <2>5, <3>1 DEF Before
    <3>2. CASE j # i
      BY <2>3, <3>2 DEF OrderOK
    <3>3. QED
      BY <3>1, <3>2
  <2>10. QED
    BY <2>2, <2>7, <2>8, <2>9 DEF OrderOK
<1>9. ASSUME NEW i \in Insts, ReadErr(i) PROVE OrderOK'
  BY <1>9, OrderFrame DEF ReadErr, RdStep, orderVars
<1>10. ASSUME NEW i \in Insts, SendCtx(i) PROVE OrderOK'
  BY <1>10, OrderDrop DEF SendCtx, RdStep, TypeOK
<1>11. ASSUME NEW i \in Insts, ReadErrCommand(i) PROVE OrderOK'
  BY <1>11, OrderFrame DEF ReadErrCommand, ErrorCommand, Forget, orderVars
<1>12. ASSUME NEW i \in Insts, WriteBegin(i) PROVE OrderOK'
  <2> DEFINE h == Head(buf[i])
             t == Tail(buf[i])
  <2>1. buf[i] \in Seq(Rpc) /\ buf[i] # <<>>
    BY <1>12 DEF WriteBegin, TypeOK
  <2>2. /\ Elems(buf[i]) = {h} \cup Elems(t) /\ Ascending(t)
        /\ Before({h}, Elems(t))
    BY <2>1, TailOK DEF OrderOK
  <2>3. /\ out'[i] = {h} /\ buf'[i] = t
        /\ \A k \in Insts \ {i} : out'[k] = out[k] /\ buf'[k] = buf[k]
        /\ UNCHANGED <<held, rpcs, got, owner>>
    BY <1>12 DEF WriteBegin, WrStep, TypeOK
  <2> HIDE DEF h, t
  <2>4. \A k \in Insts : Pending(k)' \subseteq Pending(k)
    BY <2>2, <2>3 DEF Pending
  <2>5. \A k \in Insts : Ascending(got'[k]) /\ Ascending(buf'[k])
    BY <2>2, <2>3 DEF OrderOK
  <2>6. /\ Before(Elems(got'[i]), out'[i] \cup Elems(buf'[i]))
        /\ Before(out'[i], Elems(buf'[i]))
    BY <2>2, <2>3 DEF OrderOK, Before
  <2>7. \A k \in Insts : /\ Before(Elems(got'[k]), out'[k] \cup Elems(buf'[k]))
                         /\ Before(out'[k], Elems(buf'[k]))
    BY <2>3, <2>6 DEF OrderOK
  <2>8. \A k, j \in Insts : Before(Pending(k)', held'[j])
    BY <2>3, <2>4 DEF OrderOK, Before
  <2>9. QED
    BY <2>3, <2>4, <2>5, <2>7, <2>8 DEF OrderOK
<1>13. ASSUME NEW i \in Insts, WriteOk(i) PROVE OrderOK'
  <2>1. PICK r \in out[i] : got' = [got EXCEPT ![i] = Append(@, r)]
    BY <1>13 DEF WriteOk
  <2>2. /\ got'[i] = Append(got[i], r) /\ out'[i] = {}
        /\ \A k \in Insts \ {i} : out'[k] = out[k] /\ got'[k] = got[k]
        /\ UNCHANGED <<held, rpcs, buf, owner>>
    BY <1>13, <2>1 DEF WriteOk, WrStep, TypeOK
  <2>3. got[i] \in Seq(Rpc) /\ r \in Rpc
    BY <2>1 DEF TypeOK
  <2>4. Before(Elems(got[i]), {r})
    BY <2>1 DEF OrderOK, Before
  <2>5. Elems(got'[i]) = Elems(got[i]) \cup {r} /\ Ascending(got'[i])
    BY <2>2, <2>3, <2>4, AppendOK DEF OrderOK
  <2>6. \A k \in Insts : Pending(k)' \subseteq Pending(k)
    BY <2>1, <2>2, <2>5 DEF Pending
  <2>7. \A k \in Insts : Ascending(got'[k]) /\ Ascending(buf'[k])
    BY <2>2, <2>5 DEF OrderOK
  <2>8. /\ Before(Elems(got'[i]), out'[i] \cup Elems(buf'[i]))
        /\ Before(out'[i], Elems(buf'[i]))
    BY <2>1, <2>2, <2>5 DEF OrderOK, Before
  <2>9. \A k \in Insts : /\ Before(Elems(got'[k]), out'[k] \cup Elems(buf'[k]))
                         /\ Before(out'[k], Elems(buf'[k]))
    BY <2>2, <2>8 DEF OrderOK
  <2>10. \A k, j \in Insts : Before(Pending(k)', held'[j])
    BY <2>2, <2>6 DEF OrderOK, Before
  <2>11. QED
    BY <2>2, <2>6, <2>7, <2>9, <2>10 DEF OrderOK
<1>14. ASSUME NEW i \in Insts, WriteErr(i) PROVE OrderOK'
  <2>1. /\ \A k \in Insts : out'[k] \subseteq out[k]
        /\ UNCHANGED <<held, rpcs, got, buf, owner>>
    BY <1>14 DEF WriteErr, WrStep, TypeOK
  <2>2. \A k \in Insts : Pending(k)' \subseteq Pending(k)
    BY <2>1 DEF Pending
  <2>3. QED
    BY <2>1, <2>2 DEF OrderOK, Before
<1>15. ASSUME NEW i \in Insts, WriteCtx(i) PROVE OrderOK'
  BY <1>15, OrderFrame DEF WriteCtx, GroupDone, WrStep, orderVars
<1>16. ASSUME NEW i \in Insts, WriteErrCommand(i) PROVE OrderOK'
  BY <1>16, OrderFrame DEF WriteErrCommand, ErrorCommand, Forget, orderVars
<1>17. CASE UNCHANGED vars
  BY <1>17, OrderFrame DEF vars, instVars, orderVars
<1>18. QED
  BY <1>1, <1>2, <1>3, <1>4, <1>5, <1>6, <1>7, <1>8, <1>9, <1>10, <1>11,
     <1>12, <1>13, <1>14, <1>15, <1>16, <1>17 DEF Next, Forward, Write

-----------------------------------------------------------------------------
\* The invariant holds of every reachable state.
THEOREM Invariance == Spec => []IInv
<1>1. ASSUME Init PROVE IInv
  <2>1. TypeOK
    BY <1>1, ProxyBounds DEF Init, TypeOK
  <2>2. InstOK
    BY <1>1 DEF Init, InstOK
  <2>3. TableOK
    BY <1>1 DEF Init, TableOK, TableTrue, HealthyReachable, NoDeadClient
  <2>4. OrderOK
    BY <1>1 DEF Init, OrderOK, Pending, Elems, Before, Ascending
  <2>5. Holding = {}
    BY <1>1 DEF Init, Holding
  <2>6. CountOK
    BY <1>1, <2>5, FS_EmptySet DEF Init, CountOK
  <2>7. QED
    BY <2>1, <2>2, <2>3, <2>4, <2>6 DEF IInv
<1>2. IInv /\ [Next]_vars => IInv'
  BY TypeStep, InstStep, TableStep, CountStep, OrderStep DEF IInv
<1>3. QED
  BY <1>1, <1>2, PTL DEF Spec

\* Every variable keeps its type: no client's buffer exceeds its size, and no
\* client is reported as disconnected more than twice.
THEOREM TypeCorrect == Spec => []TypeOK
<1>1. IInv => TypeOK
  BY DEF IInv
<1>2. QED
  BY <1>1, Invariance, PTL

\* The table has no client one of whose loops has ended, and it has the newest
\* client of every id while both its loops are well and no predecessor has
\* reported an error, for any number of clients and reconnections.
THEOREM TableIsTrue == Spec => []TableTrue
<1>1. IInv => TableTrue
  BY DEF IInv, TableOK
<1>2. QED
  BY <1>1, Invariance, PTL

\* A connection is only ever written Rpcs for its own id, each once, and those
\* of one sender in the order in which they were read, for any buffer size.
THEOREM OrderKept == Spec => []DeliveredInOrder
<1>1. ASSUME IInv PROVE DeliveredInOrder
  <2> SUFFICES ASSUME NEW i \in Insts, NEW a \in DOMAIN got[i],
                      NEW b \in DOMAIN got[i]
               PROVE  /\ got[i][a].to = owner[i]
                      /\ (a < b /\ got[i][a].from = got[i][b].from) =>
                             got[i][a].n < got[i][b].n
    BY DEF DeliveredInOrder
  <2>1. got[i][a] \in Pending(i)
    BY DEF Pending, Elems
  <2>2. QED
    BY <1>1, <2>1 DEF IInv, OrderOK, Ascending
<1>2. QED
  BY <1>1, Invariance, PTL

=============================================================================

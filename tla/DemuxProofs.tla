---------------------------- MODULE DemuxProofs ----------------------------
(***************************************************************************)
(* Demux, for any identities and any number of Rpcs: types, the agreement  *)
(* of the table with the channels, and which connection each Rpc reaches.  *)
(***************************************************************************)
EXTENDS Demux, TLAPS

Sending == run \in {"send", "panic"}

\* Every Rpc read but the one in hand was handed over, and no more than one
\* connection was made for each.
CountOK ==
    /\ Len(owner) <= Len(read)
    /\ Len(read) = Len(handed) + (IF run \in {"send", "panic"} THEN 1 ELSE 0)

\* A registered connection has the identity it is registered under and is the
\* newest of that identity.
TableOK ==
    /\ \A id \in Ids : conns[id] # 0 => owner[conns[id]] = id
    /\ \A c \in DOMAIN owner : conns[owner[c]] # 0 => c <= conns[owner[c]]
    /\ OpenIffRegistered

\* The connection in hand is of the identity just read, and none that an
\* earlier Rpc of that identity reached is newer.
TargetOK ==
    Sending =>
        /\ target \in DOMAIN owner
        /\ owner[target] = read[Len(read)]
        /\ \A j \in DOMAIN handed :
               read[j] = read[Len(read)] => handed[j] <= target

\* The same of every Rpc that was handed over.
HandedOK ==
    \A k \in DOMAIN handed :
        /\ owner[handed[k]] = read[k]
        /\ \A j \in 1..k : read[j] = read[k] => handed[j] <= handed[k]

RouteOK == CountOK /\ TableOK /\ TargetOK /\ HandedOK

-----------------------------------------------------------------------------
\* Every step of Run, the users, the writers and Cancel keeps the types.
LEMMA TypeStep == TypeOK /\ RouteOK /\ [Next]_vars => TypeOK'
<1> SUFFICES ASSUME TypeOK, CountOK, TargetOK, [Next]_vars PROVE TypeOK'
  BY DEF RouteOK
<1>1. ASSUME RunReadFails PROVE TypeOK'
  BY <1>1, DemuxBounds DEF RunReadFails, tableVars, userVars, TypeOK, Conns
<1>2. ASSUME RunSend PROVE TypeOK'
  <2>1. target \in DOMAIN owner /\ Len(handed) < MaxReads
    BY <1>2, DemuxBounds DEF RunSend, TypeOK, CountOK, TargetOK, Sending
  <2>2. handed' \in Seq(DOMAIN owner) /\ Len(handed') <= MaxReads
    BY <1>2, <2>1, DemuxBounds DEF RunSend, TypeOK
  <2>3. QED
    BY <1>2, <2>2 DEF RunSend, tableVars, TypeOK, Conns
<1>3. ASSUME RunSendPanics PROVE TypeOK'
  BY <1>3, DemuxBounds DEF RunSendPanics, tableVars, userVars, TypeOK, Conns
<1>4. ASSUME Stop PROVE TypeOK'
  BY <1>4, DemuxBounds DEF Stop, tableVars, userVars, TypeOK, Conns
<1>5. ASSUME NEW id \in Ids, RunRead(id) PROVE TypeOK'
  BY <1>5, DemuxBounds DEF RunRead, tableVars, userVars, CountOK, TypeOK, Conns
<1>6. ASSUME NEW id \in Ids, RunReadNew(id) PROVE TypeOK'
  <2>1. Len(owner) + 1 \in Conns /\ Len(owner) \in Nat
    BY <1>6, DemuxBounds DEF RunReadNew, TypeOK, CountOK, Conns
  <2>2. owner' \in Seq(Ids) /\ Len(owner') = Len(owner) + 1
    BY <1>6 DEF RunReadNew, TypeOK
  <2>3. DOMAIN owner \subseteq DOMAIN owner'
    BY <2>1, <2>2 DEF TypeOK
  <2>4. handed' \in Seq(DOMAIN owner')
    BY <1>6, <2>3 DEF RunReadNew, TypeOK
  <2>5. closed' \subseteq DOMAIN owner'
    BY <1>6, <2>3 DEF RunReadNew, TypeOK
  <2>6. conns' \in [Ids -> 0..Len(owner')]
    BY <1>6, <2>1, <2>2 DEF RunReadNew, TypeOK
  <2>7. read' \in Seq(Ids) /\ Len(read') <= MaxReads
    BY <1>6, DemuxBounds DEF RunReadNew, TypeOK
  <2>8. QED
    BY <1>6, <2>1, <2>2, <2>4, <2>5, <2>6, <2>7 DEF RunReadNew, TypeOK, Conns
<1>7. ASSUME NEW id \in Ids, Cancel(id) PROVE TypeOK'
  BY <1>7, DemuxBounds DEF Cancel, userVars, TypeOK, Conns
<1>8. ASSUME NEW c \in Conns, UserRead(c) PROVE TypeOK'
  BY <1>8, DemuxBounds DEF UserRead, ReaderStep, tableVars, TypeOK, Conns
<1>9. ASSUME NEW c \in Conns, UserWrite(c) PROVE TypeOK'
  BY <1>9, DemuxBounds DEF UserWrite, SenderStep, tableVars, TypeOK, Conns
<1>10. ASSUME NEW c \in Conns, ReadGivesUp(c) PROVE TypeOK'
  BY <1>10, DemuxBounds DEF ReadGivesUp, ReaderStep, tableVars, TypeOK, Conns
<1>11. ASSUME NEW c \in Conns, ReadFindsClosed(c) PROVE TypeOK'
  BY <1>11, DemuxBounds DEF ReadFindsClosed, ReaderStep, tableVars, TypeOK,
     Conns
<1>12. ASSUME NEW c \in Conns, WritePanics(c) PROVE TypeOK'
  BY <1>12, DemuxBounds DEF WritePanics, SenderStep, tableVars, TypeOK, Conns
<1>13. ASSUME NEW c \in Conns, WriteTaken(c) PROVE TypeOK'
  BY <1>13, DemuxBounds DEF WriteTaken, SenderStep, tableVars, TypeOK, Conns
<1>14. ASSUME NEW c \in Conns, WriterWrites(c) PROVE TypeOK'
  BY <1>14, DemuxBounds DEF WriterWrites, WriterStep, tableVars, userVars, TypeOK,
     Conns
<1>15. ASSUME NEW c \in Conns, WriterEnds(c) PROVE TypeOK'
  BY <1>15, DemuxBounds DEF WriterEnds, WriterStep, tableVars, userVars, TypeOK,
     Conns
<1>16. ASSUME NEW c \in Conns, WriteGivesUp(c) PROVE TypeOK'
  BY <1>16, DemuxBounds DEF WriteGivesUp, SenderStep, tableVars, TypeOK,
     Conns
<1>17. CASE UNCHANGED vars
  BY <1>17 DEF vars, tableVars, userVars, TypeOK
<1>18. QED
  BY <1>1, <1>2, <1>3, <1>4, <1>5, <1>6, <1>7, <1>8, <1>9, <1>10, <1>11,
     <1>12, <1>13, <1>14, <1>15, <1>16, <1>17 DEF Next

routeVars == <<run, target, owner, conns, closed, read, handed>>

\* Steps of users and writers route nothing.
LEMMA RouteFrame == RouteOK /\ UNCHANGED routeVars => RouteOK'
  BY DEF RouteOK, CountOK, TableOK, TargetOK, HandedOK, Sending,
     OpenIffRegistered, routeVars

\* Every step keeps the table true and every Rpc on its way to the newest
\* connection of its identity.
LEMMA RouteStep == TypeOK /\ RouteOK /\ [Next]_vars => RouteOK'
<1> SUFFICES ASSUME TypeOK, RouteOK, [Next]_vars PROVE RouteOK'
  OBVIOUS
<1>0. Len(owner) \in Nat /\ Len(read) \in Nat /\ Len(handed) \in Nat
  BY DEF TypeOK
<1>1. ASSUME RunReadFails PROVE RouteOK'
  BY <1>1, <1>0 DEF RunReadFails, tableVars, RouteOK, CountOK, TargetOK,
     TableOK, HandedOK, HandedAll, OpenIffRegistered, Sending, TypeOK
<1>2. ASSUME RunSend PROVE RouteOK'
  <2>1. /\ target \in DOMAIN owner /\ owner[target] = read[Len(read)]
        /\ Len(read) = Len(handed) + 1 /\ handed' = Append(handed, target)
        /\ run' = "read" /\ UNCHANGED <<owner, conns, closed, read>>
        /\ \A j \in DOMAIN handed :
               read[j] = read[Len(read)] => handed[j] <= target
    BY <1>2 DEF RunSend, tableVars, RouteOK, CountOK, TargetOK, Sending
  <2>2. /\ DOMAIN handed' = 1..Len(read) /\ Len(handed') = Len(read)
        /\ handed'[Len(read)] = target
        /\ \A k \in 1..Len(handed) : handed'[k] = handed[k]
    BY <1>0, <2>1 DEF TypeOK
  <2>3. CountOK' /\ TableOK' /\ TargetOK'
    BY <2>1, <2>2, <1>0 DEF RouteOK, CountOK, TableOK, TargetOK, Sending,
       OpenIffRegistered
  <2>4. HandedOK'
    <3> SUFFICES ASSUME NEW k \in DOMAIN handed'
                 PROVE  /\ owner[handed'[k]] = read[k]
                        /\ \A j \in 1..k : read[j] = read[k] =>
                               handed'[j] <= handed'[k]
      BY <2>1 DEF HandedOK
    <3>1. CASE k = Len(read)
      <4>1. target \in Nat
        BY <2>1, <1>0 DEF TypeOK
      <4>2. handed'[k] = target /\ read[k] = read[Len(read)]
        BY <3>1, <2>2
      <4>3. ASSUME NEW j \in 1..k, read[j] = read[k]
            PROVE  handed'[j] <= target
        <5>1. CASE j = Len(read)
          BY <5>1, <4>1, <2>2
        <5>2. CASE j \in 1..Len(handed)
          <6>1. j \in DOMAIN handed
            BY <5>2 DEF TypeOK
          <6>2. QED
            BY <5>2, <6>1, <4>2, <4>3, <2>1, <2>2
        <5>3. QED
          BY <5>1, <5>2, <3>1, <2>1, <1>0
      <4>4. QED
        BY <4>2, <4>3, <2>1
    <3>2. CASE k \in 1..Len(handed)
      <4>1. k \in DOMAIN handed
        BY <3>2, <1>0 DEF TypeOK
      <4>2. \A j \in 1..k : j \in 1..Len(handed)
        BY <3>2, <1>0
      <4>3. QED
        BY <3>2, <4>1, <4>2, <2>2 DEF RouteOK, HandedOK
    <3>3. QED
      BY <3>1, <3>2, <2>1, <2>2, <1>0
  <2>5. QED
    BY <2>3, <2>4 DEF RouteOK
<1>3. ASSUME RunSendPanics PROVE RouteOK'
  BY <1>3, <1>0 DEF RunSendPanics, tableVars, RouteOK, CountOK, TargetOK,
     TableOK, HandedOK, HandedAll, OpenIffRegistered, Sending, TypeOK
<1>4. ASSUME Stop PROVE RouteOK'
  BY <1>4, RouteFrame DEF Stop, tableVars, routeVars
<1>5. ASSUME NEW id \in Ids, RunRead(id) PROVE RouteOK'
  <2>1. /\ run = "read" /\ run' = "send" /\ conns[id] # 0
        /\ read' = Append(read, id) /\ target' = conns[id]
        /\ UNCHANGED <<owner, conns, closed, handed>>
    BY <1>5 DEF RunRead, tableVars
  <2>2. Len(read') = Len(read) + 1 /\ read'[Len(read')] = id
    BY <1>0, <2>1 DEF TypeOK
  <2>3. Len(read) = Len(handed) /\ DOMAIN handed = 1..Len(read)
    BY <2>1, <1>0 DEF RouteOK, CountOK, TypeOK
  <2>4. \A k \in 1..Len(read) : read'[k] = read[k]
    BY <1>0, <2>1 DEF TypeOK
  <2>5. CountOK' /\ TableOK'
    BY <2>1, <2>2, <1>0 DEF RouteOK, CountOK, TableOK, OpenIffRegistered
  <2>6. TargetOK'
    <3>1. conns[id] \in DOMAIN owner /\ owner[conns[id]] = id
      BY <2>1, <1>0 DEF TypeOK, RouteOK, TableOK
    <3>2. ASSUME NEW j \in DOMAIN handed, read[j] = id
          PROVE  handed[j] <= conns[id]
      <4>1. owner[handed[j]] = id /\ handed[j] \in DOMAIN owner
        BY <3>2 DEF TypeOK, RouteOK, HandedOK
      <4>2. QED
        BY <4>1, <2>1 DEF RouteOK, TableOK
    <3>3. QED
      BY <3>1, <3>2, <2>1, <2>2, <2>3, <2>4 DEF TargetOK
  <2>7. HandedOK'
    BY <2>1, <2>3, <2>4, <1>0 DEF RouteOK, HandedOK
  <2>8. QED
    BY <2>5, <2>6, <2>7 DEF RouteOK
<1>6. ASSUME NEW id \in Ids, RunReadNew(id) PROVE RouteOK'
  <2> DEFINE n == Len(owner) + 1
  <2>1. /\ run = "read" /\ run' = "send" /\ conns[id] = 0
        /\ read' = Append(read, id) /\ target' = n
        /\ owner' = Append(owner, id) /\ conns' = [conns EXCEPT ![id] = n]
        /\ UNCHANGED <<closed, handed>>
    BY <1>6 DEF RunReadNew
  <2>2. Len(read') = Len(read) + 1 /\ read'[Len(read')] = id
    BY <1>0, <2>1 DEF TypeOK
  <2>3. Len(read) = Len(handed) /\ DOMAIN handed = 1..Len(read)
    BY <2>1, <1>0 DEF RouteOK, CountOK, TypeOK
  <2>4. \A k \in 1..Len(read) : read'[k] = read[k]
    BY <1>0, <2>1 DEF TypeOK
  <2>5. /\ Len(owner') = n /\ DOMAIN owner' = 1..n /\ owner'[n] = id
        /\ \A c \in DOMAIN owner : owner'[c] = owner[c]
        /\ DOMAIN owner = 1..Len(owner)
    BY <1>0, <2>1 DEF TypeOK
  <2>6. \A k \in DOMAIN handed : handed[k] \in DOMAIN owner
    BY DEF TypeOK
  <2>7. CountOK'
    BY <2>1, <2>2, <2>5, <1>0 DEF RouteOK, CountOK
  <2>8. TableOK'
    <3>1. ASSUME NEW i \in Ids, conns'[i] # 0 PROVE owner'[conns'[i]] = i
      BY <3>1, <2>1, <2>5, <1>0 DEF TypeOK, RouteOK, TableOK
    <3>2. ASSUME NEW c \in DOMAIN owner', conns'[owner'[c]] # 0
          PROVE  c <= conns'[owner'[c]]
      <4>1. CASE c = n
        BY <4>1, <2>1, <2>5, <1>0 DEF TypeOK
      <4>2. CASE c \in DOMAIN owner
        BY <4>2, <3>2, <2>1, <2>5, <1>0 DEF TypeOK, RouteOK, TableOK
      <4>3. QED
        BY <4>1, <4>2, <2>5, <1>0
    <3>3. ASSUME NEW c \in DOMAIN owner'
          PROVE  c \notin closed' <=> conns'[owner'[c]] = c
      <4>1. CASE c = n
        BY <4>1, <2>1, <2>5, <1>0 DEF TypeOK
      <4>2. CASE c \in DOMAIN owner
        BY <4>2, <2>1, <2>5, <1>0 DEF TypeOK, RouteOK, TableOK,
           OpenIffRegistered
      <4>3. QED
        BY <4>1, <4>2, <2>5, <1>0
    <3>4. QED
      BY <3>1, <3>2, <3>3 DEF TableOK, OpenIffRegistered
  <2>9. TargetOK'
    BY <2>1, <2>2, <2>3, <2>5, <2>6, <1>0 DEF TargetOK
  <2>10. HandedOK'
    BY <2>1, <2>3, <2>4, <2>5, <2>6, <1>0 DEF RouteOK, HandedOK
  <2>11. QED
    BY <2>7, <2>8, <2>9, <2>10 DEF RouteOK
<1>7. ASSUME NEW id \in Ids, Cancel(id) PROVE RouteOK'
  <2>1. /\ conns[id] # 0 /\ closed' = closed \cup {conns[id]}
        /\ conns' = [conns EXCEPT ![id] = 0]
        /\ UNCHANGED <<run, target, owner, read, handed>>
    BY <1>7 DEF Cancel
  <2>2. CountOK' /\ TargetOK' /\ HandedOK'
    BY <2>1 DEF RouteOK, CountOK, TargetOK, HandedOK, Sending
  <2>3. \A c \in DOMAIN owner : owner[c] \in Ids /\ c # 0
    BY <1>0 DEF TypeOK
  <2>4. OpenIffRegistered'
    <3> SUFFICES ASSUME NEW c \in DOMAIN owner
                 PROVE  c \notin closed' <=> conns'[owner[c]] = c
      BY <2>1 DEF OpenIffRegistered
    <3>1. CASE owner[c] = id
      BY <3>1, <2>1, <2>3 DEF TypeOK, RouteOK, TableOK, OpenIffRegistered
    <3>2. CASE owner[c] # id
      BY <3>2, <2>1, <2>3 DEF TypeOK, RouteOK, TableOK, OpenIffRegistered
    <3>3. QED
      BY <3>1, <3>2
  <2>5. TableOK'
    BY <2>1, <2>3, <2>4 DEF TypeOK, RouteOK, TableOK
  <2>6. QED
    BY <2>2, <2>5 DEF RouteOK
<1>8. ASSUME NEW c \in Conns, UserRead(c) PROVE RouteOK'
  BY <1>8, RouteFrame DEF UserRead, ReaderStep, tableVars, routeVars
<1>9. ASSUME NEW c \in Conns, UserWrite(c) PROVE RouteOK'
  BY <1>9, RouteFrame DEF UserWrite, SenderStep, tableVars, routeVars
<1>10. ASSUME NEW c \in Conns, ReadGivesUp(c) PROVE RouteOK'
  BY <1>10, RouteFrame DEF ReadGivesUp, ReaderStep, tableVars, routeVars
<1>11. ASSUME NEW c \in Conns, ReadFindsClosed(c) PROVE RouteOK'
  BY <1>11, RouteFrame DEF ReadFindsClosed, ReaderStep, tableVars, routeVars
<1>12. ASSUME NEW c \in Conns, WritePanics(c) PROVE RouteOK'
  BY <1>12, RouteFrame DEF WritePanics, SenderStep, tableVars, routeVars
<1>13. ASSUME NEW c \in Conns, WriteTaken(c) PROVE RouteOK'
  BY <1>13, RouteFrame DEF WriteTaken, SenderStep, tableVars, routeVars
<1>14. ASSUME NEW c \in Conns, WriterWrites(c) PROVE RouteOK'
  BY <1>14, RouteFrame DEF WriterWrites, WriterStep, tableVars, routeVars
<1>15. ASSUME NEW c \in Conns, WriterEnds(c) PROVE RouteOK'
  BY <1>15, RouteFrame DEF WriterEnds, WriterStep, tableVars, routeVars
<1>16. ASSUME NEW c \in Conns, WriteGivesUp(c) PROVE RouteOK'
  BY <1>16, RouteFrame DEF WriteGivesUp, SenderStep, tableVars, routeVars
<1>17. CASE UNCHANGED vars
  BY <1>17, RouteFrame DEF vars, tableVars, routeVars
<1>18. QED
  BY <1>1, <1>2, <1>3, <1>4, <1>5, <1>6, <1>7, <1>8, <1>9, <1>10, <1>11,
     <1>12, <1>13, <1>14, <1>15, <1>16, <1>17 DEF Next

\* The invariant holds initially.
LEMMA InitOK == Init => TypeOK /\ RouteOK
  BY DemuxBounds DEF Init, TypeOK, Conns, RouteOK, CountOK, TableOK, TargetOK,
     HandedOK, Sending, OpenIffRegistered

\* Every variable of the demultiplexer keeps its type.
THEOREM TypeCorrect == Spec => []TypeOK
  BY InitOK, TypeStep, RouteStep, PTL DEF Spec

\* A connection is open exactly as long as it is the one registered for its
\* identity, however reads and cancellations interleave.
THEOREM TableAgrees == Spec => []OpenIffRegistered
<1>1. RouteOK => OpenIffRegistered
  BY DEF RouteOK, TableOK
<1>2. QED
  BY <1>1, InitOK, TypeStep, RouteStep, PTL DEF Spec

\* Every Rpc read but the one in hand was handed, in order, to a connection of
\* its identity, and never to one older than an earlier Rpc reached.
THEOREM AllHanded == Spec => []HandedAll
<1>1. RouteOK => HandedAll
  BY DEF RouteOK, CountOK, HandedOK, HandedAll
<1>2. QED
  BY <1>1, InitOK, TypeStep, RouteStep, PTL DEF Spec

=============================================================================

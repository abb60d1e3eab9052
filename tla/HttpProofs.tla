----------------------------- MODULE HttpProofs -----------------------------
(***************************************************************************)
(* Http, for any addresses, timeout and number of requests and calls: the  *)
(* types, the agreement of the table with the channels, and what may close *)
(* a connection.                                                           *)
(***************************************************************************)
EXTENDS Http, FiniteSetTheorems, TLAPS

\* A registered connection has the address it is registered under, and it is
\* open; one that is not registered is closed.
TableOK ==
    /\ \A id \in Ids : conns[id] # 0 => owner[conns[id]] = id
    /\ OpenIffRegistered

\* Only connections that were made have users that write.
UsersOK == \A c \in Conns : writer[c] # "idle" => c \in DOMAIN owner

\* The requests that came as far as retrieve.
Started == {q \in Reqs : req[q] \in {"send", "done", "lost"}}

\* Each of those and each NewConnection makes at most one connection.
CountOK == Len(owner) <= dials + Cardinality(Started)

\* While the cleaner is about to close a connection it holds the lock, so that
\* the connection stays registered under its address.
PassOK ==
    cleaner = "close" =>
        victim \in DOMAIN owner /\ conns[owner[victim]] = victim

IInv == TypeOK /\ TableOK /\ UsersOK /\ CountOK /\ PassOK

-----------------------------------------------------------------------------
\* The table's operations.

\* retrieve returns a connection of the table, which grows by one at most.
LEMMA RetrieveOK ==
    ASSUME TypeOK, NEW id \in Ids, retrieve(id)
    PROVE  /\ owner' \in Seq(Ids) /\ Len(owner') \in Nat
           /\ Len(owner) <= Len(owner') /\ Len(owner') <= Len(owner) + 1
           /\ Retrieved(id) \in 1..Len(owner')
           /\ DOMAIN owner \subseteq DOMAIN owner'
<1>1. Len(owner) \in Nat /\ conns[id] \in 0..Len(owner)
  BY DEF TypeOK
<1>2. CASE conns[id] = 0
  <2>1. owner' = Append(owner, id) /\ Retrieved(id) = Len(owner) + 1
    BY <1>1, <1>2 DEF retrieve, Retrieved
  <2>2. QED
    BY <1>1, <2>1 DEF TypeOK
<1>3. CASE conns[id] # 0
  <2>1. owner' = owner /\ Retrieved(id) = conns[id]
    BY <1>1, <1>3 DEF retrieve, Retrieved
  <2>2. QED
    BY <1>1, <1>3, <2>1 DEF TypeOK
<1>4. QED
  BY <1>2, <1>3

\* A connection that retrieve makes is registered, open, and the only one that
\* is registered for its address: the address had none.
LEMMA RetrieveKeeps ==
    ASSUME TypeOK, TableOK, NEW id \in Ids, retrieve(id)
    PROVE  TableOK'
<1>1. Len(owner) \in Nat /\ conns[id] \in 0..Len(owner)
  BY DEF TypeOK
<1>2. CASE conns[id] = 0
  <2> DEFINE n == Len(owner) + 1
  <2>1. /\ owner' = Append(owner, id) /\ conns' = [conns EXCEPT ![id] = n]
        /\ closed' = closed
    BY <1>1, <1>2 DEF retrieve, Retrieved
  <2>2. /\ DOMAIN owner' = 1..n /\ owner'[n] = id
        /\ \A c \in DOMAIN owner : owner'[c] = owner[c] /\ owner[c] \in Ids
        /\ DOMAIN owner = 1..Len(owner) /\ n \notin DOMAIN owner
    BY <1>1, <2>1 DEF TypeOK
  <2>3. ASSUME NEW i \in Ids, conns'[i] # 0 PROVE owner'[conns'[i]] = i
    <3>1. CASE i = id
      BY <3>1, <2>1, <2>2 DEF TypeOK
    <3>2. CASE i # id
      <4>1. conns'[i] = conns[i] /\ conns[i] \in DOMAIN owner
        BY <2>3, <3>2, <2>1, <2>2, <1>1 DEF TypeOK
      <4>2. QED
        BY <4>1, <2>3, <2>2 DEF TableOK
    <3>3. QED
      BY <3>1, <3>2
  <2>4. ASSUME NEW c \in DOMAIN owner'
        PROVE  c \notin closed' <=> conns'[owner'[c]] = c
    <3>1. CASE c = n
      BY <3>1, <2>1, <2>2 DEF TypeOK
    <3>2. CASE c \in DOMAIN owner
      <4>1. owner'[c] = owner[c] /\ owner[c] \in Ids /\ c # n /\ c # 0
        BY <3>2, <2>2, <1>1
      <4>2. c \notin closed <=> conns[owner[c]] = c
        BY <3>2 DEF TableOK, OpenIffRegistered
      <4>3. CASE owner[c] = id
        BY <4>1, <4>2, <4>3, <1>2, <2>1 DEF TypeOK
      <4>4. CASE owner[c] # id
        BY <4>1, <4>2, <4>4, <2>1 DEF TypeOK
      <4>5. QED
        BY <4>3, <4>4
    <3>3. QED
      BY <3>1, <3>2, <2>2, <1>1
  <2>5. QED
    BY <2>3, <2>4 DEF TableOK, OpenIffRegistered
<1>3. CASE conns[id] # 0
  <2>1. owner' = owner /\ conns' = conns /\ closed' = closed
    BY <1>1, <1>3 DEF retrieve, Retrieved, TypeOK
  <2>2. QED
    BY <2>1 DEF TableOK, OpenIffRegistered
<1>4. QED
  BY <1>2, <1>3

\* unregisterLocked keeps the types of the table.
LEMMA UnregisterOK ==
    ASSUME TypeOK, NEW id \in Ids, unregisterLocked(id)
    PROVE  /\ closed' \subseteq DOMAIN owner'
           /\ conns' \in [Ids -> 0..Len(owner')] /\ owner' = owner
<1>1. conns[id] \in 0..Len(owner) /\ Len(owner) \in Nat
  BY DEF TypeOK
<1>2. DOMAIN owner = 1..Len(owner)
  BY DEF TypeOK
<1>3. closed' \subseteq DOMAIN owner
  BY <1>1, <1>2 DEF unregisterLocked, TypeOK
<1>4. conns' \in [Ids -> 0..Len(owner)]
  BY <1>1 DEF unregisterLocked, TypeOK
<1>5. QED
  BY <1>3, <1>4 DEF unregisterLocked

\* unregisterLocked closes exactly the connection it takes out of the table.
LEMMA UnregisterKeeps ==
    ASSUME TypeOK, TableOK, NEW id \in Ids, unregisterLocked(id)
    PROVE  TableOK'
<1>1. /\ owner' = owner
      /\ conns' = [conns EXCEPT ![id] = 0]
      /\ closed' = closed \cup ({conns[id]} \ {0})
      /\ conns \in [Ids -> 0..Len(owner)]
  BY DEF unregisterLocked, TypeOK
<1>2. \A i \in Ids : conns'[i] # 0 => owner'[conns'[i]] = i
  BY <1>1 DEF TableOK
<1>3. ASSUME NEW c \in DOMAIN owner
      PROVE  c \notin closed' <=> conns'[owner[c]] = c
  <2>1. owner[c] \in Ids /\ c # 0
    BY DEF TypeOK
  <2>2. c \notin closed <=> conns[owner[c]] = c
    BY DEF TableOK, OpenIffRegistered
  <2>3. CASE owner[c] = id
    BY <1>1, <2>1, <2>2, <2>3
  <2>4. CASE owner[c] # id
    <3>1. conns[id] # 0 => conns[id] # c
      BY <2>4 DEF TableOK
    <3>2. QED
      BY <1>1, <2>1, <2>2, <2>4, <3>1
  <2>5. QED
    BY <2>3, <2>4
<1>4. QED
  BY <1>1, <1>2, <1>3 DEF TableOK, OpenIffRegistered

-----------------------------------------------------------------------------
\* The cleaner and bumpActivity.

\* The cleaner changes the table only where it closes a connection.
LEMMA CleanerFrame ==
    ASSUME CleanerTick \/ connectionCleaner
    PROVE  /\ UNCHANGED <<owner, age, made, reader, writer, reqVars, ctx>>
           /\ UNCHANGED tableVars \/ CleanerClose
  BY DEF CleanerTick, connectionCleaner, CleanerLock, CleanerCheck,
     CleanerClose, CleanerUnlock, CleanerStops, Pass, unregisterLocked,
     tableVars

\* What it closes is a connection that was made.
LEMMA CleanerCloses ==
    ASSUME TypeOK, PassOK, CleanerClose
    PROVE  /\ owner[victim] \in Ids /\ unregisterLocked(owner[victim])
           /\ conns[owner[victim]] = victim
  BY DEF TypeOK, PassOK, CleanerClose

\* The age of an active connection is 0.
LEMMA BumpOK ==
    ASSUME TypeOK, NEW c \in Conns, bumpActivity(c)
    PROVE  age' \in [Conns -> 0..Never]
<1>1. 0 \in 0..Never
  BY HttpBounds DEF Oldest, Never
<1>2. QED
  BY <1>1 DEF bumpActivity, TypeOK

-----------------------------------------------------------------------------
\* Counting the connections.

\* Finitely many requests have started.
LEMMA StartedCount ==
    /\ IsFiniteSet(Started) /\ Cardinality(Started) \in Nat
    /\ Cardinality(Started) <= MaxReqs
<1>1. IsFiniteSet(Reqs) /\ Cardinality(Reqs) = MaxReqs
  BY HttpBounds, FS_Interval DEF Reqs
<1>2. Started \subseteq Reqs
  BY DEF Started
<1>3. QED
  BY <1>1, <1>2, FS_Subset, FS_CardinalityType

\* While NewConnection may be called, there is room for another connection.
LEMMA Room ==
    ASSUME TypeOK, CountOK, dials < MaxDials
    PROVE  Len(owner) + 1 <= MaxReqs + MaxDials
  BY StartedCount, HttpBounds DEF TypeOK, CountOK

\* So there is while a request has not started.
LEMMA RoomForRequest ==
    ASSUME TypeOK, CountOK, NEW q \in Reqs, req[q] = "none"
    PROVE  Len(owner) + 1 <= MaxReqs + MaxDials
<1>1. q \notin Started /\ Started \cup {q} \subseteq Reqs
  BY DEF Started
<1>2. IsFiniteSet(Reqs) /\ Cardinality(Reqs) = MaxReqs
  BY HttpBounds, FS_Interval DEF Reqs
<1>3. Cardinality(Started \cup {q}) = Cardinality(Started) + 1
  BY <1>1, StartedCount, FS_AddElement
<1>4. Cardinality(Started \cup {q}) <= MaxReqs
  BY <1>1, <1>2, FS_Subset
<1>5. QED
  BY <1>3, <1>4, StartedCount, HttpBounds DEF TypeOK, CountOK

-----------------------------------------------------------------------------
\* Every step keeps the types.
LEMMA TypeStep == IInv /\ [Next]_vars => TypeOK'
<1> SUFFICES ASSUME TypeOK, UsersOK, CountOK, PassOK, [Next]_vars
             PROVE TypeOK'
  BY DEF IInv
<1>1. ASSUME Clock PROVE TypeOK'
  <2>1. \A c \in Conns : age[c] \in 0..Never /\ made[c] \in 0..Timeout
    BY DEF TypeOK
  <2>2. \A c \in Conns :
            (IF age[c] < Oldest THEN age[c] + 1 ELSE age[c]) \in 0..Never
    BY <2>1, HttpBounds DEF Oldest, Never
  <2>3. age' \in [Conns -> 0..Never]
    BY <1>1, <2>2 DEF Clock
  <2>4. \A c \in Conns : made[c] < Timeout => made[c] + 1 \in 0..Timeout
    BY <2>1, HttpBounds
  <2>5. made' \in [Conns -> 0..Timeout]
    BY <1>1, <2>1, <2>4 DEF Clock
  <2>6. lag' \in 0..MaxLag
    BY <1>1, HttpBounds DEF Clock, TypeOK
  <2>7. QED
    BY <1>1, <2>3, <2>5, <2>6 DEF Clock, tableVars, passVars, reqVars, TypeOK
<1>2. ASSUME CleanerTick \/ connectionCleaner PROVE TypeOK'
  <2>1. UNCHANGED <<owner, age, made, reader, writer, req, target, dials, ctx>>
    BY <1>2, CleanerFrame DEF reqVars
  <2>2. closed' \subseteq DOMAIN owner' /\ conns' \in [Ids -> 0..Len(owner')]
    BY <1>2, CleanerFrame, CleanerCloses, UnregisterOK DEF tableVars, TypeOK
  <2>3. cleaner' \in {"idle", "lock", "pass", "close", "exit"}
    BY <1>2 DEF CleanerTick, connectionCleaner, CleanerLock, CleanerCheck,
       CleanerClose, CleanerUnlock, CleanerStops, Pass
  <2>4. todo' \subseteq Ids /\ lag' \in 0..MaxLag
    BY <1>2, HttpBounds DEF CleanerTick, connectionCleaner, CleanerLock,
       CleanerCheck, CleanerClose, CleanerUnlock, CleanerStops, TypeOK
  <2>5. victim' \in 0..Len(owner)
    BY <1>2 DEF CleanerTick, connectionCleaner, CleanerLock, CleanerCheck,
       CleanerClose, CleanerUnlock, CleanerStops, TypeOK
  <2>6. QED
    BY <2>1, <2>2, <2>3, <2>4, <2>5 DEF TypeOK
<1>3. ASSUME Cancel PROVE TypeOK'
  BY <1>3, HttpBounds DEF Cancel, tableVars, timeVars, passVars, reqVars,
     TypeOK, Conns, Reqs
<1>4. ASSUME NEW id \in Ids, NewConnection(id) PROVE TypeOK'
  <2>1. Retrieved(id) \in 1..Len(owner') /\ Len(owner') \in Nat
    BY <1>4, RetrieveOK DEF NewConnection
  <2>2. owner' \in Seq(Ids) /\ Len(owner) <= Len(owner')
    BY <1>4, RetrieveOK DEF NewConnection
  <2>3. Len(owner') <= MaxReqs + MaxDials
    <3>1. Len(owner) + 1 <= MaxReqs + MaxDials
      BY <1>4, Room DEF NewConnection
    <3>2. Len(owner') <= Len(owner) + 1
      BY <1>4, RetrieveOK DEF NewConnection
    <3>3. Len(owner) \in Nat
      BY DEF TypeOK
    <3>4. QED
      BY <3>1, <3>2, <3>3, <2>1, HttpBounds
  <2>4. conns' \in [Ids -> 0..Len(owner')]
    BY <1>4, <2>1, <2>2 DEF NewConnection, retrieve, TypeOK
  <2>5. target' \in [Reqs -> 0..Len(owner')]
    BY <1>4, <2>1, <2>2 DEF NewConnection, TypeOK
  <2>6. closed' \subseteq DOMAIN owner'
    BY <1>4, <2>1, <2>2 DEF NewConnection, retrieve, TypeOK
  <2>7. victim' \in 0..Len(owner')
    BY <1>4, <2>1, <2>2 DEF NewConnection, passVars, TypeOK
  <2>8. QED
    BY <1>4, <2>2, <2>3, <2>4, <2>5, <2>6, <2>7, HttpBounds
       DEF NewConnection, timeVars, passVars, TypeOK
<1>5. ASSUME NEW q \in Reqs, NEW id \in Ids, ServeHTTP(q, id) PROVE TypeOK'
  <2>1. Retrieved(id) \in 1..Len(owner') /\ Len(owner') \in Nat
    BY <1>5, RetrieveOK DEF ServeHTTP
  <2>2. owner' \in Seq(Ids) /\ Len(owner) <= Len(owner')
    BY <1>5, RetrieveOK DEF ServeHTTP
  <2>3. Len(owner') <= MaxReqs + MaxDials
    BY <1>5, RetrieveOK, RoomForRequest, HttpBounds DEF ServeHTTP, TypeOK
  <2>4. conns' \in [Ids -> 0..Len(owner')]
    BY <1>5, <2>1, <2>2 DEF ServeHTTP, retrieve, TypeOK
  <2>5. target' \in [Reqs -> 0..Len(owner')]
    BY <1>5, <2>1, <2>2 DEF ServeHTTP, TypeOK
  <2>6. closed' \subseteq DOMAIN owner'
    BY <1>5, <2>1, <2>2 DEF ServeHTTP, retrieve, TypeOK
  <2>7. victim' \in 0..Len(owner')
    BY <1>5, <2>1, <2>2 DEF ServeHTTP, passVars, TypeOK
  <2>8. QED
    BY <1>5, <2>2, <2>3, <2>4, <2>5, <2>6, <2>7
       DEF ServeHTTP, timeVars, passVars, TypeOK, Reqs
<1>6. ASSUME NEW q \in Reqs, ServeRefused(q) PROVE TypeOK'
  BY <1>6, HttpBounds DEF ServeRefused, tableVars, timeVars, passVars, TypeOK,
     Conns, Reqs
<1>7. ASSUME NEW q \in Reqs, Deliver(q) PROVE TypeOK'
  <2>1. reader' \in [Conns -> {"idle", "read", "bump"}]
    BY <1>7 DEF Deliver, TypeOK
  <2>2. req' \in [Reqs -> {"none", "send", "done", "lost", "refused"}]
    BY <1>7 DEF Deliver, TypeOK
  <2>3. QED
    BY <1>7, <2>1, <2>2 DEF Deliver, tableVars, timeVars, passVars, TypeOK
<1>8. ASSUME NEW q \in Reqs, SendPanics(q) PROVE TypeOK'
  BY <1>8, HttpBounds DEF SendPanics, tableVars, timeVars, passVars, TypeOK,
     Conns, Reqs
<1>9. ASSUME NEW c \in Conns, ReadCall(c) PROVE TypeOK'
  BY <1>9, HttpBounds DEF ReadCall, tableVars, timeVars, passVars, reqVars,
     TypeOK, Conns, Reqs
<1>10. ASSUME NEW c \in Conns, ReadFindsClosed(c) PROVE TypeOK'
  BY <1>10, HttpBounds DEF ReadFindsClosed, tableVars, timeVars, passVars,
     reqVars, TypeOK, Conns, Reqs
<1>11. ASSUME NEW c \in Conns, WriteBegin(c) PROVE TypeOK'
  <2>1. age' \in [Conns -> 0..Never]
    BY <1>11, BumpOK DEF WriteBegin
  <2>2. QED
    BY <1>11, <2>1 DEF WriteBegin, bumpActivity, tableVars, passVars, reqVars,
       TypeOK
<1>12. ASSUME NEW c \in Conns, WriteReturns(c) PROVE TypeOK'
  BY <1>12, HttpBounds DEF WriteReturns, tableVars, timeVars, passVars,
     reqVars, TypeOK, Conns, Reqs
<1>13. ASSUME NEW c \in Conns, WriteFails(c) PROVE TypeOK'
  BY <1>13, HttpBounds DEF WriteFails, tableVars, timeVars, passVars, reqVars,
     TypeOK, Conns, Reqs
<1>14. ASSUME NEW c \in Conns, WriteCancel(c) PROVE TypeOK'
  <2>1. owner[c] \in Ids
    BY <1>14 DEF WriteCancel, TypeOK, UsersOK
  <2>2. /\ closed' \subseteq DOMAIN owner'
        /\ conns' \in [Ids -> 0..Len(owner')] /\ owner' = owner
    BY <1>14, <2>1, UnregisterOK DEF WriteCancel
  <2>3. QED
    BY <1>14, <2>2 DEF WriteCancel, timeVars, passVars, reqVars, TypeOK
<1>15. CASE UNCHANGED vars
  BY <1>15 DEF vars, tableVars, timeVars, passVars, reqVars, TypeOK
<1>16. ASSUME NEW c \in Conns, ReadBump(c) PROVE TypeOK'
  <2>1. age' \in [Conns -> 0..Never]
    BY <1>16, BumpOK DEF ReadBump
  <2>2. QED
    BY <1>16, <2>1 DEF ReadBump, bumpActivity, tableVars, passVars, reqVars,
       TypeOK
<1>17. QED
  BY <1>1, <1>2, <1>3, <1>4, <1>5, <1>6, <1>7, <1>8, <1>9, <1>10, <1>11,
     <1>12, <1>13, <1>14, <1>15, <1>16 DEF Next

\* Steps that leave the table alone keep it true.
LEMMA TableFrame == TableOK /\ UNCHANGED tableVars => TableOK'
  BY DEF TableOK, OpenIffRegistered, tableVars

\* Every step keeps the table and the channels in agreement.
LEMMA TableStep == IInv /\ [Next]_vars => TableOK'
<1> SUFFICES ASSUME TypeOK, TableOK, UsersOK, PassOK, [Next]_vars
             PROVE TableOK'
  BY DEF IInv
<1>1. ASSUME Clock PROVE TableOK'
  BY <1>1, TableFrame DEF Clock, tableVars, timeVars, passVars, reqVars
<1>2. ASSUME CleanerTick \/ connectionCleaner PROVE TableOK'
  BY <1>2, CleanerFrame, CleanerCloses, TableFrame, UnregisterKeeps
<1>3. ASSUME Cancel PROVE TableOK'
  BY <1>3, TableFrame DEF Cancel, tableVars, timeVars, passVars, reqVars
<1>4. ASSUME NEW id \in Ids, NewConnection(id) PROVE TableOK'
  BY <1>4, RetrieveKeeps DEF NewConnection
<1>5. ASSUME NEW q \in Reqs, NEW id \in Ids, ServeHTTP(q, id) PROVE TableOK'
  BY <1>5, RetrieveKeeps DEF ServeHTTP
<1>6. ASSUME NEW q \in Reqs, ServeRefused(q) PROVE TableOK'
  BY <1>6, TableFrame DEF ServeRefused, tableVars
<1>7. ASSUME NEW q \in Reqs, Deliver(q) PROVE TableOK'
  BY <1>7, TableFrame DEF Deliver, tableVars
<1>8. ASSUME NEW q \in Reqs, SendPanics(q) PROVE TableOK'
  BY <1>8, TableFrame DEF SendPanics, tableVars
<1>9. ASSUME NEW c \in Conns, ReadCall(c) PROVE TableOK'
  BY <1>9, TableFrame DEF ReadCall, tableVars, timeVars, passVars, reqVars
<1>10. ASSUME NEW c \in Conns, ReadFindsClosed(c) PROVE TableOK'
  BY <1>10, TableFrame DEF ReadFindsClosed, tableVars, timeVars, passVars,
     reqVars
<1>11. ASSUME NEW c \in Conns, WriteBegin(c) PROVE TableOK'
  BY <1>11, TableFrame DEF WriteBegin, bumpActivity, tableVars, timeVars,
     passVars, reqVars
<1>12. ASSUME NEW c \in Conns, WriteReturns(c) PROVE TableOK'
  BY <1>12, TableFrame DEF WriteReturns, tableVars, timeVars, passVars, reqVars
<1>13. ASSUME NEW c \in Conns, WriteFails(c) PROVE TableOK'
  BY <1>13, TableFrame DEF WriteFails, tableVars, timeVars, passVars, reqVars
<1>14. ASSUME NEW c \in Conns, WriteCancel(c) PROVE TableOK'
  <2>1. owner[c] \in Ids
    BY <1>14 DEF WriteCancel, TypeOK, UsersOK
  <2>2. QED
    BY <1>14, <2>1, UnregisterKeeps DEF WriteCancel
<1>15. CASE UNCHANGED vars
  BY <1>15, TableFrame DEF vars, tableVars, timeVars, passVars, reqVars
<1>16. ASSUME NEW c \in Conns, ReadBump(c) PROVE TableOK'
  BY <1>16, TableFrame DEF ReadBump
<1>17. QED
  BY <1>1, <1>2, <1>3, <1>4, <1>5, <1>6, <1>7, <1>8, <1>9, <1>10, <1>11,
     <1>12, <1>13, <1>14, <1>15, <1>16 DEF Next

\* Every step leaves users on connections that were made.
LEMMA UsersStep == IInv /\ [Next]_vars => UsersOK'
<1> SUFFICES ASSUME TypeOK, UsersOK, [Next]_vars PROVE UsersOK'
  BY DEF IInv
<1>1. ASSUME Clock PROVE UsersOK'
  BY <1>1 DEF Clock, tableVars, timeVars, passVars, reqVars, TypeOK, UsersOK
<1>2. ASSUME CleanerTick \/ connectionCleaner PROVE UsersOK'
  BY <1>2, CleanerFrame DEF TypeOK, UsersOK
<1>3. ASSUME Cancel PROVE UsersOK'
  BY <1>3 DEF Cancel, tableVars, timeVars, passVars, reqVars, TypeOK, UsersOK
<1>4. ASSUME NEW id \in Ids, NewConnection(id) PROVE UsersOK'
  BY <1>4, RetrieveOK DEF NewConnection, TypeOK, UsersOK
<1>5. ASSUME NEW q \in Reqs, NEW id \in Ids, ServeHTTP(q, id) PROVE UsersOK'
  BY <1>5, RetrieveOK DEF ServeHTTP, TypeOK, UsersOK
<1>6. ASSUME NEW q \in Reqs, ServeRefused(q) PROVE UsersOK'
  BY <1>6 DEF ServeRefused, tableVars, timeVars, passVars, TypeOK, UsersOK
<1>7. ASSUME NEW q \in Reqs, Deliver(q) PROVE UsersOK'
  BY <1>7 DEF Deliver, tableVars, timeVars, passVars, TypeOK, UsersOK
<1>8. ASSUME NEW q \in Reqs, SendPanics(q) PROVE UsersOK'
  BY <1>8 DEF SendPanics, tableVars, timeVars, passVars, TypeOK, UsersOK
<1>9. ASSUME NEW c \in Conns, ReadCall(c) PROVE UsersOK'
  BY <1>9 DEF ReadCall, tableVars, timeVars, passVars, reqVars, TypeOK, UsersOK
<1>10. ASSUME NEW c \in Conns, ReadFindsClosed(c) PROVE UsersOK'
  BY <1>10 DEF ReadFindsClosed, tableVars, timeVars, passVars, reqVars,
     TypeOK, UsersOK
<1>11. ASSUME NEW c \in Conns, WriteBegin(c) PROVE UsersOK'
  BY <1>11 DEF WriteBegin, bumpActivity, tableVars, timeVars, passVars,
     reqVars, TypeOK, UsersOK
<1>12. ASSUME NEW c \in Conns, WriteReturns(c) PROVE UsersOK'
  BY <1>12 DEF WriteReturns, tableVars, timeVars, passVars, reqVars, TypeOK,
     UsersOK
<1>13. ASSUME NEW c \in Conns, WriteFails(c) PROVE UsersOK'
  BY <1>13 DEF WriteFails, tableVars, timeVars, passVars, reqVars, TypeOK,
     UsersOK
<1>14. ASSUME NEW c \in Conns, WriteCancel(c) PROVE UsersOK'
  BY <1>14 DEF WriteCancel, unregisterLocked, reqVars, TypeOK, UsersOK
<1>15. CASE UNCHANGED vars
  BY <1>15 DEF vars, tableVars, timeVars, passVars, reqVars, UsersOK
<1>16. ASSUME NEW c \in Conns, ReadBump(c) PROVE UsersOK'
  BY <1>16 DEF ReadBump, tableVars, TypeOK, UsersOK
<1>17. QED
  BY <1>1, <1>2, <1>3, <1>4, <1>5, <1>6, <1>7, <1>8, <1>9, <1>10, <1>11,
     <1>12, <1>13, <1>14, <1>15, <1>16 DEF Next

\* Every step keeps count of the connections.
LEMMA CountStep == IInv /\ [Next]_vars => CountOK'
<1> SUFFICES ASSUME TypeOK, CountOK, [Next]_vars PROVE CountOK'
  BY DEF IInv
<1>1. ASSUME Clock PROVE CountOK'
  BY <1>1 DEF Clock, tableVars, timeVars, passVars, reqVars, CountOK, Started
<1>2. ASSUME CleanerTick \/ connectionCleaner PROVE CountOK'
  BY <1>2, CleanerFrame DEF reqVars, CountOK, Started
<1>3. ASSUME Cancel PROVE CountOK'
  BY <1>3 DEF Cancel, tableVars, timeVars, passVars, reqVars, CountOK, Started
<1>4. ASSUME NEW id \in Ids, NewConnection(id) PROVE CountOK'
  <2>1. Started' = Started
    BY <1>4 DEF NewConnection, Started
  <2>2. Len(owner') <= Len(owner) + 1
    BY <1>4, RetrieveOK DEF NewConnection
  <2>3. dials' = dials + 1
    BY <1>4 DEF NewConnection
  <2>4. Len(owner') \in Nat /\ Len(owner) \in Nat
    BY <1>4, RetrieveOK DEF NewConnection, TypeOK
  <2>5. Cardinality(Started) \in Nat /\ dials \in Nat
    BY StartedCount, HttpBounds DEF TypeOK
  <2>6. QED
    BY <2>1, <2>2, <2>3, <2>4, <2>5 DEF CountOK
<1>5. ASSUME NEW q \in Reqs, NEW id \in Ids, ServeHTTP(q, id) PROVE CountOK'
  <2>1. Started' = Started \cup {q} /\ q \notin Started
    BY <1>5 DEF ServeHTTP, Started, TypeOK
  <2>2. Len(owner') <= Len(owner) + 1
    BY <1>5, RetrieveOK DEF ServeHTTP
  <2>3. Cardinality(Started') = Cardinality(Started) + 1
    BY <2>1, StartedCount, FS_AddElement
  <2>4. Len(owner') \in Nat /\ Len(owner) \in Nat /\ dials' = dials
    BY <1>5, RetrieveOK DEF ServeHTTP, TypeOK
  <2>5. Cardinality(Started) \in Nat /\ dials \in Nat
    BY StartedCount, HttpBounds DEF TypeOK
  <2>6. QED
    BY <2>2, <2>3, <2>4, <2>5 DEF CountOK
<1>6. ASSUME NEW q \in Reqs, ServeRefused(q) PROVE CountOK'
  <2>1. Started' = Started
    BY <1>6 DEF ServeRefused, Started, TypeOK
  <2>2. QED
    BY <1>6, <2>1 DEF ServeRefused, tableVars, CountOK
<1>7. ASSUME NEW q \in Reqs, Deliver(q) PROVE CountOK'
  <2>1. Started' = Started
    BY <1>7 DEF Deliver, Started, TypeOK
  <2>2. QED
    BY <1>7, <2>1 DEF Deliver, tableVars, CountOK
<1>8. ASSUME NEW q \in Reqs, SendPanics(q) PROVE CountOK'
  <2>1. Started' = Started
    BY <1>8 DEF SendPanics, Started, TypeOK
  <2>2. QED
    BY <1>8, <2>1 DEF SendPanics, tableVars, CountOK
<1>9. ASSUME NEW c \in Conns, ReadCall(c) PROVE CountOK'
  BY <1>9 DEF ReadCall, tableVars, timeVars, passVars, reqVars, CountOK,
     Started
<1>10. ASSUME NEW c \in Conns, ReadFindsClosed(c) PROVE CountOK'
  BY <1>10 DEF ReadFindsClosed, tableVars, timeVars, passVars, reqVars,
     CountOK, Started
<1>11. ASSUME NEW c \in Conns, WriteBegin(c) PROVE CountOK'
  BY <1>11 DEF WriteBegin, bumpActivity, tableVars, timeVars, passVars,
     reqVars, CountOK, Started
<1>12. ASSUME NEW c \in Conns, WriteReturns(c) PROVE CountOK'
  BY <1>12 DEF WriteReturns, tableVars, timeVars, passVars, reqVars, CountOK,
     Started
<1>13. ASSUME NEW c \in Conns, WriteFails(c) PROVE CountOK'
  BY <1>13 DEF WriteFails, tableVars, timeVars, passVars, reqVars, CountOK,
     Started
<1>14. ASSUME NEW c \in Conns, WriteCancel(c) PROVE CountOK'
  BY <1>14 DEF WriteCancel, unregisterLocked, reqVars, CountOK, Started
<1>15. CASE UNCHANGED vars
  BY <1>15 DEF vars, tableVars, timeVars, passVars, reqVars, CountOK, Started
<1>16. ASSUME NEW c \in Conns, ReadBump(c) PROVE CountOK'
  BY <1>16 DEF ReadBump, tableVars, reqVars, CountOK, Started
<1>17. QED
  BY <1>1, <1>2, <1>3, <1>4, <1>5, <1>6, <1>7, <1>8, <1>9, <1>10, <1>11,
     <1>12, <1>13, <1>14, <1>15, <1>16 DEF Next

\* Every step keeps the connection that is about to be closed registered.
LEMMA PassStep == IInv /\ [Next]_vars => PassOK'
<1> SUFFICES ASSUME TypeOK, TableOK, PassOK, [Next]_vars PROVE PassOK'
  BY DEF IInv
<1>1. ASSUME CleanerTick \/ connectionCleaner PROVE PassOK'
  <2>1. ASSUME NEW id \in Ids, CleanerCheck(id) PROVE PassOK'
    <3>1. ASSUME conns[id] # 0 /\ victim' = conns[id] PROVE PassOK'
      <4>1. conns[id] \in DOMAIN owner /\ owner[conns[id]] = id
        BY <3>1 DEF TypeOK, TableOK
      <4>2. QED
        BY <2>1, <3>1, <4>1 DEF CleanerCheck, tableVars, PassOK
    <3>2. ASSUME cleaner' = "pass" PROVE PassOK'
      BY <3>2 DEF PassOK
    <3>3. QED
      BY <2>1, <3>1, <3>2 DEF CleanerCheck, Pass
  <2>2. CASE cleaner' # "close"
    BY <2>2 DEF PassOK
  <2>3. QED
    BY <1>1, <2>1, <2>2 DEF CleanerTick, connectionCleaner, CleanerLock,
       CleanerClose, CleanerUnlock, CleanerStops, Pass
<1>2. CASE UNCHANGED <<tableVars, passVars>>
  BY <1>2 DEF tableVars, passVars, PassOK
<1>3. CASE Unlocked /\ UNCHANGED passVars
  BY <1>3 DEF Unlocked, passVars, PassOK
<1>4. QED
  BY <1>1, <1>2, <1>3 DEF Next, Clock, Cancel, NewConnection, ServeHTTP,
     retrieve, ServeRefused, Deliver, SendPanics, ReadCall, ReadBump,
     ReadFindsClosed, WriteBegin, WriteReturns, WriteFails, WriteCancel, vars

\* The invariant holds of every reachable state.
THEOREM Invariance == Spec => []IInv
<1>1. ASSUME Init PROVE IInv
  <2>1. TypeOK
    BY <1>1, HttpBounds DEF Init, TypeOK, Oldest, Never
  <2>2. TableOK /\ UsersOK /\ PassOK
    BY <1>1 DEF Init, TableOK, OpenIffRegistered, UsersOK, PassOK
  <2>3. Len(owner) = 0 /\ dials = 0
    BY <1>1 DEF Init
  <2>4. CountOK
    BY <2>3, StartedCount DEF CountOK
  <2>5. QED
    BY <2>1, <2>2, <2>4 DEF IInv
<1>2. IInv /\ [Next]_vars => IInv'
  BY TypeStep, TableStep, UsersStep, CountStep, PassStep DEF IInv
<1>3. QED
  BY <1>1, <1>2, PTL DEF Spec

\* Every variable keeps its type, and there are never more connections than
\* requests and calls of NewConnection.
THEOREM TypeCorrect == Spec => []TypeOK
<1>1. IInv => TypeOK
  BY DEF IInv
<1>2. QED
  BY <1>1, Invariance, PTL

\* A connection is open exactly as long as it is registered under its own
\* address, whoever unregisters it.
THEOREM TableAgrees == Spec => []OpenIffRegistered
<1>1. IInv => OpenIffRegistered
  BY DEF IInv, TableOK
<1>2. QED
  BY <1>1, Invariance, PTL

\* A connection is closed only by a failed write to its address, or by the
\* cleaner after it has looked at this very connection, in the same pass, and
\* found it idle for the timeout: closing by address never hits another one,
\* for any number of addresses, connections and any timeout.
THEOREM OnlyCheckedAreClosed == Spec => OnlyCheckedClosed
<1> DEFINE Justified ==
        /\ \A c \in closed' \ closed :
               \/ c = victim
               \/ \E d \in DOMAIN owner :
                      owner[d] = owner[c] /\ writer[d] = "cancel"
        /\ victim' \notin {0, victim} => age[victim'] >= Timeout
<1>1. ASSUME IInv, Next PROVE Justified
  <2>1. ASSUME CleanerClose PROVE Justified
    BY <1>1, <2>1, CleanerCloses DEF IInv, CleanerClose, unregisterLocked
  <2>2. ASSUME NEW id \in Ids, CleanerCheck(id) PROVE Justified
    <3>1. conns[id] # 0 /\ Stale(conns[id]) => age[conns[id]] >= Timeout
      <4>1. conns[id] # 0 => age[conns[id]] \in 0..Never
        BY <1>1, HttpBounds DEF IInv, TypeOK, Conns
      <4>2. lag \in Nat
        BY <1>1, HttpBounds DEF IInv, TypeOK
      <4>3. QED
        BY <4>1, <4>2, HttpBounds DEF Stale, Oldest, Never
    <3>2. closed' = closed /\ age' = age
      BY <2>2 DEF CleanerCheck, Pass, tableVars
    <3>3. QED
      BY <2>2, <3>1, <3>2 DEF CleanerCheck
  <2>3. ASSUME NEW c \in Conns, WriteCancel(c) PROVE Justified
    <3>1. c \in DOMAIN owner /\ owner[c] \in Ids /\ writer[c] = "cancel"
      BY <1>1, <2>3 DEF IInv, TypeOK, UsersOK, WriteCancel
    <3>2. \A k \in closed' \ closed : conns[owner[c]] = k /\ k # 0
      BY <2>3 DEF WriteCancel, unregisterLocked
    <3>3. \A k \in closed' \ closed : owner[k] = owner[c]
      BY <1>1, <3>1, <3>2 DEF IInv, TableOK
    <3>4. victim' = victim
      BY <2>3 DEF WriteCancel, passVars
    <3>5. QED
      BY <3>1, <3>3, <3>4
  <2>4. CASE closed' = closed /\ victim' = victim
    BY <2>4
  <2>5. QED
    BY <1>1, <2>1, <2>2, <2>3, <2>4 DEF Next, Clock, CleanerTick,
       connectionCleaner, CleanerLock, CleanerUnlock, CleanerStops, Cancel,
       NewConnection, ServeHTTP, retrieve, ServeRefused, Deliver, SendPanics,
       ReadCall, ReadBump, ReadFindsClosed, WriteBegin, WriteReturns,
       WriteFails, tableVars, passVars
<1>2. IInv /\ [Next]_vars => [Justified]_vars
  BY <1>1
<1>3. QED
  BY <1>2, Invariance, PTL DEF OnlyCheckedClosed, Spec

=============================================================================

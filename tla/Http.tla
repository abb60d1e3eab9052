-------------------------------- MODULE Http --------------------------------
(***************************************************************************)
(* GoatOverHttp: a table of connections by address, filled by incoming     *)
(* requests (ServeHTTP) and by NewConnection, and emptied by the cleaner   *)
(* and by failed writes.                                                   *)
(*                                                                         *)
(* The critical sections of retrieve and unregister are one step.  The     *)
(* cleaner holds the lock over its whole pass, in which it looks at one    *)
(* connection after the other and closes it in a step of its own, while    *)
(* lastActivity, an atomic that the lock does not protect, may change.     *)
(* ServeHTTP sends on readCh, which is unbuffered, after retrieve has      *)
(* unlocked.  Time is counted in seconds, as lastActivity is, and kept as  *)
(* the age of each connection's last activity.  External: the clock, the   *)
(* peers, the users of the connections, and net/http, which recovers a     *)
(* panic of ServeHTTP: the request is lost.                                *)
(***************************************************************************)
EXTENDS Naturals, Sequences

CONSTANTS
    Ids,            \* addresses of peers
    Timeout,        \* connectionTimeout in whole seconds, 0 if less than one
    MaxLag,         \* bound: seconds that one pass of the cleaner takes
    MaxReqs,        \* bound: requests served
    MaxDials        \* bound: calls of NewConnection

ASSUME HttpBounds ==
    Timeout \in Nat /\ MaxLag \in Nat /\ MaxReqs \in Nat /\ MaxDials \in Nat

VARIABLES
    owner,          \* addresses of the connections made, oldest first
    conns,          \* conns.value: a connection for an address, 0 if none
    closed,         \* connections whose readCh is closed
    age,            \* time since each connection's lastActivity
    made,           \* time since it was made, up to the timeout
    cleaner,        \* where connectionCleaner is
    lag,            \* time since it read the clock, while it is at work
    todo,           \* addresses its pass has not come to
    victim,         \* the connection it is about to close, 0 if none
    reader,         \* a user in Read: waiting, before bumpActivity, or not
    writer,         \* a user in Write: posting, failed (in cancel), or not
    req,            \* where each request's ServeHTTP is
    target,         \* the connection it sends to
    dials,          \* calls of NewConnection
    ctx             \* goh.ctx: live or done

tableVars == <<owner, conns, closed>>
timeVars == <<age, made, lag>>
passVars == <<cleaner, todo, victim>>
reqVars == <<req, target, dials>>
vars == <<tableVars, timeVars, passVars, reader, writer, reqVars, ctx>>

Conns == 1..(MaxReqs + MaxDials)
Reqs == 1..MaxReqs

\* An age at which a connection is stale however late the cleaner looks.
\* lastActivity is 0, the Unix epoch, before any activity: older than that.
Oldest == Timeout + MaxLag
Never == Oldest + 1

\* The types of the table, the connections and the requests.
TypeOK ==
    /\ owner \in Seq(Ids) /\ Len(owner) <= MaxReqs + MaxDials
    /\ conns \in [Ids -> 0..Len(owner)]
    /\ closed \subseteq DOMAIN owner
    /\ age \in [Conns -> 0..Never] /\ made \in [Conns -> 0..Timeout]
    /\ lag \in 0..MaxLag
    /\ cleaner \in {"idle", "lock", "pass", "close", "exit"}
    /\ todo \subseteq Ids /\ victim \in 0..Len(owner)
    /\ reader \in [Conns -> {"idle", "read", "bump"}]
    /\ writer \in [Conns -> {"idle", "post", "cancel"}]
    /\ req \in [Reqs -> {"none", "send", "done", "lost", "refused"}]
    /\ target \in [Reqs -> 0..Len(owner)]
    /\ dials \in 0..MaxDials
    /\ ctx \in {"live", "done"}

Init ==
    /\ owner = <<>> /\ conns = [id \in Ids |-> 0] /\ closed = {}
    /\ age = [c \in Conns |-> Never] /\ made = [c \in Conns |-> 0]
    /\ lag = 0 /\ cleaner = "idle" /\ todo = {} /\ victim = 0
    /\ reader = [c \in Conns |-> "idle"] /\ writer = [c \in Conns |-> "idle"]
    /\ req = [q \in Reqs |-> "none"] /\ target = [q \in Reqs |-> 0]
    /\ dials = 0 /\ ctx = "live"

-----------------------------------------------------------------------------
(* The table. *)

\* Mutant of Unlocked: the cleaner locks for each of its steps only.
UnlockedAlways == TRUE

\* conns can be locked.
Unlocked == cleaner \notin {"pass", "close"}

\* The connection that retrieve returns, made if there was none.
Retrieved(id) == IF conns[id] = 0 THEN Len(owner) + 1 ELSE conns[id]

retrieve(id) ==
    /\ Unlocked
    /\ owner' = IF Retrieved(id) > Len(owner) THEN Append(owner, id) ELSE owner
    /\ conns' = [conns EXCEPT ![id] = Retrieved(id)]
    /\ UNCHANGED closed

\* Mutant of unregisterLocked: the entry stays.
unregisterKeepsEntry(id) ==
    /\ closed' = closed \cup ({conns[id]} \ {0})
    /\ UNCHANGED <<owner, conns>>

\* Mutant of unregisterLocked: the channel stays open.
unregisterKeepsChannel(id) ==
    /\ conns' = [conns EXCEPT ![id] = 0]
    /\ UNCHANGED <<owner, closed>>

unregisterLocked(id) ==
    /\ closed' = closed \cup ({conns[id]} \ {0})
    /\ conns' = [conns EXCEPT ![id] = 0]
    /\ UNCHANGED owner

NewConnection(id) ==
    /\ dials < MaxDials
    /\ dials' = dials + 1
    /\ retrieve(id)
    /\ UNCHANGED <<timeVars, passVars, reader, writer, req, target, ctx>>

-----------------------------------------------------------------------------
(* ServeHTTP. *)

\* A missing or unreadable body, or a source that is missing or unmapped.
ServeRefused(q) ==
    /\ req[q] = "none"
    /\ req' = [req EXCEPT ![q] = "refused"]
    /\ UNCHANGED <<tableVars, timeVars, passVars, reader, writer, target,
                   dials, ctx>>

ServeHTTP(q, id) ==
    /\ req[q] = "none"
    /\ retrieve(id)
    /\ req' = [req EXCEPT ![q] = "send"]
    /\ target' = [target EXCEPT ![q] = Retrieved(id)]
    /\ UNCHANGED <<timeVars, passVars, reader, writer, dials, ctx>>

\* conn.readCh <- &rpc, taken by the user's Read.
Deliver(q) ==
    LET c == target[q] IN
    /\ req[q] = "send" /\ c \notin closed /\ reader[c] = "read"
    /\ req' = [req EXCEPT ![q] = "done"]
    /\ reader' = [reader EXCEPT ![c] = "bump"]
    /\ UNCHANGED <<tableVars, timeVars, passVars, writer, target, dials, ctx>>

\* readCh was closed since retrieve unlocked, or while the send waits.
SendPanics(q) ==
    /\ req[q] = "send" /\ target[q] \in closed
    /\ req' = [req EXCEPT ![q] = "lost"]
    /\ UNCHANGED <<tableVars, timeVars, passVars, reader, writer, target,
                   dials, ctx>>

-----------------------------------------------------------------------------
(* The clock and the cleaner. *)

Working == cleaner \notin {"idle", "exit"}

\* A second passes.
Clock ==
    /\ Working => lag < MaxLag
    /\ age' = [c \in Conns |-> IF age[c] < Oldest THEN age[c] + 1 ELSE age[c]]
    /\ made' = [c \in Conns |->
                   IF c \in DOMAIN owner /\ made[c] < Timeout THEN made[c] + 1
                                                             ELSE made[c]]
    /\ lag' = IF Working THEN lag + 1 ELSE lag
    /\ UNCHANGED <<tableVars, passVars, reader, writer, reqVars, ctx>>

Pass(step) ==
    /\ cleaner' = step
    /\ UNCHANGED <<age, made, reader, writer, reqVars, ctx>>

\* The ticker fires, and the clock is read before the lock is taken.
CleanerTick ==
    /\ cleaner = "idle"
    /\ Pass("lock")
    /\ lag' = 0
    /\ UNCHANGED <<tableVars, todo, victim>>

CleanerLock ==
    /\ cleaner = "lock"
    /\ Pass("pass")
    /\ todo' = {id \in Ids : conns[id] # 0}
    /\ UNCHANGED <<tableVars, lag, victim>>

\* now - lastActivity >= connectionTimeout, where now is lag seconds ago.
Stale(c) == age[c] = Never \/ age[c] >= Timeout + lag

\* The pass looks at one connection of the table.
CleanerCheck(id) ==
    /\ cleaner = "pass" /\ id \in todo
    /\ todo' = todo \ {id}
    /\ \/ conns[id] # 0 /\ Stale(conns[id]) /\ Pass("close")
          /\ victim' = conns[id]
       \/ ~(conns[id] # 0 /\ Stale(conns[id])) /\ Pass("pass")
          /\ UNCHANGED victim
    /\ UNCHANGED <<tableVars, lag>>

\* unregisterLocked(conn.writeAddr) of the connection it looked at.
CleanerClose ==
    /\ cleaner = "close"
    /\ Pass("pass")
    /\ unregisterLocked(owner[victim])
    /\ victim' = 0
    /\ UNCHANGED <<lag, todo>>

CleanerUnlock ==
    /\ cleaner = "pass" /\ todo = {}
    /\ Pass("idle")
    /\ UNCHANGED <<tableVars, lag, todo, victim>>

\* goh.ctx is done; the select may still prefer a tick to it.
CleanerStops ==
    /\ cleaner = "idle" /\ ctx = "done"
    /\ Pass("exit")
    /\ UNCHANGED <<tableVars, lag, todo, victim>>

connectionCleaner ==
    \/ CleanerLock \/ CleanerClose \/ CleanerUnlock \/ CleanerStops
    \/ \E id \in Ids : CleanerCheck(id)

\* Cancel stops the cleaner, and nothing else.
Cancel ==
    /\ ctx = "live"
    /\ ctx' = "done"
    /\ UNCHANGED <<tableVars, timeVars, passVars, reader, writer, reqVars>>

-----------------------------------------------------------------------------
(* A connection's user.  Read watches no context. *)

ReadCall(c) ==
    /\ c \in DOMAIN owner /\ reader[c] = "idle"
    /\ reader' = [reader EXCEPT ![c] = "read"]
    /\ UNCHANGED <<tableVars, timeVars, passVars, writer, reqVars, ctx>>

\* An atomic store, made without the lock.
bumpActivity(c) == age' = [age EXCEPT ![c] = 0] /\ UNCHANGED <<made, lag>>

\* Read has received and returns.
ReadBump(c) ==
    /\ reader[c] = "bump"
    /\ reader' = [reader EXCEPT ![c] = "idle"]
    /\ bumpActivity(c)
    /\ UNCHANGED <<tableVars, passVars, writer, reqVars, ctx>>

ReadFindsClosed(c) ==
    /\ reader[c] = "read" /\ c \in closed
    /\ reader' = [reader EXCEPT ![c] = "idle"]
    /\ UNCHANGED <<tableVars, timeVars, passVars, writer, reqVars, ctx>>

WriteBegin(c) ==
    /\ c \in DOMAIN owner /\ writer[c] = "idle"
    /\ writer' = [writer EXCEPT ![c] = "post"]
    /\ bumpActivity(c)
    /\ UNCHANGED <<tableVars, passVars, reader, reqVars, ctx>>

\* Any response is a success, whatever its status; failing to marshal is an
\* error that closes nothing.
WriteReturns(c) ==
    /\ writer[c] = "post"
    /\ writer' = [writer EXCEPT ![c] = "idle"]
    /\ UNCHANGED <<tableVars, timeVars, passVars, reader, reqVars, ctx>>

WriteFails(c) ==
    /\ writer[c] = "post"
    /\ writer' = [writer EXCEPT ![c] = "cancel"]
    /\ UNCHANGED <<tableVars, timeVars, passVars, reader, reqVars, ctx>>

\* hrw.cancel(): unregisters whichever connection has the address now.
WriteCancel(c) ==
    /\ writer[c] = "cancel"
    /\ Unlocked
    /\ unregisterLocked(owner[c])
    /\ writer' = [writer EXCEPT ![c] = "idle"]
    /\ UNCHANGED <<timeVars, passVars, reader, reqVars, ctx>>

-----------------------------------------------------------------------------
Next ==
    \/ Clock \/ CleanerTick \/ connectionCleaner \/ Cancel
    \/ \E id \in Ids :
           NewConnection(id) \/ \E q \in Reqs : ServeHTTP(q, id)
    \/ \E q \in Reqs : ServeRefused(q) \/ Deliver(q) \/ SendPanics(q)
    \/ \E c \in Conns :
           \/ ReadCall(c) \/ ReadBump(c) \/ ReadFindsClosed(c)
           \/ WriteBegin(c) \/ WriteReturns(c) \/ WriteFails(c)
           \/ WriteCancel(c)

Spec == Init /\ [][Next]_vars

\* Time passes, the ticker fires, and goroutines that can run do; a post may
\* never be answered, and users need not read.
FairSpec ==
    /\ Spec
    /\ WF_vars(Clock) /\ WF_vars(CleanerTick) /\ WF_vars(connectionCleaner)
    /\ \A q \in Reqs : WF_vars(Deliver(q) \/ SendPanics(q))
    /\ \A c \in Conns : /\ WF_vars(ReadBump(c) \/ ReadFindsClosed(c))
                        /\ WF_vars(WriteCancel(c))

-----------------------------------------------------------------------------
(* Properties. *)

\* The table and the channels agree: a connection is registered, under its
\* own address, exactly as long as it is open.  So no channel is closed twice
\* and ServeHTTP is given open channels only, whoever unregisters in between.
OpenIffRegistered ==
    \A c \in DOMAIN owner : c \notin closed <=> conns[owner[c]] = c

\* A connection is closed only because a write to its address failed, be it a
\* write of a connection it replaced, or by the cleaner, which closes by
\* address, after it has looked at this very connection, in the same pass, and
\* found no activity for the timeout.
OnlyCheckedClosed ==
    [][/\ \A c \in closed' \ closed :
              \/ c = victim
              \/ \E d \in DOMAIN owner :
                     owner[d] = owner[c] /\ writer[d] = "cancel"
       /\ victim' \notin {0, victim} => age[victim'] >= Timeout]_vars

\* connectionCleaner's doc: it closes "any connections whose last activity is
\* older than |connectionTimeout|".  So one with activity since is kept.  It
\* is not if the activity falls between the check and the close.
ActiveKept == [][\A c \in closed' \ closed : c = victim => age[c] >= Timeout]_vars

\* WithConnectionTimeout's doc: a connection is stale after that duration.  So
\* one that has not existed as long is kept.  It is not before its first
\* activity.
FreshKept == [][\A c \in closed' \ closed : c = victim => made[c] >= Timeout]_vars

\* While the cleaner runs, no request waits for ever for a user to read: it is
\* taken, or its connection is timed out and the request lost, unless writes
\* keep the connection active.
RequestTaken ==
    \A q \in Reqs : req[q] = "send" ~>
        \/ req[q] # "send" \/ ctx = "done"
        \/ []<>(\E c \in Conns : c = target[q] /\ age[c] < Timeout)

\* A user in Read is released when its connection is closed, by the cleaner or
\* by a failed write, its own or another's.
ReadReleased == \A c \in Conns : c \in closed ~> reader[c] = "idle"

\* Neither a request nor a reader is left waiting on a connection.
RequestEnds == RequestTaken /\ ReadReleased
=============================================================================

------------------------------- MODULE Demux -------------------------------
(***************************************************************************)
(* Demux: Run reads Rpcs from one connection and hands each to the         *)
(* connection of its identity, made on first use; each has a goroutine     *)
(* that writes what its user sends.  Cancel closes one, Stop ends all.     *)
(*                                                                         *)
(* conns' critical sections are one step; Run sends on conn.r after it has *)
(* unlocked.  Channels are unbuffered.  A user (Server.Serve is one) reads *)
(* in one goroutine and writes in another, through NewGoatOverChannel, and *)
(* may give up (its own context) at any time.                              *)
(* External: the underlying connection, the users, who calls Cancel.       *)
(***************************************************************************)
EXTENDS Naturals, Sequences

CONSTANTS
    Ids,            \* identities demuxOn returns
    MaxReads,       \* bound: Rpcs read
    MaxWrites       \* bound: writes the users begin

ASSUME DemuxBounds == MaxReads \in Nat /\ MaxWrites \in Nat

VARIABLES
    run,            \* where Run is
    target,         \* the connection Run is sending to
    owner,          \* identities of the connections made, oldest first
    conns,          \* conns.value: a connection for an identity, 0 if none
    closed,         \* connections whose r and w are closed
    reader,         \* where each connection's user is with its reads
    sender,         \* and with its writes
    writer,         \* where each connection's write goroutine is
    read,           \* identities of the Rpcs read so far
    handed,         \* the connections whose users were handed them
    writes,         \* writes begun
    ctx             \* gsd.ctx: live or done

tableVars == <<owner, conns, closed>>
userVars == <<reader, sender>>
vars == <<run, target, tableVars, userVars, writer, read, handed, writes, ctx>>

Conns == 1..MaxReads

\* The types of the demultiplexer's fields and its goroutines' positions.
TypeOK ==
    /\ run \in {"read", "send", "returned", "panic"}
    /\ target \in 0..MaxReads
    /\ owner \in Seq(Ids) /\ Len(owner) <= MaxReads
    /\ conns \in [Ids -> 0..Len(owner)]
    /\ closed \subseteq DOMAIN owner
    /\ reader \in [Conns -> {"none", "idle", "read"}]
    /\ sender \in [Conns -> {"none", "idle", "write", "panic"}]
    /\ writer \in [Conns -> {"none", "select", "write", "exit"}]
    /\ read \in Seq(Ids) /\ Len(read) <= MaxReads
    /\ handed \in Seq(DOMAIN owner) /\ Len(handed) <= MaxReads
    /\ writes \in 0..MaxWrites
    /\ ctx \in {"live", "done"}

Init ==
    /\ run = "read" /\ target = 0
    /\ owner = <<>> /\ conns = [id \in Ids |-> 0] /\ closed = {}
    /\ reader = [c \in Conns |-> "none"] /\ sender = reader /\ writer = reader
    /\ read = <<>> /\ handed = <<>>
    /\ writes = 0 /\ ctx = "live"

-----------------------------------------------------------------------------
(* Run. *)

\* The identity is known.
RunRead(id) ==
    /\ run = "read" /\ Len(read) < MaxReads
    /\ conns[id] # 0
    /\ read' = Append(read, id)
    /\ target' = conns[id]
    /\ run' = "send"
    /\ UNCHANGED <<tableVars, userVars, writer, handed, writes, ctx>>

\* newConnLocked: make its channels, start its write goroutine, and tell the
\* application, whose user starts to use it.
RunReadNew(id) ==
    LET c == Len(owner) + 1 IN
    /\ run = "read" /\ Len(read) < MaxReads
    /\ conns[id] = 0
    /\ read' = Append(read, id)
    /\ owner' = Append(owner, id)
    /\ conns' = [conns EXCEPT ![id] = c]
    /\ reader' = [reader EXCEPT ![c] = "idle"]
    /\ sender' = [sender EXCEPT ![c] = "idle"]
    /\ writer' = [writer EXCEPT ![c] = "select"]
    /\ target' = c
    /\ run' = "send"
    /\ UNCHANGED <<closed, handed, writes, ctx>>

\* Mutant of RunReadFails: the loop goes on.
RunReadRetries == run = "read" /\ UNCHANGED vars

RunReadFails ==
    /\ run = "read"
    /\ run' = "returned"
    /\ UNCHANGED <<target, tableVars, userVars, writer, read, handed, writes,
                   ctx>>

\* Mutant of RunSend: an Rpc nobody is waiting for is dropped.
RunSendOrDrop ==
    /\ run = "send" /\ target \notin closed
    /\ \/ /\ reader[target] = "read"
          /\ reader' = [reader EXCEPT ![target] = "idle"]
          /\ handed' = Append(handed, target)
       \/ reader[target] # "read" /\ UNCHANGED <<reader, handed>>
    /\ run' = "read"
    /\ UNCHANGED <<target, tableVars, sender, writer, read, writes, ctx>>

\* conn.r <- rpc: the user is in its read.
RunSend ==
    /\ run = "send" /\ target \notin closed
    /\ reader[target] = "read"
    /\ reader' = [reader EXCEPT ![target] = "idle"]
    /\ handed' = Append(handed, target)
    /\ run' = "read"
    /\ UNCHANGED <<target, tableVars, sender, writer, read, writes, ctx>>

\* Cancel has closed conn.r since Run unlocked: the send panics.
RunSendPanics ==
    /\ run = "send" /\ target \in closed
    /\ run' = "panic"
    /\ UNCHANGED <<target, tableVars, userVars, writer, read, handed, writes,
                   ctx>>

-----------------------------------------------------------------------------
\* Mutant of Cancel: the entry is not deleted.
CancelKeepsEntry(id) ==
    /\ conns[id] # 0
    /\ closed' = closed \cup {conns[id]}
    /\ UNCHANGED <<run, target, owner, conns, userVars, writer, read, handed,
                   writes, ctx>>

Cancel(id) ==
    /\ conns[id] # 0
    /\ closed' = closed \cup {conns[id]}
    /\ conns' = [conns EXCEPT ![id] = 0]
    /\ UNCHANGED <<run, target, owner, userVars, writer, read, handed, writes,
                   ctx>>

Stop ==
    /\ ctx = "live"
    /\ ctx' = "done"
    /\ UNCHANGED <<run, target, tableVars, userVars, writer, read, handed,
                   writes>>

-----------------------------------------------------------------------------
(* A connection's user, through NewGoatOverChannel: its reads. *)

ReaderStep(c, from, to) ==
    /\ reader[c] = from
    /\ reader' = [reader EXCEPT ![c] = to]
    /\ UNCHANGED <<run, target, tableVars, sender, writer, read, handed, writes,
                   ctx>>

UserRead(c) == ReaderStep(c, "idle", "read")

\* Its own context is done.
ReadGivesUp(c) == ReaderStep(c, "read", "idle")

\* An error: the read channel is closed.
ReadFindsClosed(c) == c \in closed /\ ReaderStep(c, "read", "idle")

(* Its writes. *)

SenderStep(c, from, to) ==
    /\ sender[c] = from
    /\ sender' = [sender EXCEPT ![c] = to]
    /\ UNCHANGED <<run, target, tableVars, reader, read, handed, ctx>>

UserWrite(c) ==
    /\ writes < MaxWrites
    /\ writes' = writes + 1
    /\ SenderStep(c, "idle", "write")
    /\ UNCHANGED writer

WriteGivesUp(c) ==
    SenderStep(c, "write", "idle") /\ UNCHANGED <<writer, writes>>

\* A send on the channel that Cancel closed, even one already under way.
WritePanics(c) ==
    /\ c \in closed
    /\ SenderStep(c, "write", "panic")
    /\ UNCHANGED <<writer, writes>>

\* outQ <- rpc, taken by the write goroutine.
WriteTaken(c) ==
    /\ c \notin closed /\ writer[c] = "select"
    /\ writer' = [writer EXCEPT ![c] = "write"]
    /\ SenderStep(c, "write", "idle")
    /\ UNCHANGED writes

(* Its write goroutine. *)

WriterStep(c, from, to) ==
    /\ writer[c] = from
    /\ writer' = [writer EXCEPT ![c] = to]
    /\ UNCHANGED <<run, target, tableVars, userVars, read, handed, writes, ctx>>

\* rw.Write returns; an error ends the goroutine.
WriterWrites(c) ==
    WriterStep(c, "write", "select") \/ WriterStep(c, "write", "exit")

\* Mutant of WriterEnds: the goroutine does not watch gsd.ctx.
WriterEndsOnClose(c) == c \in closed /\ WriterStep(c, "select", "exit")

WriterEnds(c) ==
    (ctx = "done" \/ c \in closed) /\ WriterStep(c, "select", "exit")

-----------------------------------------------------------------------------
Next ==
    \/ RunReadFails \/ RunSend \/ RunSendPanics \/ Stop
    \/ \E id \in Ids : RunRead(id) \/ RunReadNew(id) \/ Cancel(id)
    \/ \E c \in Conns :
           \/ UserRead(c) \/ ReadGivesUp(c) \/ ReadFindsClosed(c)
           \/ UserWrite(c) \/ WriteGivesUp(c) \/ WritePanics(c)
           \/ WriteTaken(c)
           \/ WriterWrites(c) \/ WriterEnds(c)

Spec == Init /\ [][Next]_vars

\* Goroutines that can run do.  Reads and writes of the underlying connection
\* return once gsd.ctx, which they were given, is done.
FairSpec ==
    /\ Spec
    /\ WF_vars(RunSend \/ RunSendPanics \/ (ctx = "done" /\ RunReadFails))
    /\ \A c \in Conns :
           /\ WF_vars(WriterEnds(c) \/ (ctx = "done" /\ WriterWrites(c)))
           /\ WF_vars(ReadFindsClosed(c))
           /\ WF_vars(WritePanics(c) \/ WriteTaken(c))

-----------------------------------------------------------------------------
(* Properties. *)

\* Whatever is cancelled and made again in between, every Rpc read but the one
\* Run is sending was handed, in order, to a connection of its identity, and
\* never to one that an earlier Rpc's connection has replaced.
HandedAll ==
    /\ Len(read) = Len(handed) + (IF run \in {"send", "panic"} THEN 1 ELSE 0)
    /\ \A k \in DOMAIN handed :
           /\ owner[handed[k]] = read[k]
           /\ \A j \in 1..k : read[j] = read[k] => handed[j] <= handed[k]

\* The table and the channels agree: a registered connection is open and has
\* its identity, one that is not registered is closed.  So Run finds only open
\* connections, and a send on a closed one means that Cancel came after the
\* unlock.
OpenIffRegistered ==
    \A c \in DOMAIN owner : c \notin closed <=> conns[owner[c]] = c

\* After Stop, Run returns; or it panicked; or it waits for ever to hand an
\* Rpc to a user that does not read, since that send does not watch gsd.ctx.
StopReturns ==
    ctx = "done" ~>
        \/ run \in {"returned", "panic"}
        \/ /\ [](run = "send")
           /\ []<>(\E c \in Conns : c = target /\ reader[c] # "read")

\* Cancel and Stop leave no write goroutine behind, whatever its user does.
WritersEnd ==
    \A c \in Conns :
        ((c \in closed /\ writer[c] = "select") \/ ctx = "done") ~>
            writer[c] \in {"none", "exit"}

\* Neither goroutine of a cancelled connection's user is left waiting: its
\* read ends with an error.  Its write ends too, but unless the user's own
\* context ends it first it does so in a panic: see WritePanics.
UserReleased ==
    \A c \in Conns :
        /\ c \in closed ~> reader[c] # "read"
        /\ c \in closed ~> sender[c] # "write"

\* Nobody is left waiting on a connection that was cancelled.
CancelReleases == WritersEnd /\ UserReleased
=============================================================================

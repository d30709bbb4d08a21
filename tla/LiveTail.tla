------------------------------ MODULE LiveTail ------------------------------
(***************************************************************************)
(* The live tail (app/domain/logapp/hub.go, logapp.go stream): per-project *)
(* rooms of WebSocket subscribers, fed by the ingest requests.             *)
(*                                                                         *)
(* Three kinds of goroutine: the handler of each connection (upgrade,      *)
(* subscribe, read until an error, unsubscribe, close), the writer of each *)
(* connection, and the ingest requests that broadcast. The hub's RWMutex   *)
(* is held for one step at a time: subscribe, the map part of unsubscribe, *)
(* the snapshot of broadcast. Frames are records of who sent them; their   *)
(* JSON is left out. An empty room and an absent one are not told apart.   *)
(***************************************************************************)
EXTENDS Integers, Sequences, SequencesExt

CONSTANTS
    Conns,       \* WebSocket connections: each is upgraded at most once
    TailProjects,
    Ingesters,   \* ingest requests that broadcast, one batch after the other
    SendBuffer,  \* sendBuffer
    MaxBatches   \* bound on batches of one ingester

ASSUME TailAssumption == SendBuffer \in Nat \ {0} /\ MaxBatches \in Nat /\ TailProjects # {}

VARIABLES
    handler,    \* where the stream handler of each connection is
    project,    \* the project of each connection
    socket,     \* "none", "open" or "closed"
    stalled,    \* the peer has stopped reading: the TCP buffers are full or filling
    rooms,      \* Hub.rooms: the subscribers of each project
    queue,      \* connState.send
    done,       \* connState.done is closed
    writer,     \* where the writer goroutine of each connection is
    held,       \* the frame the writer is writing, as a sequence of at most one
    written,    \* frames handed to the socket
    ingest,     \* the ingest requests
    owed,       \* history: frames whose snapshot had the connection
    saturated   \* history: a frame was dropped because the queue was full

hubVars  == <<handler, project, socket, rooms>>
connVars == <<queue, done, writer, held, written, saturated>>
tailVars     == <<hubVars, stalled, connVars, ingest, owed>>

Frame == [from: Ingesters, batch: 1 .. MaxBatches, project: TailProjects]

TailInit ==
    /\ handler = [c \in Conns |-> "none"]
    /\ project \in [Conns -> TailProjects]
    /\ socket = [c \in Conns |-> "none"]
    /\ stalled = [c \in Conns |-> FALSE]
    /\ rooms = [p \in TailProjects |-> {}]
    /\ queue = [c \in Conns |-> <<>>]
    /\ done = [c \in Conns |-> FALSE]
    /\ writer = [c \in Conns |-> "none"]
    /\ held = [c \in Conns |-> <<>>]
    /\ written = [c \in Conns |-> <<>>]
    /\ ingest = [g \in Ingesters |-> [batch |-> 0, todo |-> {}, at |-> CHOOSE p \in TailProjects : TRUE,
                                      states |-> {}]]
    /\ owed = [c \in Conns |-> {}]
    /\ saturated = [c \in Conns |-> FALSE]

CloseSocket(c) == socket' = [socket EXCEPT ![c] = "closed"]
----------------------------------------------------------------------------
(* stream, after authentication *)

Upgrade(c) ==
    /\ handler[c] = "none"
    /\ handler' = [handler EXCEPT ![c] = "upgraded"]
    /\ socket' = [socket EXCEPT ![c] = "open"]
    /\ UNCHANGED <<project, rooms, stalled, connVars, ingest, owed>>

\* subscribe, and newConnState's goroutine
Subscribe(c) ==
    /\ handler[c] = "upgraded"
    /\ rooms' = [rooms EXCEPT ![project[c]] = @ \cup {c}]
    /\ writer' = [writer EXCEPT ![c] = "select"]
    /\ handler' = [handler EXCEPT ![c] = "reading"]
    /\ UNCHANGED <<project, socket, stalled, queue, done, held, written, saturated, ingest, owed>>

\* ReadMessage fails once the connection is closed, by either side; what a live
\* peer sends is ignored. Then the map part of unsubscribe.
Unsubscribe(c) ==
    /\ handler[c] = "reading" /\ socket[c] = "closed"
    /\ rooms' = [rooms EXCEPT ![project[c]] = @ \ {c}]
    /\ handler' = [handler EXCEPT ![c] = "leaving"]
    /\ UNCHANGED <<project, socket, stalled, connVars, ingest, owed>>

\* A bug: the room is left and the writer is not told.
LeaveSilently(c) ==
    /\ handler[c] = "leaving"
    /\ CloseSocket(c)
    /\ handler' = [handler EXCEPT ![c] = "closed"]
    /\ UNCHANGED <<project, rooms, stalled, connVars, ingest, owed>>

\* cs.stop of unsubscribe and the handler's own conn.Close
Leave(c) ==
    /\ handler[c] = "leaving"
    /\ done' = [done EXCEPT ![c] = TRUE]
    /\ CloseSocket(c)
    /\ handler' = [handler EXCEPT ![c] = "closed"]
    /\ UNCHANGED <<project, rooms, stalled, queue, writer, held, written, saturated, ingest, owed>>

Handler(c) == Subscribe(c) \/ Unsubscribe(c) \/ Leave(c)
----------------------------------------------------------------------------
(* writer *)

\* A bug: everything queued is taken and one frame of it is written.
TakeDrains(c) ==
    /\ writer[c] = "select" /\ queue[c] # <<>>
    /\ held' = [held EXCEPT ![c] = <<Head(queue[c])>>]
    /\ queue' = [queue EXCEPT ![c] = <<>>]
    /\ writer' = [writer EXCEPT ![c] = "writing"]
    /\ UNCHANGED <<hubVars, stalled, done, written, saturated, ingest, owed>>

\* case data := <-cs.send, also when done is closed
Take(c) ==
    /\ writer[c] = "select" /\ queue[c] # <<>>
    /\ held' = [held EXCEPT ![c] = <<Head(queue[c])>>]
    /\ queue' = [queue EXCEPT ![c] = Tail(@)]
    /\ writer' = [writer EXCEPT ![c] = "writing"]
    /\ UNCHANGED <<hubVars, stalled, done, written, saturated, ingest, owed>>

\* WriteMessage succeeds; a stalled peer's kernel may still have room for the frame.
WriteOk(c) ==
    /\ writer[c] = "writing" /\ socket[c] = "open"
    /\ written' = [written EXCEPT ![c] = @ \o held[c]]
    /\ held' = [held EXCEPT ![c] = <<>>]
    /\ writer' = [writer EXCEPT ![c] = "select"]
    /\ UNCHANGED <<hubVars, stalled, queue, done, saturated, ingest, owed>>

\* WriteMessage fails: the connection is closed, or the write deadline passes on
\* a stalled peer. The writer stops the subscriber...
WriteFails(c) ==
    /\ writer[c] = "writing" /\ (socket[c] = "closed" \/ stalled[c])
    /\ held' = [held EXCEPT ![c] = <<>>]
    /\ done' = [done EXCEPT ![c] = TRUE]
    /\ writer' = [writer EXCEPT ![c] = "returning"]
    /\ UNCHANGED <<hubVars, stalled, queue, written, saturated, ingest, owed>>

\* case <-cs.done
Done(c) ==
    /\ writer[c] = "select" /\ done[c]
    /\ writer' = [writer EXCEPT ![c] = "returning"]
    /\ UNCHANGED <<hubVars, stalled, queue, done, held, written, saturated, ingest, owed>>

\* ...and its deferred conn.Close unblocks the handler's read.
Return(c) ==
    /\ writer[c] = "returning"
    /\ CloseSocket(c)
    /\ writer' = [writer EXCEPT ![c] = "exited"]
    /\ UNCHANGED <<handler, project, rooms, stalled, queue, done, held, written, saturated, ingest, owed>>

Writer(c) == Take(c) \/ WriteOk(c) \/ WriteFails(c) \/ Done(c) \/ Return(c)
----------------------------------------------------------------------------
(* BroadcastLogs *)

Idle(g) == ingest[g].todo = {} /\ ingest[g].states = {}

\* A batch with logs of the projects ps, grouped by project.
BroadcastLogs(g, ps) ==
    /\ Idle(g) /\ ingest[g].batch < MaxBatches
    /\ ingest' = [ingest EXCEPT ![g].batch = @ + 1, ![g].todo = ps]
    /\ UNCHANGED <<hubVars, stalled, connVars, owed>>

FrameOf(g, p) == [from |-> g, batch |-> ingest[g].batch, project |-> p]

\* broadcast, up to the loop: the room under the read lock, in any project order
Broadcast(g, p) ==
    /\ ingest[g].states = {} /\ p \in ingest[g].todo
    /\ ingest' = [ingest EXCEPT ![g].todo = @ \ {p}, ![g].at = p, ![g].states = rooms[p]]
    /\ owed' = [c \in Conns |-> IF c \in rooms[p] THEN owed[c] \cup {FrameOf(g, p)} ELSE owed[c]]
    /\ UNCHANGED <<hubVars, stalled, connVars>>

HasRoom(c) == Len(queue[c]) < SendBuffer

\* A bug: the select has no default, and waits for room or for the stop.
EnqueueBlocks(g, c) ==
    /\ c \in ingest[g].states /\ (HasRoom(c) \/ done[c])
    /\ queue' = IF HasRoom(c) THEN [queue EXCEPT ![c] = Append(@, FrameOf(g, ingest[g].at))] ELSE queue
    /\ ingest' = [ingest EXCEPT ![g].states = @ \ {c}]
    /\ UNCHANGED <<hubVars, stalled, done, writer, held, written, saturated, owed>>

\* enqueue: a select over done, send and default takes any ready case
Enqueue(g, c) ==
    /\ c \in ingest[g].states
    /\ \/ /\ HasRoom(c)
          /\ queue' = [queue EXCEPT ![c] = Append(@, FrameOf(g, ingest[g].at))]
          /\ UNCHANGED saturated
       \/ done[c] /\ UNCHANGED <<queue, saturated>>
       \/ /\ ~HasRoom(c) /\ ~done[c]
          /\ saturated' = [saturated EXCEPT ![c] = TRUE]
          /\ UNCHANGED queue
    /\ ingest' = [ingest EXCEPT ![g].states = @ \ {c}]
    /\ UNCHANGED <<hubVars, stalled, done, writer, held, written, owed>>

\* What is left of a batch once it has begun.
Sending(g) == (\E p \in TailProjects : Broadcast(g, p)) \/ (\E c \in Conns : Enqueue(g, c))
----------------------------------------------------------------------------
(* The peer, external: it may hang up, or stop and resume reading. *)

HangUp(c) ==
    /\ socket[c] = "open"
    /\ CloseSocket(c)
    /\ UNCHANGED <<handler, project, rooms, stalled, connVars, ingest, owed>>

Stall(c) ==
    /\ socket[c] = "open"
    /\ stalled' = [stalled EXCEPT ![c] = ~@]
    /\ UNCHANGED <<hubVars, connVars, ingest, owed>>
----------------------------------------------------------------------------
TailNext ==
    \/ \E c \in Conns : Upgrade(c) \/ Handler(c) \/ Writer(c) \/ HangUp(c) \/ Stall(c)
    \/ \E g \in Ingesters : Sending(g) \/ \E ps \in SUBSET TailProjects \ {{}} : BroadcastLogs(g, ps)

\* The ingest requests are scheduled; no handler, writer or peer need ever run.
TailSpec == TailInit /\ [][TailNext]_tailVars /\ \A g \in Ingesters : WF_tailVars(Sending(g))

\* So are the goroutines of the connections, but nothing makes the kernel take a
\* frame for a peer that has stalled.
ConnsScheduled ==
    \A c \in Conns :
        /\ WF_tailVars(Handler(c))
        /\ WF_tailVars(Take(c) \/ (WriteOk(c) /\ ~stalled[c]) \/ WriteFails(c) \/ Done(c) \/ Return(c))
----------------------------------------------------------------------------
(* Properties. *)

\* Everything on its way to the peer, oldest first.
Pipeline(c) == written[c] \o held[c] \o queue[c]

\* Every variable has its type, and a queue holds at most sendBuffer frames.
TailTypeOK ==
    /\ handler \in [Conns -> {"none", "upgraded", "reading", "leaving", "closed"}]
    /\ project \in [Conns -> TailProjects]
    /\ socket \in [Conns -> {"none", "open", "closed"}]
    /\ stalled \in [Conns -> BOOLEAN]
    /\ rooms \in [TailProjects -> SUBSET Conns]
    /\ queue \in [Conns -> Seq(Frame)]
    /\ \A c \in Conns : Len(queue[c]) <= SendBuffer /\ Len(held[c]) <= 1
    /\ done \in [Conns -> BOOLEAN]
    /\ writer \in [Conns -> {"none", "select", "writing", "returning", "exited"}]
    /\ held \in [Conns -> Seq(Frame)]
    /\ written \in [Conns -> Seq(Frame)]
    /\ ingest \in [Ingesters -> [batch: 0 .. MaxBatches, todo: SUBSET TailProjects, at: TailProjects,
                                 states: SUBSET Conns]]
    /\ owed \in [Conns -> SUBSET Frame]
    /\ saturated \in [Conns -> BOOLEAN]

\* "When it fills, new frames are dropped for that subscriber": only then. A
\* subscriber that is not stopped and whose queue was never full is sent every
\* frame that was broadcast while it was in the room.
NothingLost ==
    \A c \in Conns : ~done[c] /\ ~saturated[c] =>
        \A f \in owed[c] :
            \/ f \in ToSet(Pipeline(c))
            \/ c \in ingest[f.from].states /\ FrameOf(f.from, ingest[f.from].at) = f

\* "must never apply backpressure to the ingest path": a broadcast that has begun
\* ends, whatever the subscribers and their writers do or fail to do.
BroadcastFinishes == \A g \in Ingesters : ~Idle(g) ~> Idle(g)

Gone(c) == handler[c] = "closed" /\ writer[c] = "exited" /\ c \notin rooms[project[c]]

\* "Closing the conn unblocks the handler's read loop, which unsubscribes": a
\* subscriber whose connection is closed, by whichever side, is taken out of the
\* room and leaves neither goroutine behind, if its goroutines are scheduled.
ClosedIsCleanedUp == ConnsScheduled => \A c \in Conns : socket[c] = "closed" ~> Gone(c)

============================================================================

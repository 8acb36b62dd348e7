----------------------------- MODULE RustOutlet -----------------------------
(* The plugin's client of the sink (rust_sql_outlet_whaletracker.sp) and the *)
(* local save queue it shares the database with (whaletracker.inc,           *)
(* database_whaletracker.sp).  Writes are numbered in the order the gameplay *)
(* code hands them over.  The daemon is abstract: it owes what it accepted   *)
(* and executes it in lane order (module DurableQueue), whatever its         *)
(* connections do.  Each connection has an end of its own, so that answers   *)
(* and batches of a session that was given up are still on the way when the  *)
(* next one is open.                                                         *)
(*                                                                           *)
(* The plugin is single-threaded: every action of it is one callback.  The   *)
(* database thread of SourceMod, the network and the daemon interleave.      *)
EXTENDS Integers, Sequences, FiniteSets, SequencesExt, FiniteSetsExt, Selection

CONSTANTS
    Lanes,      \* lanes of the daemon
    LaneOf,     \* the lane each write belongs to
    MaxWrites,  \* bound: writes handed over
    QueueMax,   \* sm_whaletracker_rust_queue_max
    BatchMax,   \* sm_whaletracker_rust_batch_max
    MaxAsync,   \* MAX_CONCURRENT_SAVE_QUERIES
    Sockets, NoSocket,
    BatchIds, NoBatch,
    MaxFaults   \* bound: failures of network, daemon and database

Writes == 1 .. MaxWrites

ASSUME OutletAssumption ==
    /\ MaxWrites \in Nat /\ MaxFaults \in Nat
    /\ LaneOf \in [Writes -> Lanes]
    /\ QueueMax \in Nat \ {0} /\ BatchMax \in Nat \ {0} /\ MaxAsync \in Nat \ {0}
    /\ NoSocket \notin Sockets /\ NoBatch \notin BatchIds

VARIABLES
    handed,     \* writes the gameplay code has handed over
    queue,      \* g_hRustSqlQueue
    inflight,   \* g_hRustSqlInflight
    batch,      \* g_iRustSqlInflightBatchId; NoBatch: not awaiting an ACK
    sock,       \* g_hRustSqlSocket
    link,       \* connecting, connected and helloReady as one position
    armed,      \* g_fRustSqlDeadline is set
    retry,      \* g_hRustSqlReconnectTimer is running
    enabled,    \* sm_whaletracker_rust_sql_outlet
    draining,   \* g_bRustSqlDraining
    unloaded,   \* OnPluginEnd has run
    saveQueue,  \* g_SaveQueue
    executing,  \* g_PendingSaveQueries: queries at the database thread
    pump,       \* g_hSavePumpTimer is running
    ready,      \* g_bDatabaseReady, with the handle of asynchronous queries
    chan,       \* the far end of each socket: network and handler thread
    owed,       \* accepted by the daemon, not executed
    done,       \* ids the daemon knows as executed
    applied,    \* history: writes in the order of their first execution
    dropped,    \* history: writes the local path failed to execute
    remote,     \* history: writes the outlet took
    direct,     \* history: writes executed on the synchronous connection
    faults      \* history: failures so far

outletVars == <<queue, inflight, batch, sock, link, armed, retry>>
adminVars == <<enabled, draining, unloaded>>
localVars == <<saveQueue, executing, pump, ready>>
daemonVars == <<chan, owed, done>>
history == <<applied, dropped, remote, direct>>
vars == <<handed, outletVars, adminVars, localVars, daemonVars, history, faults>>

-----------------------------------------------------------------------------
(* Messages and channels.                                                    *)

Hello == [kind |-> "hello", id |-> NoBatch, writes |-> <<>>]
Batch(id, ws) == [kind |-> "batch", id |-> id, writes |-> ws]
Reply(kind, id) == [kind |-> kind, id |-> id, writes |-> <<>>]

\* No connection, nothing under way in either direction.
Free == [served |-> "no", up |-> <<>>, job |-> Hello, down |-> <<>>]

\* What the plugin sends is lost when the other side has closed.
Sent(c, m) == IF c.served = "no" THEN c ELSE [c EXCEPT !.up = Append(@, m)]

\* The connection ends after these replies.
Closed(replies) == [Free EXCEPT !.down = Append(replies, Reply("closed", NoBatch))]

-----------------------------------------------------------------------------
(* Shared conditions.                                                        *)

HasPendingWrites == queue # <<>> \/ inflight # <<>>

\* Defect: what is in flight does not count.
CanPumpQueueEmpty == queue = <<>>
CanPumpLocal == ~HasPendingWrites

HasLocalWork == executing # <<>> \/ saveQueue # <<>>

\* Condition of every failure: the bound on them.
Fails == faults < MaxFaults /\ faults' = faults + 1

\* Each write counts when it is executed for the first time.
New(ws) == Among(ws, Writes \ ToSet(applied))

Init ==
    /\ handed = 0
    /\ queue = <<>> /\ inflight = <<>> /\ batch = NoBatch
    /\ sock = NoSocket /\ link = "down" /\ armed = FALSE /\ retry = FALSE
    /\ enabled = TRUE /\ draining = FALSE /\ unloaded = FALSE
    /\ saveQueue = <<>> /\ executing = <<>> /\ pump = FALSE /\ ready = FALSE
    /\ chan = [s \in Sockets |-> Free]
    /\ owed = <<>> /\ done = {}
    /\ applied = <<>> /\ dropped = {} /\ remote = {} /\ direct = {}
    /\ faults = 0

-----------------------------------------------------------------------------
(* The local save queue.                                                     *)

\* The synchronous connection executes ws in order, and only those in ok succeed.
\* The others are refused, or the handle is gone since an earlier one, or it was
\* never there; all of these forget the write.
ExecuteSync(ws, ok) ==
    LET ran == Among(New(ws), ok)
    IN  /\ applied' = applied \o ran
        /\ dropped' = dropped \cup (ToSet(New(ws)) \ ok)
        /\ direct' = direct \cup ToSet(ran)
        /\ UNCHANGED remote

\* RunSaveQuerySync for each of ws.  An error of the connection drops the handles.
RunSaveQuerySync(ws) ==
    \E ok \in SUBSET ToSet(ws) :
        /\ ExecuteSync(ws, ok)
        /\ (ready' = ready) \/ (ok # ToSet(ws) /\ ready' = FALSE)

\* PumpSaveQueue moves as many writes to the database thread as it may run.
PumpSaveQueue ==
    LET free == MaxAsync - Len(executing)
        n == IF CanPumpLocal THEN Min({free, Len(saveQueue)}) ELSE 0
        Submit(w) == [write |-> w, ran |-> FALSE]
    IN  /\ executing' = executing \o [i \in 1 .. n |-> Submit(saveQueue[i])]
        /\ saveQueue' = SubSeq(saveQueue, n + 1, Len(saveQueue))

\* Defect: the pump is not asked for.
QueueLocalQuietly(w, forceSync) ==
    IF forceSync /\ CanPumpLocal
    THEN RunSaveQuerySync(<<w>>) /\ UNCHANGED <<saveQueue, executing, pump>>
    ELSE /\ saveQueue' = Append(saveQueue, w)
         /\ UNCHANGED <<executing, pump, ready, history>>

\* QueueLocalSaveQuery.  The deferred pump (the default) is a timer; pumping in
\* place is the timer that fires at once.
QueueLocalSaveQuery(w, forceSync) ==
    IF forceSync /\ CanPumpLocal
    THEN RunSaveQuerySync(<<w>>) /\ UNCHANGED <<saveQueue, executing, pump>>
    ELSE /\ saveQueue' = Append(saveQueue, w)
         /\ pump' = TRUE
         /\ UNCHANGED <<executing, ready, history>>

PumpTimer ==
    /\ pump /\ ~unloaded
    /\ pump' = FALSE
    /\ IF ready THEN PumpSaveQueue ELSE UNCHANGED <<saveQueue, executing>>
    /\ UNCHANGED <<handed, outletVars, adminVars, ready, daemonVars, history, faults>>

\* The database thread runs its statements in order, one at a time.
RunAsync(ok) ==
    \E i \in DOMAIN executing :
        /\ ~executing[i].ran
        /\ \A j \in 1 .. i - 1 : executing[j].ran
        /\ executing' = [executing EXCEPT ![i].ran = TRUE]
        /\ IF ok
           THEN applied' = Append(applied, executing[i].write) /\ UNCHANGED dropped
           ELSE dropped' = dropped \cup {executing[i].write} /\ UNCHANGED applied
        /\ UNCHANGED <<handed, outletVars, adminVars, saveQueue, pump, ready,
                       daemonVars, remote, direct>>

ExecuteAsync == RunAsync(TRUE) /\ UNCHANGED faults
ExecuteAsyncFails == RunAsync(FALSE) /\ Fails

\* The result arrives in the plugin; a failed write is only logged, and an error
\* of the connection drops the handles.
SaveCallback ==
    /\ ~unloaded
    /\ executing # <<>> /\ Head(executing).ran
    /\ executing' = Tail(executing)
    /\ pump' = TRUE
    /\ (ready' = ready) \/ (Head(executing).write \in dropped /\ ready' = FALSE)
    /\ UNCHANGED <<handed, outletVars, adminVars, saveQueue, daemonVars, history,
                   faults>>

\* Both connections and the schema check are complete.
DatabaseReady ==
    /\ ~ready /\ ~unloaded
    /\ ready' = TRUE
    /\ PumpSaveQueue
    /\ UNCHANGED <<handed, outletVars, adminVars, pump, daemonVars, history, faults>>

\* Any other query, or the health check, finds the connection lost.  The handles
\* are dropped; queries at the database thread end on their own.
DatabaseLost ==
    /\ ready /\ ~unloaded
    /\ ready' = FALSE
    /\ Fails
    /\ UNCHANGED <<handed, outletVars, adminVars, saveQueue, executing, pump,
                   daemonVars, history>>

\* OnMapEnd: FlushSaveQueueSync.  The forced saves before it are hand-overs,
\* the flush of the outlet after it is FlushSqlBatch.
MapEnd ==
    /\ ~unloaded /\ CanPumpLocal /\ saveQueue # <<>>
    /\ RunSaveQuerySync(saveQueue)
    /\ saveQueue' = <<>>
    /\ UNCHANGED <<handed, outletVars, adminVars, executing, pump, daemonVars,
                   faults>>

-----------------------------------------------------------------------------
(* The outlet.                                                               *)

\* RustQueueWrite takes a write unless local work would be overtaken, the
\* session is not up and nothing is pending behind which it could wait, or the
\* queue is full.
TakenByOutlet(forceSync) ==
    /\ enabled /\ ~draining /\ ~forceSync
    /\ ~HasLocalWork
    /\ link = "ready" \/ HasPendingWrites
    /\ Len(queue) + Len(inflight) < QueueMax

\* QueueSaveQuery for the next write of the gameplay code.
HandOver(forceSync) ==
    /\ handed < MaxWrites /\ ~unloaded
    /\ handed' = handed + 1
    /\ IF TakenByOutlet(forceSync)
       THEN /\ queue' = Append(queue, handed')
            /\ remote' = remote \cup {handed'}
            /\ UNCHANGED <<localVars, applied, dropped, direct>>
       ELSE /\ QueueLocalSaveQuery(handed', forceSync)
            /\ UNCHANGED queue
    /\ UNCHANGED <<inflight, batch, sock, link, armed, retry, adminVars,
                   daemonVars, faults>>

\* Defects: the batch is forgotten; it goes behind newer writes.
RequeueNothing == queue' = queue /\ inflight' = <<>> /\ batch' = NoBatch
RequeueBehind == queue' = queue \o inflight /\ inflight' = <<>> /\ batch' = NoBatch

\* RequeueInflight: unacknowledged writes go back in front of newer ones.
RequeueInflight ==
    /\ queue' = inflight \o queue
    /\ inflight' = <<>>
    /\ batch' = NoBatch

\* DisconnectSocket, without and with the new attempt of ConnectSocket.
DisconnectSocket ==
    /\ RequeueInflight
    /\ sock' = NoSocket /\ link' = "down" /\ armed' = FALSE

Reconnect ==
    \/ \E s \in Sockets :
          /\ chan[s] = Free
          /\ chan' = [chan EXCEPT ![s].served = "connecting"]
          /\ RequeueInflight
          /\ sock' = s /\ link' = "connecting" /\ armed' = TRUE
          /\ retry' = FALSE /\ UNCHANGED faults
    \/ /\ Fails                     \* no socket from the extension
       /\ DisconnectSocket
       /\ retry' = TRUE /\ UNCHANGED chan

\* A fault of the session: every write of it is kept for the next.
Fault ==
    /\ DisconnectSocket
    /\ retry' = (retry \/ enabled)

\* FlushSqlBatch while there is no session, from the flush timer.
ConnectSocket ==
    /\ ~unloaded /\ enabled /\ link = "down" /\ ~retry
    /\ Reconnect
    /\ UNCHANGED <<handed, adminVars, localVars, owed, done, history>>

ReconnectTimer ==
    /\ ~unloaded /\ retry
    /\ IF enabled /\ link = "down"
       THEN Reconnect
       ELSE retry' = FALSE /\ UNCHANGED <<queue, inflight, batch, sock, link, armed, chan, faults>>
    /\ UNCHANGED <<handed, adminVars, localVars, owed, done, history>>

\* The flush timer finds the deadline passed, because the answer is late or because
\* the connection has died in silence.
Timeout ==
    /\ ~unloaded /\ armed
    /\ Fails \/ (chan[sock] = Free /\ UNCHANGED faults)
    /\ Fault
    /\ UNCHANGED <<handed, adminVars, localVars, daemonVars, history>>

\* FlushSqlBatch: a batch of at most BatchMax writes, fewer when their text
\* fills the frame.  Its id is not one under way (ids count up and wrap).
IdsUnderWay ==
    UNION {{m.id : m \in ToSet(chan[s].up \o chan[s].down) \cup {chan[s].job}} :
             s \in Sockets}

FlushSqlBatch ==
    /\ ~unloaded /\ enabled /\ batch = NoBatch /\ link = "ready"
    /\ \E n \in 1 .. Min({BatchMax, Len(queue)}), id \in BatchIds \ IdsUnderWay :
          /\ inflight' = SubSeq(queue, 1, n)
          /\ queue' = SubSeq(queue, n + 1, Len(queue))
          /\ batch' = id
          /\ chan' = [chan EXCEPT ![sock] = Sent(@, Batch(id, SubSeq(queue, 1, n)))]
    /\ armed' = TRUE
    /\ UNCHANGED <<handed, sock, link, retry, adminVars, localVars, owed, done,
                   history, faults>>

\* OnSocketConnected: the hello is sent, its answer has a deadline of its own.
Connected(s) ==
    /\ link = "connecting"
    /\ link' = "hello"
    /\ LET read == [chan[s] EXCEPT !.down = Tail(@)]
       IN  chan' = [chan EXCEPT ![s] = Sent(read, Hello)]
    /\ UNCHANGED <<queue, inflight, batch, sock, armed, retry, localVars>>

\* HandleBackendLine, answer to the hello.
HelloAcknowledged ==
    IF link = "hello"
    THEN /\ link' = "ready" /\ armed' = FALSE
         /\ UNCHANGED <<queue, inflight, batch, sock, retry, localVars>>
    ELSE UNCHANGED <<outletVars, localVars>>

\* Defect: the deadline of the batch stays armed.
BatchAcknowledgedArmed ==
    /\ inflight' = <<>> /\ batch' = NoBatch
    /\ pump' = (pump \/ queue = <<>>)
    /\ UNCHANGED <<queue, sock, link, armed, retry, saveQueue, executing, ready>>

\* HandleBackendLine, ACK: ownership ends, and the barrier if nothing is left.
BatchAcknowledged ==
    /\ inflight' = <<>> /\ batch' = NoBatch /\ armed' = FALSE
    /\ pump' = (pump \/ queue = <<>>)
    /\ UNCHANGED <<queue, sock, link, retry, saveQueue, executing, ready>>

\* Callbacks of a socket that was replaced return at once, and so does an answer
\* to another batch than the one in flight.
Ignored(s, m) == s # sock \/ (m.kind \in {"ack", "error"} /\ m.id # batch)

\* What the callbacks of the socket extension do with any other message.
Received(m) ==
    \/ m.kind = "hello_ack" /\ HelloAcknowledged
    \/ m.kind = "ack" /\ BatchAcknowledged
    \/ m.kind \in {"error", "closed"} /\ Fault /\ UNCHANGED localVars

SocketCallback(s) ==
    /\ ~unloaded /\ chan[s].down # <<>>
    /\ LET m == Head(chan[s].down)
           read == [chan EXCEPT ![s].down = Tail(@)]
       IN  \/ Ignored(s, m) /\ chan' = read /\ UNCHANGED <<outletVars, localVars>>
           \/ ~Ignored(s, m) /\ m.kind = "connected" /\ Connected(s)
           \/ ~Ignored(s, m) /\ m.kind # "connected" /\ chan' = read /\ Received(m)
    /\ UNCHANGED <<handed, adminVars, owed, done, history, faults>>

\* EndpointChanged: a new endpoint, or the outlet switched on or off.  While
\* writes are pending the change is reverted.
EndpointChanged ==
    /\ ~unloaded /\ ~HasPendingWrites
    /\ enabled' \in BOOLEAN
    /\ IF enabled'
       THEN Reconnect
       ELSE DisconnectSocket /\ retry' = FALSE /\ UNCHANGED <<chan, faults>>
    /\ UNCHANGED <<handed, draining, unloaded, localVars, owed, done, history>>

\* sm_wt_outlet_drain.
DrainCommand ==
    /\ ~unloaded
    /\ draining' = ~draining
    /\ UNCHANGED <<handed, outletVars, enabled, unloaded, localVars, daemonVars,
                   history, faults>>

\* OnPluginEnd: whatever the plugin still owns goes through the synchronous
\* connection, remote writes before local ones.  Queries at the database
\* thread run to their end.
PluginEnd ==
    /\ ~unloaded
    /\ unloaded' = TRUE
    /\ LET owned == inflight \o queue \o saveQueue
       IN  \E ok \in SUBSET ToSet(owned) : ExecuteSync(owned, ok)
    /\ queue' = <<>> /\ inflight' = <<>> /\ batch' = NoBatch /\ saveQueue' = <<>>
    /\ sock' = NoSocket /\ link' = "down" /\ armed' = FALSE /\ retry' = FALSE
    /\ pump' = FALSE /\ ready' = FALSE
    /\ UNCHANGED <<handed, enabled, draining, executing, daemonVars, faults>>

-----------------------------------------------------------------------------
(* The other side: network, handler threads, workers.                        *)

far == <<handed, outletVars, adminVars, localVars, dropped, remote, direct>>

Accept(s) ==
    /\ chan[s].served = "connecting"
    /\ chan' = [chan EXCEPT ![s].served = "idle",
                            ![s].down = Append(@, Reply("connected", NoBatch))]
    /\ UNCHANGED <<far, owed, done, applied, faults>>

AnswerHello(s) ==
    /\ chan[s].served = "idle" /\ chan[s].up # <<>> /\ Head(chan[s].up) = Hello
    /\ chan' = [chan EXCEPT ![s].up = Tail(@),
                            ![s].down = Append(@, Reply("hello_ack", NoBatch))]
    /\ UNCHANGED <<far, owed, done, applied, faults>>

\* publish_writes: completed ids are filtered, and the rest is refused as a
\* whole if one of them is still queued, otherwise accepted as a whole.
AcceptBatch(s) ==
    /\ chan[s].served = "idle" /\ chan[s].up # <<>> /\ Head(chan[s].up).kind = "batch"
    /\ LET b == Head(chan[s].up)
           fresh == Among(b.writes, Writes \ done)
       IN  IF ToSet(fresh) \cap ToSet(owed) = {}
           THEN /\ owed' = owed \o fresh
                /\ chan' = [chan EXCEPT ![s].up = Tail(@), ![s].served = "waiting",
                                        ![s].job = b]
           ELSE /\ chan' = [chan EXCEPT ![s] = Closed(Append(@.down, Reply("error", b.id)))]
                /\ UNCHANGED owed
    /\ UNCHANGED <<far, done, applied, faults>>

\* A full queue or a failed append: nothing of the batch is accepted.
RefuseBatch(s) ==
    /\ chan[s].served = "idle" /\ chan[s].up # <<>> /\ Head(chan[s].up).kind = "batch"
    /\ Fails
    /\ chan' = [chan EXCEPT ![s] = Closed(Append(@.down, Reply("error", Head(@.up).id)))]
    /\ UNCHANGED <<far, owed, done, applied>>

\* A worker runs the next statement of a lane.
DaemonExecutes ==
    \E i \in DOMAIN owed :
        /\ \A j \in 1 .. i - 1 : LaneOf[owed[j]] # LaneOf[owed[i]]
        /\ owed' = SubSeq(owed, 1, i - 1) \o SubSeq(owed, i + 1, Len(owed))
        /\ done' = done \cup {owed[i]}
        /\ applied' = applied \o New(<<owed[i]>>)
        /\ UNCHANGED <<far, chan, faults>>

AnswerBatch(s) ==
    /\ chan[s].served = "waiting" /\ ToSet(chan[s].job.writes) \subseteq done
    /\ chan' = [chan EXCEPT ![s].served = "idle", ![s].job = Hello,
                            ![s].down = Append(@, Reply("ack", chan[s].job.id))]
    /\ UNCHANGED <<far, owed, done, applied, faults>>

\* The wait for the commit times out; the jobs stay queued.
GiveUp(s) ==
    /\ chan[s].served = "waiting"
    /\ Fails
    /\ chan' = [chan EXCEPT ![s] = Closed(Append(@.down, Reply("error", @.job.id)))]
    /\ UNCHANGED <<far, owed, done, applied>>

\* The connection breaks, is refused, or the daemon dies with it: what was not
\* read is lost, and so are the answers, or not.  The plugin may never be told.
Break(s) ==
    /\ chan[s].served # "no"
    /\ Fails
    /\ \E replies \in {<<>>, chan[s].down} :
          \E end \in {Closed(replies), [Free EXCEPT !.down = replies]} :
             chan' = [chan EXCEPT ![s] = end]
    /\ UNCHANGED <<far, owed, done, applied>>

\* The handler of a socket the plugin has closed reads the end of the stream,
\* or fails to answer.
HandlerEnds(s) ==
    /\ s # sock /\ chan[s] # Free
    /\ chan[s].up = <<>> \/ unloaded
    /\ chan' = [chan EXCEPT ![s] = Free]
    /\ UNCHANGED <<far, owed, done, applied, faults>>

Plugin ==
    \/ \E forceSync \in BOOLEAN : HandOver(forceSync)
    \/ PumpTimer \/ SaveCallback \/ DatabaseReady \/ DatabaseLost \/ MapEnd
    \/ ConnectSocket \/ ReconnectTimer \/ Timeout \/ FlushSqlBatch
    \/ \E s \in Sockets : SocketCallback(s)
    \/ EndpointChanged \/ DrainCommand \/ PluginEnd

Daemon ==
    \/ \E s \in Sockets : \/ Accept(s) \/ AnswerHello(s) \/ AcceptBatch(s)
                          \/ RefuseBatch(s) \/ AnswerBatch(s) \/ GiveUp(s)
                          \/ Break(s) \/ HandlerEnds(s)
    \/ DaemonExecutes

Next == Plugin \/ ExecuteAsync \/ ExecuteAsyncFails \/ Daemon

Spec == Init /\ [][Next]_vars

\* Timers fire, callbacks are delivered, connections make progress and the
\* database answers, once no more failures come.
FairSpec ==
    /\ Spec
    /\ WF_vars(PumpTimer) /\ WF_vars(SaveCallback) /\ WF_vars(DatabaseReady)
    /\ WF_vars(ConnectSocket) /\ WF_vars(ReconnectTimer) /\ WF_vars(FlushSqlBatch)
    /\ WF_vars(ExecuteAsync) /\ WF_vars(DaemonExecutes)
    /\ WF_vars(Timeout /\ UNCHANGED faults)
    /\ \A s \in Sockets :
          /\ WF_vars(SocketCallback(s)) /\ WF_vars(Accept(s)) /\ WF_vars(AnswerHello(s))
          /\ WF_vars(AcceptBatch(s)) /\ WF_vars(AnswerBatch(s)) /\ WF_vars(HandlerEnds(s))

-----------------------------------------------------------------------------
(* Properties.                                                               *)

Positions == {"down", "connecting", "hello", "ready"}
Message == [kind : {"hello", "batch", "connected", "hello_ack", "ack", "error", "closed"},
            id : BatchIds \cup {NoBatch}, writes : Seq(Writes)]

\* Types, and how the flags of the outlet go together: a batch has writes and
\* is in flight on an open session, and every wait has a deadline.
TypeOK ==
    /\ handed \in 0 .. MaxWrites
    /\ queue \in Seq(Writes) /\ inflight \in Seq(Writes) /\ saveQueue \in Seq(Writes)
    /\ batch \in BatchIds \cup {NoBatch}
    /\ sock \in Sockets \cup {NoSocket} /\ link \in Positions
    /\ {armed, retry, enabled, draining, unloaded, pump, ready} \subseteq BOOLEAN
    /\ executing \in Seq([write : Writes, ran : BOOLEAN]) /\ Len(executing) <= MaxAsync
    /\ chan \in [Sockets -> [served : {"no", "connecting", "idle", "waiting"},
                             up : Seq(Message), job : Message, down : Seq(Message)]]
    /\ owed \in Seq(Writes) /\ applied \in Seq(Writes)
    /\ {done, dropped, remote, direct} \subseteq SUBSET Writes
    /\ faults \in 0 .. MaxFaults
    /\ batch = NoBatch <=> inflight = <<>>
    /\ batch # NoBatch => link = "ready"
    /\ sock = NoSocket <=> link = "down"
    /\ armed <=> (link \in {"connecting", "hello"} \/ batch # NoBatch)

\* Every write handed over is owned by exactly one of the four places, or it has
\* been executed, or the local path reported a failure; the outlet never gives
\* up a write the daemon has not executed, whatever sessions and answers do.
NoWriteForgotten ==
    LET local == [i \in DOMAIN executing |-> executing[i].write]
        held == inflight \o queue \o saveQueue \o local
    IN  /\ \A i, j \in DOMAIN held : held[i] = held[j] => i = j
        /\ 1 .. handed \subseteq ToSet(held) \cup ToSet(applied) \cup dropped
        /\ dropped \cap remote # {} => unloaded

\* "Unknown remote outcomes hold the barrier": local queries and remote writes
\* are never under way together.
BarrierHolds == HasPendingWrites => executing = <<>>

\* Writes take effect in the order they were handed over, across both paths,
\* failures and retries.  Two exceptions: lanes of the daemon are independent, and
\* what runs on the synchronous connection (a write executed at once, the flush at
\* map end) does not wait for local writes at the database thread.
\* Unloading with pending writes may reorder, as RustShutdown says.
OrderKept ==
    \/ unloaded
    \/ \A i, j \in DOMAIN applied :
          (i < j /\ applied[j] < applied[i]) =>
             \/ /\ {applied[i], applied[j]} \subseteq remote
                /\ LaneOf[applied[i]] # LaneOf[applied[j]]
             \/ applied[i] \in direct /\ applied[j] \notin remote

\* Whatever is handed over takes effect, or fails visibly, unless the plugin is
\* unloaded: no lost answer, stale callback, barrier or full queue blocks it.
EveryWriteEnds ==
    \A w \in Writes :
        w <= handed ~> (w \in ToSet(applied) \cup dropped \/ unloaded)
=============================================================================

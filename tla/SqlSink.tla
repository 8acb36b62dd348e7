------------------------------ MODULE SqlSink ------------------------------
(***************************************************************************)
(* The SQL sink of the Rust daemon with everything that acts around it:      *)
(* one handler thread per client connection, the publication mutex, the    *)
(* admission table, the journal, three lane queues with their condition    *)
(* variables, one worker thread per lane, the completed-event cache, the   *)
(* completion objects handlers wait on, the crash of the process at any    *)
(* point and the replay of the journal at the next start.                  *)
(*                                                                         *)
(* An action is what one thread does between two points where another      *)
(* thread can observe it (one critical section, one file write, one SQL    *)
(* statement).  The journal is kept as the state a recovery would read     *)
(* from it: the pending events in physical order and the window of         *)
(* completed ids.  Module Journal shows that the file behaves like that,   *)
(* compaction included.                                                    *)
(***************************************************************************)
EXTENDS JournalState, Selection, FiniteSets, FiniteSetsExt

CONSTANTS
    Ids,            \* event ids
    Lanes,          \* the lanes of sql.rs
    LaneOf,         \* lane of the event's statement
    Weight,         \* write_size of the event
    Conns,          \* connection handlers
    NoConn,         \* no handler holds the publication mutex
    Batches,        \* the valid batches clients may send
    RowLimit,       \* max_queue_rows
    ByteLimit,      \* max_queue_bytes
    MaxBatchRows,   \* max_batch_rows
    Tokens,         \* identities of Completion objects
    NoToken,
    MaxCrashes      \* bound on crashes in a behaviour

ASSUME SqlSinkAssumption ==
    /\ IsFiniteSet(Ids)     \* strings of a bounded length (protocol.rs)
    /\ LaneOf \in [Ids -> Lanes]
    /\ Weight \in [Ids -> Nat]
    /\ Batches \subseteq Seq(Ids)
    /\ NoConn \notin Conns
    /\ NoToken \notin Tokens
    /\ RowLimit \in Nat
    /\ ByteLimit \in Nat
    /\ MaxBatchRows \in Nat \ {0}
    /\ MaxCrashes \in Nat
    /\ Lanes \cap {"none", "pub"} = {}

VARIABLES
    disk,       \* journal content: [pend : Seq(Ids), done : Seq(Ids)]
    jrnl,       \* the append in progress: who, content before, lines written
    torn,       \* the journal ends in an incomplete line
    applied,    \* the database: events whose SQL has committed
    up,         \* the journal is replayed: workers and listener are running
    active, usage,   \* the admission table, see module Admission
    dedupe,     \* ids known to be complete, oldest first
    pub,        \* what the holder of the publication mutex is doing
    conn,       \* per handler: its state, the batch it carries, its completion
    queue,      \* per lane: jobs waiting
    batch,      \* per lane: jobs the worker took and has not executed
    committed,  \* per lane: jobs executed and not retired
    stage,      \* per lane: where the worker is
    left,       \* per completion: the jobs it still waits for
    retired,    \* history: ids whose completion marker became durable
    crashes     \* history: crashes so far

diskVars  == <<disk, jrnl, torn>>
admVars   == <<active, usage>>
laneVars  == <<queue, batch, committed, stage>>
histVars  == <<retired, crashes>>
vars == <<disk, jrnl, torn, applied, up, active, usage, dedupe, pub, conn,
          queue, batch, committed, stage, left, retired, crashes>>

Job == [id : Ids, tok : Tokens]

PermitOf(i) == [id |-> i, bytes |-> Weight[i], lane |-> LaneOf[i]]

Requests(s) == [k \in DOMAIN s |-> PermitOf(s[k])]

JobIds(s) == [k \in DOMAIN s |-> s[k].id]

LiveJobs(l) == committed[l] \o batch[l] \o queue[l]

\* Ids whose permits the publishing handler owns itself, not yet a job.
Unpublished ==
    IF pub.stage = "append" THEN pub.kept
    ELSE IF pub.stage \in {"undo", "push"} THEN pub.todo ELSE <<>>

Permits ==
    {PermitOf(i) : i \in ToSet(Unpublished)}
      \cup UNION {{PermitOf(j.id) : j \in ToSet(LiveJobs(l))} : l \in Lanes}

Adm == INSTANCE Admission
         WITH permits <- Permits, Sizes <- {Weight[i] : i \in Ids},
              MaxSpecs <- RowLimit

----------------------------------------------------------------------------
(* Appends to the journal                                                  *)

\* What is durable while an append may still be rolled back.
Stable == IF jrnl.holder = "none" THEN disk ELSE jrnl.before

Idle == [holder |-> "none", before |-> [pend |-> <<>>, done |-> <<>>], n |-> 0]

\* append_bytes: one more line of an append reaches the file; with the last one
\* the append is synced and can no longer be rolled back.
WriteLine(who, newDisk, last) ==
    /\ jrnl.holder \in {"none", who}
    /\ disk' = newDisk
    /\ jrnl' = IF last THEN Idle
               ELSE [holder |-> who, before |-> Stable, n |-> jrnl.n + 1]

\* Defect variant of RollBack: lines written before the failure stay.
RollBackNothing(who) ==
    /\ jrnl.holder \in {"none", who}
    /\ disk' = disk
    /\ jrnl' = Idle

\* append_bytes: write or sync failed, the file is cut back to its old length.
RollBack(who) ==
    /\ jrnl.holder \in {"none", who}
    /\ disk' = Stable
    /\ jrnl' = Idle

----------------------------------------------------------------------------
(* Start and initial state                                                 *)

Offline == [stage |-> "free", who |-> NoConn, todo |-> <<>>, kept |-> <<>>,
            tok |-> NoToken]

Quiet == [st |-> "idle", ids |-> <<>>, tok |-> NoToken]

Init ==
    /\ disk = [pend |-> <<>>, done |-> <<>>]
    /\ jrnl = Idle
    /\ torn = FALSE
    /\ applied = {}
    /\ up = FALSE
    /\ active = {}
    /\ usage = Adm!NoUsage
    /\ dedupe = <<>>
    /\ pub = Offline
    /\ conn = [c \in Conns |-> Quiet]
    /\ queue = [l \in Lanes |-> <<>>]
    /\ batch = [l \in Lanes |-> <<>>]
    /\ committed = [l \in Lanes |-> <<>>]
    /\ stage = [l \in Lanes |-> "take"]
    /\ left = [t \in Tokens |-> {}]
    /\ retired = {}
    /\ crashes = 0

\* SqlSink::replay at process start, before any worker or handler exists: the
\* completed ids are remembered, the pending events go through publish_writes
\* without being journalled again.  A torn journal keeps the daemon down.
Recover ==
    /\ ~up
    /\ ~torn
    /\ pub.stage = "free"
    /\ dedupe' = disk.done
    /\ pub' = [Offline EXCEPT !.stage = "filter", !.todo = disk.pend]
    /\ UNCHANGED <<diskVars, applied, up, admVars, conn, laneVars, left,
                   histVars>>

----------------------------------------------------------------------------
(* Handler threads: protocol::handle_client and SqlSink::publish_writes    *)

Reply(c) == conn' = [conn EXCEPT ![c] = Quiet]

ReleaseMutex == pub' = Offline

\* A handler reads a sql_batch frame whose writes are all valid.
Receive(c, b) ==
    /\ up
    /\ conn[c].st = "idle"
    /\ conn' = [conn EXCEPT ![c] = [st |-> "ready", ids |-> b, tok |-> NoToken]]
    /\ UNCHANGED <<diskVars, applied, up, admVars, dedupe, pub, laneVars, left,
                   histVars>>

\* publish_writes takes the publication mutex.
BeginPublish(c) ==
    /\ conn[c].st = "ready"
    /\ pub.stage = "free"
    /\ pub' = [Offline EXCEPT !.stage = "filter", !.who = c,
                              !.todo = conn[c].ids]
    /\ conn' = [conn EXCEPT ![c].st = "publishing"]
    /\ UNCHANGED <<diskVars, applied, up, admVars, dedupe, laneVars, left,
                   histVars>>

\* Defect variant of FilterOne: an event that is still pending leaves the batch
\* as if it were complete.
FilterPendingToo ==
    /\ pub.stage = "filter"
    /\ pub.todo # <<>>
    /\ LET i == Head(pub.todo)
       IN pub' = [pub EXCEPT !.todo = Tail(@),
                             !.kept = IF i \in ToSet(dedupe) \cup active THEN @
                                      ELSE Append(@, i)]
    /\ UNCHANGED <<diskVars, applied, up, admVars, dedupe, conn, laneVars, left,
                   histVars>>

\* One look-up in the completed-event cache; a known event leaves the batch.
FilterOne ==
    /\ pub.stage = "filter"
    /\ pub.todo # <<>>
    /\ LET i == Head(pub.todo)
       IN pub' = [pub EXCEPT !.todo = Tail(@),
                             !.kept = IF i \in ToSet(dedupe) THEN @
                                      ELSE Append(@, i)]
    /\ UNCHANGED <<diskVars, applied, up, admVars, dedupe, conn, laneVars, left,
                   histVars>>

\* Admission::reserve for what is left of the batch.
ReserveKept ==
    /\ Adm!Admits(Requests(pub.kept))
    /\ active' = active \cup ToSet(pub.kept)
    /\ usage' = Adm!Charge(usage, Requests(pub.kept))

\* A batch from a client is journalled next.
ReserveBatch ==
    /\ pub.stage = "filter"
    /\ pub.todo = <<>>
    /\ pub.who \in Conns
    /\ ReserveKept
    /\ pub' = [pub EXCEPT !.stage = "append"]
    /\ UNCHANGED <<diskVars, applied, up, dedupe, conn, laneVars, left, histVars>>

\* reserve() refuses ("queue full", "duplicate event_id in batch", "event
\* still pending"): an error reply, the connection closes.
RefuseBatch ==
    /\ pub.stage = "filter"
    /\ pub.todo = <<>>
    /\ pub.who \in Conns
    /\ ~Adm!Admits(Requests(pub.kept))
    /\ Reply(pub.who)
    /\ ReleaseMutex
    /\ UNCHANGED <<diskVars, applied, up, admVars, dedupe, laneVars, left,
                   histVars>>

\* Completion objects nobody refers to any more.
FreeTokens ==
    {t \in Tokens :
       /\ \A c \in Conns : conn[c].tok # t
       /\ \A l \in Lanes : \A j \in ToSet(LiveJobs(l)) : j.tok # t}

\* Defect variant of Accepted: the jobs are not given the batch's Completion.
AcceptedDetached ==
    /\ FreeTokens # {}
    /\ LET t == CHOOSE x \in FreeTokens : TRUE
       IN /\ left' = [left EXCEPT ![t] = ToSet(pub.kept)]
          /\ pub' = [pub EXCEPT !.stage = "push", !.todo = pub.kept]

\* The batch is journalled: its Completion is created and it is pushed next.
Accepted ==
    /\ FreeTokens # {}
    /\ LET t == CHOOSE x \in FreeTokens : TRUE
       IN /\ left' = [left EXCEPT ![t] = ToSet(pub.kept)]
          /\ pub' = [pub EXCEPT !.stage = "push", !.todo = pub.kept,
                                !.tok = t]

\* The replayed events are admitted as one batch and pushed next.  A journal
\* that does not fit is refused and keeps the daemon down.
ReserveReplay ==
    /\ pub.stage = "filter"
    /\ pub.todo = <<>>
    /\ pub.who = NoConn
    /\ ReserveKept
    /\ Accepted
    /\ UNCHANGED <<diskVars, applied, up, dedupe, conn, laneVars, histVars>>

\* append_pending has nothing to write.
AcceptNothing ==
    /\ pub.stage = "append"
    /\ pub.kept = <<>>
    /\ Accepted
    /\ UNCHANGED <<diskVars, applied, up, admVars, dedupe, conn, laneVars,
                   histVars>>

\* append_pending writes its next line; the batch is accepted with the last.
WritePending ==
    /\ pub.stage = "append"
    /\ pub.kept # <<>>
    /\ LET last == jrnl.n + 1 = Len(pub.kept)
       IN /\ WriteLine("pub", PutPending(disk, pub.kept[jrnl.n + 1]), last)
          /\ IF last THEN Accepted ELSE UNCHANGED <<pub, left>>
    /\ UNCHANGED <<torn, applied, up, admVars, dedupe, conn, laneVars, histVars>>

\* append_pending fails and is rolled back; nothing of the batch is published.
WritePendingFails ==
    /\ pub.stage = "append"
    /\ pub.kept # <<>>
    /\ RollBack("pub")
    /\ pub' = [pub EXCEPT !.stage = "undo", !.todo = pub.kept]
    /\ UNCHANGED <<torn, applied, up, admVars, dedupe, conn, laneVars, left,
                   histVars>>

\* Defect variant of UndoOne: the permits of the failed batch are leaked.
UndoLeaks ==
    /\ pub.stage = "undo"
    /\ pub.todo # <<>>
    /\ pub' = [pub EXCEPT !.todo = Tail(@)]
    /\ UNCHANGED <<diskVars, applied, up, admVars, dedupe, conn, laneVars, left,
                   histVars>>

\* The permits of the failed batch are dropped one by one.
UndoOne ==
    /\ pub.stage = "undo"
    /\ pub.todo # <<>>
    /\ active' = active \ {Head(pub.todo)}
    /\ usage' = Adm!Refund(usage, PermitOf(Head(pub.todo)))
    /\ pub' = [pub EXCEPT !.todo = Tail(@)]
    /\ UNCHANGED <<diskVars, applied, up, dedupe, conn, laneVars, left, histVars>>

\* Defect variant of RefuseUnjournalled: the mutex stays locked.
RefuseHoldingMutex ==
    /\ pub.stage = "undo"
    /\ pub.todo = <<>>
    /\ Reply(pub.who)
    /\ UNCHANGED <<diskVars, applied, up, admVars, dedupe, pub, laneVars, left,
                   histVars>>

\* "journal write failed": an error reply, the connection closes.
RefuseUnjournalled ==
    /\ pub.stage = "undo"
    /\ pub.todo = <<>>
    /\ Reply(pub.who)
    /\ ReleaseMutex
    /\ UNCHANGED <<diskVars, applied, up, admVars, dedupe, laneVars, left,
                   histVars>>

\* One job is pushed to its lane; its worker may take it at once.
PushOne ==
    /\ pub.stage = "push"
    /\ pub.todo # <<>>
    /\ LET i == Head(pub.todo)
       IN queue' = [queue EXCEPT ![LaneOf[i]] =
                      Append(@, [id |-> i, tok |-> pub.tok])]
    /\ pub' = [pub EXCEPT !.todo = Tail(@)]
    /\ UNCHANGED <<diskVars, applied, up, admVars, dedupe, conn, batch, committed,
                   stage, left, histVars>>

\* Defect variant of Published: nobody is notified.
PublishedSilently ==
    /\ pub.stage = "push"
    /\ pub.todo = <<>>
    /\ pub.who \in Conns
    /\ conn' = [conn EXCEPT ![pub.who].st = "waiting", ![pub.who].tok = pub.tok]
    /\ ReleaseMutex
    /\ UNCHANGED <<diskVars, applied, up, admVars, dedupe, laneVars, left,
                   histVars>>

\* All pushed: every lane is notified, the mutex released, the handler waits.
Published ==
    /\ pub.stage = "push"
    /\ pub.todo = <<>>
    /\ pub.who \in Conns
    /\ stage' = [l \in Lanes |-> IF stage[l] = "asleep" THEN "take"
                                 ELSE stage[l]]
    /\ conn' = [conn EXCEPT ![pub.who].st = "waiting", ![pub.who].tok = pub.tok]
    /\ ReleaseMutex
    /\ UNCHANGED <<diskVars, applied, up, admVars, dedupe, queue, batch,
                   committed, left, histVars>>

\* The replay is complete: workers are spawned, clients are accepted.
Start ==
    /\ pub.stage = "push"
    /\ pub.todo = <<>>
    /\ pub.who = NoConn
    /\ up' = TRUE
    /\ ReleaseMutex
    /\ UNCHANGED <<diskVars, applied, admVars, dedupe, conn, laneVars, left,
                   histVars>>

\* Completion::wait returns, the ACK line reaches the client.
Acknowledge(c) ==
    /\ conn[c].st = "waiting"
    /\ left[conn[c].tok] = {}
    /\ Reply(c)
    /\ UNCHANGED <<diskVars, applied, up, admVars, dedupe, pub, laneVars, left,
                   histVars>>

\* The wait times out ("retry with the same event IDs") or the reply cannot be
\* delivered; the jobs stay admitted and go on.
GiveUp(c) ==
    /\ conn[c].st = "waiting"
    /\ Reply(c)
    /\ UNCHANGED <<diskVars, applied, up, admVars, dedupe, pub, laneVars, left,
                   histVars>>

----------------------------------------------------------------------------
(* Worker threads: take_batch, worker_loop and confirm_committed           *)

Min2(a, b) == IF a <= b THEN a ELSE b

\* take_batch finds its lane empty and waits on the condition variable.
Sleep(l) ==
    /\ up
    /\ stage[l] = "take"
    /\ queue[l] = <<>>
    /\ stage' = [stage EXCEPT ![l] = "asleep"]
    /\ UNCHANGED <<diskVars, applied, up, admVars, dedupe, pub, conn, queue,
                   batch, committed, left, histVars>>

\* take_batch drains the front of the lane.  How long it coalesced is open, so
\* the jobs it finds are those queued at the moment of this step.
TakeBatch(l) ==
    /\ up
    /\ stage[l] = "take"
    /\ queue[l] # <<>>
    /\ LET n == Min2(Len(queue[l]), MaxBatchRows)
       IN /\ batch' = [batch EXCEPT ![l] = SubSeq(queue[l], 1, n)]
          /\ queue' = [queue EXCEPT ![l] = SubSeq(@, n + 1, Len(@))]
    /\ stage' = [stage EXCEPT ![l] = "execute"]
    /\ UNCHANGED <<diskVars, applied, up, admVars, dedupe, pub, conn, committed,
                   left, histVars>>

\* Defect variant of WillRun: the completed-event cache is not asked again.
WillRunBlindly(l) == stage[l] = "execute"

\* The worker will send the SQL of its head job, rather than skip a job whose
\* event is already known to be complete.
WillRun(l) ==
    stage[l] = "execute" /\ Head(batch[l]).id \notin ToSet(dedupe)

\* After a failure the jobs that did commit are confirmed before the head is
\* tried again; without any, the head is tried again at once.
AfterFailure(l) ==
    stage' = [stage EXCEPT ![l] = IF committed[l] = <<>> THEN @ ELSE "confirm"]

\* The head job succeeds: skipped when its id is already known to be complete,
\* otherwise its SQL commits.
Execute(l) ==
    /\ stage[l] = "execute"
    /\ LET j == Head(batch[l])
       IN /\ applied' = IF WillRun(l) THEN applied \cup {j.id} ELSE applied
          /\ committed' = [committed EXCEPT ![l] = Append(@, j)]
    /\ batch' = [batch EXCEPT ![l] = Tail(@)]
    /\ stage' = [stage EXCEPT ![l] = IF Len(batch[l]) = 1 THEN "confirm" ELSE @]
    /\ UNCHANGED <<diskVars, up, admVars, dedupe, pub, conn, queue, left,
                   histVars>>

\* Defect variant of ExecuteFails: the failed head goes to the end of the batch.
ExecuteFailsRotating(l) ==
    /\ WillRun(l)
    /\ AfterFailure(l)
    /\ batch' = [batch EXCEPT ![l] = Append(Tail(@), Head(@))]
    /\ UNCHANGED <<diskVars, applied, up, admVars, dedupe, pub, conn, queue,
                   committed, left, histVars>>

\* The statement fails, or no connection can be had: nothing was applied.
ExecuteFails(l) ==
    /\ WillRun(l)
    /\ AfterFailure(l)
    /\ UNCHANGED <<diskVars, applied, up, admVars, dedupe, pub, conn, queue,
                   batch, committed, left, histVars>>

\* The statement commits but the session dies before the worker learns of it.
ExecuteUnknown(l) ==
    /\ WillRun(l)
    /\ applied' = applied \cup {Head(batch[l]).id}
    /\ AfterFailure(l)
    /\ UNCHANGED <<diskVars, up, admVars, dedupe, pub, conn, queue, batch,
                   committed, left, histVars>>

\* append_done writes its next line; with the last one all are durable.
WriteDone(l) ==
    /\ stage[l] = "confirm"
    /\ LET last == jrnl.n + 1 = Len(committed[l])
       IN /\ WriteLine(l, PutDone(disk, committed[l][jrnl.n + 1].id), last)
          /\ IF last
             THEN /\ retired' = retired \cup ToSet(JobIds(committed[l]))
                  /\ stage' = [stage EXCEPT ![l] = "remember"]
             ELSE UNCHANGED <<retired, stage>>
    /\ UNCHANGED <<torn, applied, up, admVars, dedupe, pub, conn, queue, batch,
                   committed, left, crashes>>

\* Defect variant of WriteDoneFails: the jobs are retired without a marker.
WriteDoneFailsGivingUp(l) ==
    /\ stage[l] = "confirm"
    /\ RollBack(l)
    /\ stage' = [stage EXCEPT ![l] = "remember"]
    /\ UNCHANGED <<torn, applied, up, admVars, dedupe, pub, conn, queue, batch,
                   committed, left, histVars>>

\* append_done fails and is rolled back; only the append is tried again.
WriteDoneFails(l) ==
    /\ stage[l] = "confirm"
    /\ RollBack(l)
    /\ UNCHANGED <<torn, applied, up, admVars, dedupe, pub, conn, laneVars, left,
                   histVars>>

\* confirm_committed, job by job: the id is remembered as complete, ...
RememberOne(l) ==
    /\ stage[l] = "remember"
    /\ dedupe' = RememberId(dedupe, Head(committed[l]).id)
    /\ stage' = [stage EXCEPT ![l] = "finish"]
    /\ UNCHANGED <<diskVars, applied, up, admVars, pub, conn, queue, batch,
                   committed, left, histVars>>

\* ... its Completion counts down, ...
FinishOne(l) ==
    /\ stage[l] = "finish"
    /\ LET j == Head(committed[l])
       IN left' = [left EXCEPT ![j.tok] = @ \ {j.id}]
    /\ stage' = [stage EXCEPT ![l] = "retire"]
    /\ UNCHANGED <<diskVars, applied, up, admVars, dedupe, pub, conn, queue,
                   batch, committed, histVars>>

\* ... and the job is dropped with its permit.
RetireOne(l) ==
    /\ stage[l] = "retire"
    /\ LET i == Head(committed[l]).id
       IN /\ active' = active \ {i}
          /\ usage' = Adm!Refund(usage, PermitOf(i))
    /\ committed' = [committed EXCEPT ![l] = Tail(@)]
    /\ stage' = [stage EXCEPT ![l] =
                   IF Len(committed[l]) > 1 THEN "remember"
                   ELSE IF batch[l] # <<>> THEN "execute" ELSE "take"]
    /\ UNCHANGED <<diskVars, applied, up, dedupe, pub, conn, queue, batch, left,
                   histVars>>

----------------------------------------------------------------------------
(* Crash and recovery                                                      *)

\* Some thread is about to write to the journal or has begun to.
Appending ==
    \/ pub.stage = "append" /\ pub.kept # <<>>
    \/ \E l \in Lanes : stage[l] = "confirm"

\* Completion lines of an unfinished append that are already in the file.
Recorded ==
    IF jrnl.holder \in Lanes
    THEN {committed[jrnl.holder][k].id : k \in 1 .. jrnl.n}
    ELSE {}

\* The process dies: a kill, the abort after a panic, or the abort of
\* append_bytes when the rollback of a failed append fails as well.  Complete
\* lines written so far stay in the file, possibly followed by a torn one.
Crash ==
    /\ up \/ pub.stage # "free"
    /\ crashes < MaxCrashes
    /\ crashes' = crashes + 1
    /\ torn' \in IF Appending THEN BOOLEAN ELSE {FALSE}
    /\ jrnl' = Idle
    /\ retired' = retired \cup Recorded
    /\ up' = FALSE
    /\ active' = {}
    /\ usage' = Adm!NoUsage
    /\ dedupe' = <<>>
    /\ pub' = Offline
    /\ conn' = [c \in Conns |-> Quiet]
    /\ queue' = [l \in Lanes |-> <<>>]
    /\ batch' = [l \in Lanes |-> <<>>]
    /\ committed' = [l \in Lanes |-> <<>>]
    /\ stage' = [l \in Lanes |-> "take"]
    /\ left' = [t \in Tokens |-> {}]
    /\ UNCHANGED <<disk, applied>>

\* read_state refuses a torn journal and preserves it; the operator removes
\* the incomplete line.
Repair ==
    /\ torn
    /\ torn' = FALSE
    /\ UNCHANGED <<disk, jrnl, applied, up, admVars, dedupe, pub, conn, laneVars,
                   left, histVars>>

----------------------------------------------------------------------------
Handler(c) ==
    \/ \E b \in Batches : Receive(c, b)
    \/ BeginPublish(c)
    \/ Acknowledge(c)
    \/ GiveUp(c)

Publisher ==
    \/ FilterOne
    \/ ReserveBatch
    \/ RefuseBatch
    \/ ReserveReplay
    \/ AcceptNothing
    \/ WritePending
    \/ WritePendingFails
    \/ UndoOne
    \/ RefuseUnjournalled
    \/ PushOne
    \/ Published
    \/ Start

Worker(l) ==
    \/ Sleep(l)
    \/ TakeBatch(l)
    \/ Execute(l)
    \/ ExecuteFails(l)
    \/ ExecuteUnknown(l)
    \/ WriteDone(l)
    \/ WriteDoneFails(l)
    \/ RememberOne(l)
    \/ FinishOne(l)
    \/ RetireOne(l)

Next ==
    \/ \E c \in Conns : Handler(c)
    \/ Publisher
    \/ \E l \in Lanes : Worker(l)
    \/ Crash
    \/ Repair
    \/ Recover

Spec == Init /\ [][Next]_vars

----------------------------------------------------------------------------
(* Fairness.  Threads are scheduled, and a handler gets the publication     *)
(* lock if it is free often enough; the database and the disk may fail for  *)
(* any time, but not for ever; a stopped daemon is restarted and a torn     *)
(* journal is repaired by the operator.  Nothing forces clients or crashes. *)

Failure ==
    \/ WritePendingFails
    \/ \E l \in Lanes : ExecuteFails(l) \/ ExecuteUnknown(l) \/ WriteDoneFails(l)

Fairness ==
    /\ \A c \in Conns : SF_vars(BeginPublish(c))
    /\ WF_vars(Publisher)
    /\ \A l \in Lanes : WF_vars(Worker(l))
    /\ WF_vars(Repair) /\ WF_vars(Recover)
    /\ <>[][~Failure]_vars

FairSpec == Spec /\ Fairness

----------------------------------------------------------------------------
(* Properties                                                              *)

PubStages == {"free", "filter", "append", "undo", "push"}

WorkerStages ==
    {"take", "asleep", "execute", "confirm", "remember", "finish", "retire"}

Disk == [pend : Seq(Ids), done : Seq(Ids)]

PubState ==
    [stage : PubStages, who : Conns \cup {NoConn}, todo : Seq(Ids),
     kept : Seq(Ids), tok : Tokens \cup {NoToken}]

ConnState ==
    [st : {"idle", "ready", "publishing", "waiting"}, ids : Seq(Ids),
     tok : Tokens \cup {NoToken}]

AppendState ==
    [holder : Lanes \cup {"none", "pub"}, before : Disk, n : Nat]

TypeOK ==
    /\ disk \in Disk
    /\ jrnl \in AppendState
    /\ torn \in BOOLEAN
    /\ applied \subseteq Ids
    /\ up \in BOOLEAN
    /\ active \subseteq Ids
    /\ dedupe \in Seq(Ids)
    /\ pub \in PubState
    /\ conn \in [Conns -> ConnState]
    /\ queue \in [Lanes -> Seq(Job)]
    /\ batch \in [Lanes -> Seq(Job)]
    /\ committed \in [Lanes -> Seq(Job)]
    /\ stage \in [Lanes -> WorkerStages]
    /\ left \in [Tokens -> SUBSET Ids]
    /\ retired \subseteq Ids
    /\ crashes \in Nat

IdsOfLane == [l \in Lanes |-> {i \in Ids : LaneOf[i] = l}]

Lane(s, l) == Among(s, IdsOfLane[l])

\* Ids held in memory for lane l in the order they will be executed; while a
\* batch is being pushed, its remaining ids come last.
Held(l) ==
    JobIds(LiveJobs(l))
      \o (IF pub.stage = "push" THEN Lane(pub.todo, l) ELSE <<>>)

\* A crash loses nothing and reorders nothing: at any moment the events the
\* journal would replay are exactly the accepted ones still held in memory, in
\* the same lane order, and whatever memory holds beyond them has already been
\* recorded as complete.
CrashKeepsQueues ==
    up => \A l \in Lanes :
            /\ Among(Held(l), ToSet(Stable.pend)) = Lane(Stable.pend, l)
            /\ ToSet(Held(l)) \subseteq ToSet(Stable.pend) \cup retired

\* The permits in the table are those of the jobs alive: capacity and ids are
\* neither leaked by a failed append nor given back while a job still applied.
PermitsFollowJobs ==
    /\ Adm!ActiveExact
    /\ Adm!RowsExact
    /\ Adm!BytesExact
    /\ Adm!WithinLimits

\* When the ACK of a batch may be sent, every event of the batch, those found
\* in the cache of completed ids included, has been executed and a marker
\* saying so is durable, whatever failed, timed out or was retried on the way.
AckImpliesDurable ==
    /\ retired \subseteq applied
    /\ \A c \in Conns :
         conn[c].st = "waiting" /\ left[conn[c].tok] = {}
           => ToSet(conn[c].ids) \subseteq retired

\* As long as the window of completed ids has not overflowed, no retry,
\* time-out, duplicate from another connection, race between the cache and the
\* admission table, or replay makes a worker run an event's SQL again once its
\* completion marker was durable.
RetiredNeverRunsAgain ==
    Cardinality(Ids) <= DedupeEvents =>
        \A l \in Lanes : WillRun(l) => Head(batch[l]).id \notin retired

\* The daemon can always come back: what the journal holds at any moment fits
\* the capacity replay admits it with, so replay refuses only a torn journal.
ReplayNeverRefused ==
    /\ Len(disk.pend) <= RowLimit
    /\ Adm!BatchBytes(Requests(disk.pend)) <= ByteLimit
    /\ Adm!DistinctIds(Requests(disk.pend))

\* The sink implements the durable queue: what it owes is what the journal
\* holds, and crashes, replays, retries and races are invisible.
Queue ==
    INSTANCE DurableQueue
      WITH owed <- [l \in Lanes |-> Lane(Stable.pend, l)],
           MaxAccept <- RowLimit

ImplementsDurableQueue == Queue!Spec

\* Every event taken over is executed and discharged in the end, across
\* database outages, failed appends, crashes, and with workers that sleep.
AcceptedIsDischarged ==
    \A i \in Ids : (i \in ToSet(Stable.pend)) ~> (i \notin ToSet(Stable.pend))

\* A batch that was read is answered or its daemon dies: no handler waits
\* forever for the publication mutex or behind a stuck publisher.
PublishingEnds ==
    \A c \in Conns : (conn[c].st \in {"ready", "publishing"})
                       ~> (conn[c].st \in {"idle", "waiting"})
=============================================================================

------------------------------ MODULE Sessions ------------------------------
(***************************************************************************)
(* The network side of the Rust daemon: the accept loop with its limit on  *)
(* connections, one handler thread per connection that reads bounded frames *)
(* under a deadline, checks hello, batches and health questions, hands a   *)
(* batch to the sink and answers when every write of it is done, and the   *)
(* clients, which send what they like, stop in the middle of a frame, or   *)
(* go away.                                                                *)
(*                                                                         *)
(* The sink is present as its admission table, module Admission, and as    *)
(* the two moments of a write a handler can tell apart: the completion is  *)
(* counted down, and later the permit is dropped.  Module SqlSink shows    *)
(* what happens between them.                                              *)
(***************************************************************************)
EXTENDS Admission, Selection

CONSTANTS
    Conns,          \* the connections clients open
    ScriptsOf,      \* per connection: the sequences of frames it may send
    LaneOf,         \* lane of a write
    Weight,         \* write_size of a write
    BadIds,         \* writes that materialize or validate_and_classify refuse
    TokenSet,       \* cfg.auth_token is not empty
    MaxClients,     \* max_clients
    MaxInbound      \* max_inbound_writes

\* What a frame may be: a line of blanks, a line that is no message, a line
\* longer than max_frame_bytes, a hello (with the right token and version or
\* not), a question for the health, a batch of writes.
Kinds == {"blank", "garbage", "long", "hello", "badHello", "health", "batch"}

\* A line a client sends, and one that is not skipped.
Frames == [kind : Kinds, batch : Seq(Ids)]
Spoken == [kind : Kinds \ {"blank"}, batch : Seq(Ids)]

ASSUME SessionsAssumption ==
    /\ ScriptsOf \in [Conns -> SUBSET Seq(Frames)]
    /\ LaneOf \in [Ids -> Lanes]
    /\ Weight \in [Ids -> Sizes]
    /\ TokenSet \in BOOLEAN
    /\ MaxClients \in Nat \ {0}
    /\ MaxInbound \in Nat

VARIABLES
    slots,      \* ConnectionLimit.active
    conn,       \* per connection: the client's side and the handler's
    done,       \* writes that are complete (Dedupe remembers them)
    finished    \* permits whose job is complete and about to be dropped

admVars     == <<active, usage, permits>>
sinkVars    == <<active, usage, permits, done, finished>>
sessionVars == <<active, usage, permits, slots, conn, done, finished>>

Unconnected ==
    [st      |-> "none",    \* none, backlog, reading, waiting, closed
     script  |-> <<>>,      \* what the client means to send
     sent    |-> 0,         \* complete frames of it that have arrived
     partial |-> FALSE,     \* a piece of the next one has arrived
     eof     |-> FALSE,     \* the client closed its side
     read    |-> 0,         \* frames the handler has taken
     late    |-> FALSE,     \* the time for the frame being read has passed
     auth    |-> FALSE,     \* authenticated
     left    |-> {},        \* jobs the completion still waits for
     answers |-> <<>>]      \* lines sent to the client

Handlers == {c \in Conns : conn[c].st \in {"reading", "waiting"}}

SpecsOf(ids) ==
    [k \in DOMAIN ids |-> [id |-> ids[k], bytes |-> Weight[ids[k]],
                           lane |-> LaneOf[ids[k]]]]

----------------------------------------------------------------------------
(* Clients and time                                                        *)

Connect(c) ==
    /\ conn[c].st = "none"
    /\ \E s \in ScriptsOf[c] :
         conn' = [conn EXCEPT ![c].st = "backlog", ![c].script = s]
    /\ UNCHANGED <<sinkVars, slots>>

\* What is sent before the connection is accepted waits in the socket.
Alive(c) == c \in Handlers /\ ~conn[c].eof

More(c) == conn[c].sent < Len(conn[c].script)

\* Defect variant of Fragment: every fragment buys more time.
FragmentBuysTime(c) ==
    /\ Alive(c) /\ More(c) /\ conn[c].st = "reading"
    /\ conn' = [conn EXCEPT ![c].partial = TRUE, ![c].late = FALSE]
    /\ UNCHANGED <<sinkVars, slots>>

\* A piece of a frame arrives.  The deadline belongs to the frame.
Fragment(c) ==
    /\ Alive(c) /\ More(c) /\ conn[c].st = "reading"
    /\ conn' = [conn EXCEPT ![c].partial = TRUE]
    /\ UNCHANGED <<sinkVars, slots>>

SendFrame(c) ==
    /\ Alive(c) /\ More(c)
    /\ conn' = [conn EXCEPT ![c].sent = @ + 1, ![c].partial = FALSE]
    /\ UNCHANGED <<sinkVars, slots>>

Hangup(c) ==
    /\ Alive(c)
    /\ conn' = [conn EXCEPT ![c].eof = TRUE]
    /\ UNCHANGED <<sinkVars, slots>>

----------------------------------------------------------------------------
(* The accept loop                                                         *)

\* The address is unknown or not the loopback one, or the limit is reached:
\* the stream is dropped.
TurnAway(c) ==
    /\ conn[c].st = "backlog"
    /\ conn' = [conn EXCEPT ![c].st = "closed"]
    /\ UNCHANGED <<sinkVars, slots>>

\* try_acquire, and the handler thread starts.
AcceptClient(c) ==
    /\ conn[c].st = "backlog"
    /\ slots < MaxClients
    /\ slots' = slots + 1
    /\ conn' = [conn EXCEPT ![c].st = "reading", ![c].auth = ~TokenSet]
    /\ UNCHANGED sinkVars

----------------------------------------------------------------------------
(* A handler                                                               *)

\* The line after those already taken, once all of it has arrived.
Arrived(c) == conn[c].st = "reading" /\ conn[c].read < conn[c].sent

Frame(c) == conn[c].script[conn[c].read + 1]

\* DeadlineStream: frame_timeout has passed since begin_frame.  A frame that is
\* there at begin_frame is taken long before.
TimePasses(c) ==
    /\ conn[c].st = "reading"
    /\ ~Arrived(c)
    /\ ~conn[c].late
    /\ conn' = [conn EXCEPT ![c].late = TRUE]
    /\ UNCHANGED <<sinkVars, slots>>

\* What is kept of a connection that has ended: the frames that were taken and
\* the lines that were sent.
Ended(c, n, answers) ==
    [Unconnected EXCEPT !.st = "closed", !.script = conn[c].script,
                        !.sent = n, !.read = n, !.answers = answers]

\* Defect variant of Closed: the permit is not dropped.
ClosedWithPermit(c, n, answers) ==
    /\ conn' = [conn EXCEPT ![c] = Ended(c, n, answers)]
    /\ UNCHANGED slots

\* handle_client returns or unwinds, and drops the permit of the connection.
Closed(c, n, answers) ==
    /\ conn' = [conn EXCEPT ![c] = Ended(c, n, answers)]
    /\ slots' = slots - 1

\* The next turn of the loop of handle_client: begin_frame.
NextFrame(c, n, auth, answers) ==
    /\ conn' = [conn EXCEPT ![c].st = "reading", ![c].late = FALSE,
                            ![c].read = n, ![c].auth = auth,
                            ![c].answers = answers]
    /\ UNCHANGED slots

\* send_line, which may fail and end the handler.
Answer(c, n, auth, line) ==
    \/ NextFrame(c, n, auth, Append(conn[c].answers, line))
    \/ Closed(c, n, conn[c].answers)

\* error(), written or not, is the last line of a connection.
Refuse(c, n) ==
    \/ Closed(c, n, Append(conn[c].answers, "error"))
    \/ Closed(c, n, conn[c].answers)

SkipBlank(c) ==
    /\ Arrived(c) /\ Frame(c).kind = "blank"
    /\ NextFrame(c, conn[c].read + 1, conn[c].auth, conn[c].answers)
    /\ UNCHANGED sinkVars

\* A frame too long, no message, a wrong token or version.
RefuseFrame(c) ==
    /\ Arrived(c) /\ Frame(c).kind \in {"long", "garbage", "badHello"}
    /\ Refuse(c, conn[c].read + 1)
    /\ UNCHANGED sinkVars

Hello(c) ==
    /\ Arrived(c) /\ Frame(c).kind = "hello"
    /\ Answer(c, conn[c].read + 1, TRUE, "hello_ack")
    /\ UNCHANGED sinkVars

Health(c) ==
    /\ Arrived(c) /\ Frame(c).kind = "health"
    /\ IF conn[c].auth THEN Answer(c, conn[c].read + 1, TRUE, "health")
       ELSE Refuse(c, conn[c].read + 1)
    /\ UNCHANGED sinkVars

\* Defect variant of Valid: the batch is looked at before the hello.
ValidForAnyone(c) ==
    /\ Len(Frame(c).batch) <= MaxInbound
    /\ ToSet(Frame(c).batch) \cap BadIds = {}

\* The conditions on a batch before it reaches the sink's mutex.
Valid(c) ==
    /\ conn[c].auth
    /\ Len(Frame(c).batch) <= MaxInbound
    /\ ToSet(Frame(c).batch) \cap BadIds = {}

\* The writes of the batch that are not known to be complete.
Kept(c) == SpecsOf(Among(Frame(c).batch, Ids \ done))

\* sink.enqueue succeeds; the handler waits for the completion.
PublishBatch(c) ==
    /\ Arrived(c) /\ Frame(c).kind = "batch"
    /\ Valid(c)
    /\ Reserve(Kept(c))
    /\ conn' = [conn EXCEPT ![c].st = "waiting", ![c].read = @ + 1,
                            ![c].left = IdsOf(ToSet(Kept(c)))]
    /\ UNCHANGED <<slots, done, finished>>

\* The batch is refused: no hello, too many writes, a bad write, no room, a
\* pending id; or the journal refuses it and every permit is given back.
RefuseBatch(c) ==
    /\ Arrived(c) /\ Frame(c).kind = "batch"
    /\ Refuse(c, conn[c].read + 1)
    /\ UNCHANGED sinkVars

\* Defect variant of Acknowledge: the batch is answered when it is queued.
AcknowledgeEarly(c) ==
    /\ conn[c].st = "waiting"
    /\ Answer(c, conn[c].read, TRUE, "ack")
    /\ UNCHANGED sinkVars

Acknowledge(c) ==
    /\ conn[c].st = "waiting"
    /\ conn[c].left = {}
    /\ Answer(c, conn[c].read, TRUE, "ack")
    /\ UNCHANGED sinkVars

\* Completion::wait returns None after ack_timeout.
AckTimeout(c) ==
    /\ conn[c].st = "waiting"
    /\ conn[c].left # {}
    /\ Refuse(c, conn[c].read)
    /\ UNCHANGED sinkVars

\* read() of DeadlineStream after the deadline.
FrameTimeout(c) ==
    /\ conn[c].st = "reading"
    /\ conn[c].late
    /\ Closed(c, conn[c].read, conn[c].answers)
    /\ UNCHANGED sinkVars

\* The end of the stream, between frames or inside one.
EndOfStream(c) ==
    /\ conn[c].st = "reading"
    /\ conn[c].eof
    /\ conn[c].read = conn[c].sent
    /\ Closed(c, conn[c].read, conn[c].answers)
    /\ UNCHANGED sinkVars

----------------------------------------------------------------------------
(* The sink                                                                *)

\* confirm_committed: the id is remembered and its completion counted down.
FinishWrite(p) ==
    /\ p \in permits \ finished
    /\ done' = done \cup {p.id}
    /\ finished' = finished \cup {p}
    /\ conn' = [c \in Conns |-> [conn[c] EXCEPT !.left = @ \ {p.id}]]
    /\ UNCHANGED <<admVars, slots>>

DropPermit(p) ==
    /\ p \in finished
    /\ Retire(p)
    /\ finished' = finished \ {p}
    /\ UNCHANGED <<slots, conn, done>>

----------------------------------------------------------------------------
SessionInit ==
    /\ Init
    /\ slots = 0
    /\ conn = [c \in Conns |-> Unconnected]
    /\ done = {}
    /\ finished = {}

ClientStep(c) == Connect(c) \/ Fragment(c) \/ SendFrame(c) \/ Hangup(c)

AcceptLoop == \E c \in Conns : TurnAway(c) \/ AcceptClient(c)

Handler(c) ==
    \/ SkipBlank(c) \/ RefuseFrame(c) \/ Hello(c) \/ Health(c)
    \/ PublishBatch(c) \/ RefuseBatch(c)
    \/ Acknowledge(c) \/ AckTimeout(c)
    \/ FrameTimeout(c) \/ EndOfStream(c)

SinkStep == \E p \in permits : FinishWrite(p) \/ DropPermit(p)

SessionNext ==
    \/ \E c \in Conns : ClientStep(c) \/ TimePasses(c) \/ Handler(c)
    \/ AcceptLoop
    \/ SinkStep

\* Threads that can run do run, and time passes.  Every connection takes only
\* so many steps of its own, so fairness need not tell them apart.  Nothing is
\* assumed of the clients or of the database behind the sink.
SessionFairness ==
    /\ WF_sessionVars(AcceptLoop)
    /\ WF_sessionVars(\E c \in Conns : TimePasses(c))
    /\ WF_sessionVars(\E c \in Conns : Handler(c))

SessionSpec == SessionInit /\ [][SessionNext]_sessionVars /\ SessionFairness

----------------------------------------------------------------------------
(* Properties                                                              *)

\* The connection count is the number of handlers that run, whatever way each
\* of them ended: the daemon never serves more than max_clients, and a slot is
\* not lost to a handler that returned early.
SlotsAreHandlers == slots = Cardinality(Handlers) /\ slots <= MaxClients

Asked(c) == Among(SubSeq(conn[c].script, 1, conn[c].read), Spoken)

Fits(line, frame) ==
    \/ line = "error"
    \/ line = "hello_ack" /\ frame.kind = "hello"
    \/ line = "health" /\ frame.kind = "health"
    \/ line = "ack" /\ frame.kind = "batch"

\* Every frame gets its own answer, in the order of the frames, whatever the
\* client has sent ahead: an error is the last line, and an ACK says that all
\* writes of exactly its batch are complete.
AnswersFollowFrames ==
    \A c \in Conns :
      LET a == conn[c].answers
      IN  /\ conn[c].st = "reading" => Len(a) = Len(Asked(c))
          /\ conn[c].st = "waiting" => Len(a) + 1 = Len(Asked(c))
          /\ Len(a) <= Len(Asked(c))
          /\ \A k \in DOMAIN a :
               /\ Fits(a[k], Asked(c)[k])
               /\ a[k] = "error" => k = Len(a) /\ conn[c].st = "closed"
               /\ a[k] = "ack" => ToSet(Asked(c)[k].batch) \subseteq done

\* Nothing enters the queues but whole valid batches of connections that said
\* hello first: a batch that is refused for one write leaves none of them.
OnlyValidBatches ==
    \A i \in IdsOf(permits) \cup done :
      \E c \in Conns : \E k \in 1 .. conn[c].read :
        LET f == conn[c].script[k]
        IN  /\ f.kind = "batch"
            /\ i \in ToSet(f.batch)
            /\ ToSet(f.batch) \cap BadIds = {}
            /\ TokenSet => \E j \in 1 .. k - 1 : conn[c].script[j].kind = "hello"

\* A daemon whose slots are all taken serves new clients again: a client that
\* stops in the middle of a frame, or keeps sending pieces of one, is cut off by
\* the deadline of that frame, one that waits for the database by the time-out
\* of the ACK.
FullIsNotForEver == slots = MaxClients ~> slots < MaxClients
=============================================================================

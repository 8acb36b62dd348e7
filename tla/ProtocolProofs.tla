-------------------------- MODULE ProtocolProofs ---------------------------
(* Theorems about Sessions, for every number of connections, whatever they    *)
(* send, and every limit: the count of connections is the number of handlers  *)
(* that run; every frame gets its own answer in order, and an ACK means that  *)
(* its batch is complete; nothing but valid batches of greeted connections is *)
(* queued; the admission table is exact.                                      *)
(*                                                                            *)
(* And about SqlText, which says what makes a write of a batch valid, for     *)
(* texts of any length: the validator accepts exactly the texts that a reader *)
(* of one symbol at a time finds to be one whole statement, and markers stay  *)
(* in the lane of the rows they announce.                                     *)
EXTENDS Sessions, SqlText, AdmissionProofs

\* The record of a connection has its fields, whatever is in them.
Shaped(r) ==
    r = [st |-> r.st, script |-> r.script, sent |-> r.sent, partial |-> r.partial,
         eof |-> r.eof, read |-> r.read, late |-> r.late, auth |-> r.auth,
         left |-> r.left, answers |-> r.answers]

Connections == DOMAIN conn = Conns /\ \A c \in Conns : Shaped(conn[c])

Counted ==
    /\ IsFiniteSet(Handlers)
    /\ slots = Cardinality(Handlers)
    /\ slots <= MaxClients

SlotsInv == Connections /\ Counted

-----------------------------------------------------------------------------
(* How a step may change who is a handler.                                   *)

Serving == {"reading", "waiting"}

\* c goes from one state to another, and nobody else does.
Moves(c, to) ==
    /\ conn'[c].st = to
    /\ \A d \in Conns \ {c} : conn'[d] = conn[d]

LEMMA Staying ==
    ASSUME SlotsInv, Connections', UNCHANGED slots,
           \A c \in Conns : conn'[c].st \in Serving <=> conn[c].st \in Serving
    PROVE  SlotsInv'
<1>1. Handlers' = Handlers
  BY DEF Handlers, Serving
<1> QED BY <1>1 DEF SlotsInv, Counted

LEMMA Entering ==
    ASSUME SlotsInv, Connections', NEW c \in Conns, conn[c].st \notin Serving,
           Moves(c, "reading"), slots < MaxClients, slots' = slots + 1
    PROVE  SlotsInv'
<1>1. Handlers' = Handlers \cup {c} /\ c \notin Handlers
  BY DEF Handlers, Moves, Serving
<1>2. IsFiniteSet(Handlers') /\ Cardinality(Handlers') = Cardinality(Handlers) + 1
  BY <1>1, FS_AddElement DEF SlotsInv, Counted
<1>3. Cardinality(Handlers) \in Nat /\ MaxClients \in Nat
  BY FS_CardinalityType, SessionsAssumption DEF SlotsInv, Counted, SessionsAssumption
<1> QED BY <1>2, <1>3 DEF SlotsInv, Counted

LEMMA Leaving ==
    ASSUME SlotsInv, Connections', NEW c \in Conns, conn[c].st \in Serving,
           Moves(c, "closed"), slots' = slots - 1
    PROVE  SlotsInv'
<1>1. Handlers' = Handlers \ {c} /\ c \in Handlers
  BY DEF Handlers, Moves, Serving
<1>2. IsFiniteSet(Handlers') /\ Cardinality(Handlers') = Cardinality(Handlers) - 1
  BY <1>1, FS_RemoveElement DEF SlotsInv, Counted
<1>3. Cardinality(Handlers) \in Nat /\ MaxClients \in Nat
  BY FS_CardinalityType, SessionsAssumption DEF SlotsInv, Counted, SessionsAssumption
<1> QED BY <1>2, <1>3 DEF SlotsInv, Counted

-----------------------------------------------------------------------------
(* The two ends of a turn of handle_client.                                  *)

LEMMA NextTurn ==
    ASSUME SlotsInv, NEW c \in Conns, conn[c].st \in Serving, NEW n, NEW auth, NEW answers,
           NextFrame(c, n, auth, answers)
    PROVE  SlotsInv'
<1>1. Moves(c, "reading") /\ UNCHANGED slots
  BY DEF NextFrame, SlotsInv, Connections, Shaped, Moves
<1>2. Connections'
  <2>1. conn' = [conn EXCEPT ![c] = [@ EXCEPT !.st = "reading", !.late = FALSE, !.read = n,
                                           !.auth = auth, !.answers = answers]]
    BY DEF NextFrame
  <2>2. DOMAIN conn' = Conns /\ \A d \in Conns \ {c} : conn'[d] = conn[d]
    BY <2>1 DEF SlotsInv, Connections
  <2>3. Shaped(conn'[c])
    BY <2>1 DEF SlotsInv, Connections, Shaped
  <2> QED
    BY <2>2, <2>3 DEF SlotsInv, Connections, Shaped
<1>3. \A d \in Conns : conn'[d].st \in Serving <=> conn[d].st \in Serving
  BY <1>1 DEF Moves, Serving
<1> QED BY <1>1, <1>2, <1>3, Staying

LEMMA Closing ==
    ASSUME SlotsInv, NEW c \in Conns, conn[c].st \in Serving, NEW n, NEW answers,
           Closed(c, n, answers)
    PROVE  SlotsInv'
<1>1. Moves(c, "closed") /\ slots' = slots - 1
  BY DEF Closed, Ended, Unconnected, SlotsInv, Connections, Moves
<1>2. Connections'
  BY DEF Closed, Ended, Unconnected, SlotsInv, Connections, Shaped
<1> QED BY <1>1, <1>2, Leaving

LEMMA Handling ==
    ASSUME SlotsInv, NEW c \in Conns, Handler(c)
    PROVE  SlotsInv'
<1>1. conn[c].st \in Serving
  BY DEF Handler, SkipBlank, RefuseFrame, Hello, Health, PublishBatch, RefuseBatch,
         Acknowledge, AckTimeout, FrameTimeout, EndOfStream, Arrived, Serving
<1>2. ASSUME NEW n, NEW auth, NEW line, Answer(c, n, auth, line) PROVE SlotsInv'
  BY <1>1, <1>2, NextTurn, Closing DEF Answer
<1>3. ASSUME NEW n, Refuse(c, n) PROVE SlotsInv'
  BY <1>1, <1>3, Closing DEF Refuse
<1>4. CASE SkipBlank(c)
  BY <1>1, <1>4, NextTurn DEF SkipBlank
<1>5. CASE PublishBatch(c)
  <2>1. /\ conn' = [conn EXCEPT ![c].st = "waiting", ![c].read = @ + 1,
                                ![c].left = IdsOf(ToSet(Kept(c)))]
        /\ UNCHANGED slots
    BY <1>5 DEF PublishBatch
  <2> DEFINE kept == IdsOf(ToSet(Kept(c)))
  <2> HIDE DEF kept
  <2>2. conn' = [conn EXCEPT ![c].st = "waiting", ![c].read = @ + 1, ![c].left = kept]
    BY <2>1 DEF kept
  <2>3. Moves(c, "waiting") /\ Connections'
    <3>1. conn'[c] = [conn[c] EXCEPT !.st = "waiting", !.read = @ + 1, !.left = kept]
      BY <2>2 DEF SlotsInv, Connections
    <3>2. Shaped(conn'[c]) /\ conn'[c].st = "waiting"
      BY <3>1 DEF SlotsInv, Connections, Shaped
    <3>3. DOMAIN conn' = Conns /\ \A d \in Conns \ {c} : conn'[d] = conn[d]
      BY <2>2 DEF SlotsInv, Connections
    <3> QED BY <3>2, <3>3 DEF SlotsInv, Connections, Moves
  <2>4. \A d \in Conns : conn'[d].st \in Serving <=> conn[d].st \in Serving
    BY <1>1, <2>3 DEF Moves, Serving
  <2> QED BY <2>1, <2>3, <2>4, Staying
<1>6. CASE FrameTimeout(c) \/ EndOfStream(c)
  BY <1>1, <1>6, Closing DEF FrameTimeout, EndOfStream
<1>7. CASE RefuseFrame(c) \/ RefuseBatch(c) \/ AckTimeout(c)
  BY <1>3, <1>7 DEF RefuseFrame, RefuseBatch, AckTimeout
<1>8. CASE Hello(c) \/ Health(c) \/ Acknowledge(c)
  BY <1>2, <1>3, <1>8 DEF Hello, Health, Acknowledge
<1> QED BY <1>4, <1>5, <1>6, <1>7, <1>8 DEF Handler

-----------------------------------------------------------------------------
LEMMA Initially == SessionInit => SlotsInv
<1> SUFFICES ASSUME SessionInit PROVE SlotsInv
  OBVIOUS
<1>1. Connections
  BY DEF SessionInit, Connections, Shaped, Unconnected
<1>2. Handlers = {}
  BY DEF SessionInit, Handlers, Unconnected
<1> QED BY <1>1, <1>2, FS_EmptySet, SessionsAssumption
        DEF SlotsInv, Counted, SessionInit, SessionsAssumption

LEMMA Steps == SlotsInv /\ [SessionNext]_sessionVars => SlotsInv'
<1> SUFFICES ASSUME SlotsInv, [SessionNext]_sessionVars PROVE SlotsInv'
  OBVIOUS
<1>1. CASE UNCHANGED sessionVars
  BY <1>1 DEF sessionVars, SlotsInv, Connections, Counted, Handlers
<1>2. ASSUME NEW c \in Conns, ClientStep(c) \/ TimePasses(c) \/ TurnAway(c)
      PROVE  SlotsInv'
  <2>1. UNCHANGED slots
    BY <1>2 DEF ClientStep, Connect, Fragment, SendFrame, Hangup, TimePasses, TurnAway
  <2>2. Connections'
    BY <1>2 DEF ClientStep, Connect, Fragment, SendFrame, Hangup, TimePasses, TurnAway,
                SlotsInv, Connections, Shaped
  <2>3. \A d \in Conns : conn'[d].st \in Serving <=> conn[d].st \in Serving
    BY <1>2 DEF ClientStep, Connect, Fragment, SendFrame, Hangup, TimePasses, TurnAway,
                SlotsInv, Connections, Shaped, Serving
  <2> QED BY <2>1, <2>2, <2>3, Staying
<1>3. ASSUME NEW c \in Conns, AcceptClient(c) PROVE SlotsInv'
  <2>1. Moves(c, "reading") /\ Connections'
    <3>1. conn'[c] = [conn[c] EXCEPT !.st = "reading", !.auth = ~TokenSet]
      BY <1>3 DEF AcceptClient, SlotsInv, Connections
    <3>2. Shaped(conn'[c]) /\ conn'[c].st = "reading"
      BY <3>1 DEF SlotsInv, Connections, Shaped
    <3>3. DOMAIN conn' = Conns /\ \A d \in Conns \ {c} : conn'[d] = conn[d]
      BY <1>3 DEF AcceptClient, SlotsInv, Connections
    <3> QED BY <3>2, <3>3 DEF SlotsInv, Connections, Moves
  <2> QED BY <1>3, <2>1, Entering DEF AcceptClient, Serving
<1>4. ASSUME NEW c \in Conns, Handler(c) PROVE SlotsInv'
  BY <1>4, Handling
<1>5. ASSUME NEW p \in permits, FinishWrite(p) \/ DropPermit(p) PROVE SlotsInv'
  <2>1. UNCHANGED slots
    BY <1>5 DEF FinishWrite, DropPermit
  <2>2. Connections' /\ \A c \in Conns : conn'[c].st = conn[c].st
    BY <1>5 DEF FinishWrite, DropPermit, SlotsInv, Connections, Shaped
  <2> QED BY <2>1, <2>2, Staying
<1> QED BY <1>1, <1>2, <1>3, <1>4, <1>5 DEF SessionNext, AcceptLoop, SinkStep

\* The count of connections is exact and never above max_clients, for every
\* number of connections and every order in which their handlers end.
THEOREM SlotsAreCounted == SessionSpec => []SlotsAreHandlers
<1>1. SlotsInv => SlotsAreHandlers
  BY DEF SlotsInv, Counted, SlotsAreHandlers
<1> QED BY <1>1, Initially, Steps, PTL DEF SessionSpec
-----------------------------------------------------------------------------
(* The admission table behind the handlers.                                  *)

\* What a batch asks of the table.
LEMMA RequestOf ==
    ASSUME NEW ids \in Seq(Ids)
    PROVE  /\ Len(ids) \in Nat /\ SpecsOf(ids) \in [1 .. Len(ids) -> Permit]
           /\ IdsOf(ToSet(SpecsOf(ids))) = ToSet(ids)
<1>1. Len(ids) \in Nat /\ DOMAIN ids = 1 .. Len(ids) /\ \A k \in 1 .. Len(ids) : ids[k] \in Ids
  BY LenProperties, ElementOfSeq
<1>2. \A k \in 1 .. Len(ids) :
        [id |-> ids[k], bytes |-> Weight[ids[k]], lane |-> LaneOf[ids[k]]] \in Permit
  BY <1>1, SessionsAssumption DEF SessionsAssumption, Permit
<1>3. SpecsOf(ids) \in [1 .. Len(ids) -> Permit]
  BY <1>1, <1>2 DEF SpecsOf
<1>4. IdsOf(ToSet(SpecsOf(ids))) = ToSet(ids)
  <2>1. PICK s : s = SpecsOf(ids)
    OBVIOUS
  <2>2. DOMAIN s = DOMAIN ids /\ \A k \in DOMAIN ids : s[k].id = ids[k]
    BY <2>1 DEF SpecsOf
  <2>3. ToSet(s) = {s[k] : k \in DOMAIN ids} /\ ToSet(ids) = {ids[k] : k \in DOMAIN ids}
    BY <2>2 DEF ToSet
  <2>4. {p.id : p \in ToSet(s)} = {ids[k] : k \in DOMAIN ids}
    BY <2>2, <2>3
  <2> QED BY <2>1, <2>3, <2>4 DEF IdsOf
<1> QED BY <1>1, <1>3, <1>4

\* A frame the handler takes is one of the script.
Paced(r) ==
    /\ r.script \in Seq(Frames)
    /\ r.sent \in 0 .. Len(r.script)
    /\ r.read \in 0 .. r.sent
    /\ r.st \in {"none", "backlog"} => r.read = 0 /\ r.sent = 0 /\ r.answers = <<>>

Pacing == \A c \in Conns : Paced(conn[c])

LEMMA Taken ==
    ASSUME NEW c \in Conns, Paced(conn[c]), Arrived(c)
    PROVE  /\ conn[c].read + 1 \in 1 .. conn[c].sent
           /\ conn[c].read + 1 \in 1 .. Len(conn[c].script)
           /\ Frame(c) \in Frames
<1>1. PICK s, n, m : s = conn[c].script /\ n = conn[c].read /\ m = conn[c].sent
  OBVIOUS
<1>2. s \in Seq(Frames) /\ m \in 0 .. Len(s) /\ n \in 0 .. m /\ n < m /\ Len(s) \in Nat
  BY <1>1, LenProperties DEF Paced, Arrived
<1>3. n + 1 \in 1 .. m /\ n + 1 \in 1 .. Len(s)
  BY <1>2
<1>4. s[n + 1] \in Frames
  BY <1>2, <1>3, ElementOfSeq
<1> QED BY <1>1, <1>3, <1>4 DEF Frame

\* What is left of a batch.
LEMMA KeptOfBatch ==
    ASSUME NEW c \in Conns, Paced(conn[c]), Arrived(c)
    PROVE  /\ \E n \in Nat : Kept(c) \in [1 .. n -> Permit]
           /\ IdsOf(ToSet(Kept(c))) = ToSet(Frame(c).batch) \cap (Ids \ done)
<1>1. PICK b, S : b = Frame(c).batch /\ S = Ids \ done
  OBVIOUS
<1>2. b \in Seq(Ids)
  BY <1>1, Taken DEF Frames
<1>3. PICK a : a = Among(b, S)
  OBVIOUS
<1>4. a \in Seq(Ids) /\ ToSet(a) = ToSet(b) \cap S
  BY <1>2, <1>3, AmongElements
<1>5. Kept(c) = SpecsOf(a)
  BY <1>1, <1>3 DEF Kept
<1> QED BY <1>1, <1>4, <1>5, RequestOf

LEMMA TableKept ==
    IInv /\ Pacing /\ [SessionNext]_sessionVars => IInv'
<1> SUFFICES ASSUME IInv, Pacing, [SessionNext]_sessionVars PROVE IInv'
  OBVIOUS
<1>1. UNCHANGED admVars => IInv'
  BY NothingChanges DEF admVars, vars
<1>2. CASE UNCHANGED sessionVars
  BY <1>1, <1>2 DEF sessionVars, admVars
<1>3. ASSUME NEW c \in Conns, ClientStep(c) \/ TimePasses(c) \/ TurnAway(c) \/ AcceptClient(c)
      PROVE  IInv'
  BY <1>1, <1>3 DEF ClientStep, Connect, Fragment, SendFrame, Hangup, TimePasses, TurnAway,
                    AcceptClient, sinkVars, admVars
<1>4. ASSUME NEW c \in Conns, Handler(c) PROVE IInv'
  <2>1. CASE PublishBatch(c)
    <3>1. Arrived(c) /\ Reserve(Kept(c)) /\ Paced(conn[c])
      BY <2>1 DEF PublishBatch, Pacing
    <3>2. PICK n \in Nat : Kept(c) \in [1 .. n -> Permit]
      BY <3>1, KeptOfBatch
    <3> QED BY <3>1, <3>2, ReserveKeeps
  <2>2. CASE ~PublishBatch(c)
    <3>1. UNCHANGED admVars
      BY <1>4, <2>2 DEF Handler, SkipBlank, RefuseFrame, Hello, Health, RefuseBatch,
         Acknowledge, AckTimeout, FrameTimeout, EndOfStream, sinkVars, admVars
    <3> QED BY <1>1, <3>1
  <2> QED BY <2>1, <2>2
<1>5. ASSUME NEW p \in permits, FinishWrite(p) \/ DropPermit(p) PROVE IInv'
  BY <1>1, <1>5, RetireKeeps DEF FinishWrite, DropPermit
<1> QED BY <1>2, <1>3, <1>4, <1>5 DEF SessionNext, AcceptLoop, SinkStep

-----------------------------------------------------------------------------
(* What the steps make of one connection: r before, q after.                 *)

\* Connection c goes on as q, the others as they were.
Becomes(c, q) ==
    /\ conn'[c] = q
    /\ \A d \in Conns \ {c} : conn'[d] = conn[d]

\* Nothing is said: data arrives, time passes, a write completes.
Listens(r, q) ==
    /\ q.script = r.script /\ q.read = r.read /\ q.answers = r.answers
    /\ q.st = r.st /\ q.auth = r.auth
    /\ q.sent \in r.sent .. Len(r.script)
    /\ q.sent # r.sent => r.st \in Serving

Opens(r, q) ==
    /\ r.st = "none" /\ q.st = "backlog" /\ q.script \in Seq(Frames)
    /\ q.sent = 0 /\ q.read = 0 /\ q.answers = <<>>

Starts(r, q) ==
    /\ r.st = "backlog" /\ q.st \in {"reading", "closed"}
    /\ q.script = r.script /\ q.sent = r.sent /\ q.read = r.read /\ q.answers = r.answers
    /\ q.auth => q.st = "closed" \/ ~TokenSet

\* A turn of handle_client takes at most one frame.
Turns(r, q) ==
    /\ r.st \in Serving /\ q.st \in {"reading", "waiting", "closed"}
    /\ q.script = r.script
    /\ q.read \in {r.read, r.read + 1} /\ q.sent \in q.read .. r.sent

\* It ends with another frame to be read, or with the connection.
LEMMA NextTurns ==
    ASSUME Connections, NEW c \in Conns, conn[c].st \in Serving, Paced(conn[c]),
           NEW n, n \in {conn[c].read, conn[c].read + 1}, n <= conn[c].sent,
           NEW auth, NEW answers, NextFrame(c, n, auth, answers)
    PROVE  \E q : /\ Becomes(c, q) /\ Turns(conn[c], q) /\ q.st = "reading"
                  /\ q.read = n /\ q.auth = auth /\ q.answers = answers
<1> DEFINE r == conn[c]
           q == [r EXCEPT !.st = "reading", !.late = FALSE, !.read = n,
                          !.auth = auth, !.answers = answers]
<1>1. Becomes(c, q)
  BY DEF NextFrame, Becomes, Connections
<1>2. Shaped(r)
  BY DEF Connections
<1> HIDE DEF r
<1>3. /\ q.script = r.script /\ q.sent = r.sent /\ q.read = n
      /\ q.answers = answers /\ q.st = "reading" /\ q.auth = auth
  BY <1>2 DEF Shaped
<1>4. r.sent \in n .. r.sent
  BY DEF Paced, r
<1> QED BY <1>1, <1>3, <1>4 DEF Turns, r

LEMMA ClosedTurns ==
    ASSUME Connections, NEW c \in Conns, conn[c].st \in Serving, Paced(conn[c]),
           NEW n, n \in {conn[c].read, conn[c].read + 1}, n <= conn[c].sent,
           NEW answers, Closed(c, n, answers)
    PROVE  \E q : /\ Becomes(c, q) /\ Turns(conn[c], q) /\ q.st = "closed"
                  /\ q.read = n /\ q.answers = answers
<1> DEFINE q == Ended(c, n, answers)
<1>1. Becomes(c, q)
  BY DEF Closed, Becomes, Connections
<1>2. /\ q.script = conn[c].script /\ q.sent = n /\ q.read = n /\ q.answers = answers
      /\ q.st = "closed"
  BY DEF Ended, Unconnected
<1>3. n \in n .. conn[c].sent
  BY DEF Paced
<1> HIDE DEF q
<1> QED BY <1>1, <1>2, <1>3 DEF Turns

\* PublishBatch makes the handler wait.
LEMMA PublishTurns ==
    ASSUME Connections, NEW c \in Conns, Paced(conn[c]), PublishBatch(c)
    PROVE  \E q : /\ Becomes(c, q) /\ Turns(conn[c], q) /\ q.st = "waiting"
                  /\ q.read = conn[c].read + 1 /\ q.auth = conn[c].auth
                  /\ q.answers = conn[c].answers /\ q.left = IdsOf(ToSet(Kept(c)))
<1> DEFINE r == conn[c]
           kept == IdsOf(ToSet(Kept(c)))
           q == [r EXCEPT !.st = "waiting", !.read = @ + 1, !.left = kept]
<1>1. Becomes(c, q) /\ Arrived(c)
  BY DEF PublishBatch, Becomes, Connections
<1>2. Shaped(r)
  BY DEF Connections
<1>3. r.read + 1 \in 1 .. r.sent /\ r.sent \in Nat /\ r.read \in Nat
  BY <1>1, Taken DEF Paced
<1>4. r.st \in Serving
  BY <1>1 DEF Arrived, Serving
<1> HIDE DEF r, kept
<1>5. /\ q.script = r.script /\ q.sent = r.sent /\ q.read = r.read + 1
      /\ q.answers = r.answers /\ q.st = "waiting" /\ q.auth = r.auth /\ q.left = kept
  BY <1>2 DEF Shaped
<1>6. r.sent \in r.read + 1 .. r.sent
  BY <1>3
<1> QED BY <1>1, <1>4, <1>5, <1>6 DEF Turns, r, kept

\* The steps of clients, of time, and of the accept loop.
LEMMA OutsideSteps ==
    ASSUME Connections, Pacing, NEW c \in Conns,
           ClientStep(c) \/ TimePasses(c) \/ TurnAway(c) \/ AcceptClient(c)
    PROVE  \E q : /\ Becomes(c, q)
                  /\ \/ Listens(conn[c], q) /\ q.left = conn[c].left
                     \/ Opens(conn[c], q)
                     \/ Starts(conn[c], q)
<1> DEFINE r == conn[c]
<1>0. Shaped(r) /\ Paced(r)
  BY DEF Connections, Pacing
<1>1. PICK q : q = conn'[c]
  OBVIOUS
<1>2. Becomes(c, q)
  BY <1>1 DEF ClientStep, Connect, Fragment, SendFrame, Hangup, TimePasses, TurnAway,
              AcceptClient, Becomes, Connections
<1>3. r.sent \in r.sent .. Len(r.script)
  BY <1>0, LenProperties DEF Paced
<1>4. CASE Connect(c)
  <2>1. PICK s \in ScriptsOf[c] : conn' = [conn EXCEPT ![c].st = "backlog", ![c].script = s]
    BY <1>4 DEF Connect
  <2>2. s \in Seq(Frames)
    BY SessionsAssumption DEF SessionsAssumption
  <2>3. q = [r EXCEPT !.st = "backlog", !.script = s]
    BY <1>1, <2>1 DEF Connections
  <2>4. r.st = "none" /\ r.read = 0 /\ r.sent = 0 /\ r.answers = <<>>
    BY <1>0, <1>4 DEF Connect, Paced
  <2> HIDE DEF r
  <2>5. Opens(r, q)
    BY <1>0, <2>2, <2>3, <2>4 DEF Opens, Shaped
  <2> QED BY <1>2, <2>5 DEF r
<1>5. CASE Fragment(c) \/ Hangup(c) \/ TimePasses(c)
  <2>1. \/ q = [r EXCEPT !.partial = TRUE] \/ q = [r EXCEPT !.eof = TRUE]
        \/ q = [r EXCEPT !.late = TRUE]
    BY <1>1, <1>5 DEF Fragment, Hangup, TimePasses, Connections
  <2> HIDE DEF r
  <2>2. Listens(r, q) /\ q.left = r.left
    BY <1>0, <1>3, <2>1 DEF Listens, Shaped
  <2> QED BY <1>2, <2>2 DEF r
<1>6. CASE SendFrame(c)
  <2>1. q = [r EXCEPT !.sent = @ + 1, !.partial = FALSE] /\ r.sent < Len(r.script)
    BY <1>1, <1>6 DEF SendFrame, More, Connections
  <2>2. r.sent + 1 \in r.sent .. Len(r.script)
    BY <1>0, <2>1, LenProperties DEF Paced
  <2>3. r.st \in Serving
    BY <1>6 DEF SendFrame, Alive, Handlers, Serving
  <2> HIDE DEF r
  <2>4. Listens(r, q) /\ q.left = r.left
    BY <1>0, <2>1, <2>2, <2>3 DEF Listens, Shaped
  <2> QED BY <1>2, <2>4 DEF r
<1>7. CASE TurnAway(c)
  <2>1. q = [r EXCEPT !.st = "closed"] /\ r.st = "backlog"
    BY <1>1, <1>7 DEF TurnAway, Connections
  <2> HIDE DEF r
  <2>2. Starts(r, q)
    BY <1>0, <2>1 DEF Starts, Shaped
  <2> QED BY <1>2, <2>2 DEF r
<1>8. CASE AcceptClient(c)
  <2>1. q = [r EXCEPT !.st = "reading", !.auth = ~TokenSet] /\ r.st = "backlog"
    BY <1>1, <1>8 DEF AcceptClient, Connections
  <2> HIDE DEF r
  <2>2. q.auth = ~TokenSet
    BY <1>0, <2>1 DEF Shaped
  <2>3. Starts(r, q)
    BY <1>0, <2>1, <2>2 DEF Starts, Shaped
  <2> QED BY <1>2, <2>3 DEF r
<1> QED BY <1>4, <1>5, <1>6, <1>7, <1>8 DEF ClientStep

\* The handler leaves without a word.
Leaves(r, q) == q.st = "closed" /\ q.answers = r.answers

\* A line of blanks is passed over.
Skips(c, r, q) ==
    /\ Arrived(c) /\ Frame(c).kind = "blank"
    /\ q.st = "reading" /\ q.read = r.read + 1 /\ q.answers = r.answers
    /\ q.auth = r.auth

\* A frame is answered at once, and refused with the last line.
Replies(c, r, q) ==
    /\ Arrived(c) /\ Frame(c).kind # "blank" /\ q.read = r.read + 1
    /\ \/ q.st = "closed" /\ q.answers = Append(r.answers, "error")
       \/ /\ q.st = "reading" /\ Frame(c).kind = "hello"
          /\ q.answers = Append(r.answers, "hello_ack")
       \/ /\ q.st = "reading" /\ Frame(c).kind = "health" /\ r.auth
          /\ q.answers = Append(r.answers, "health")

\* A batch is handed over to the sink ...
Waits(c, r, q) ==
    /\ Arrived(c) /\ Frame(c).kind = "batch" /\ Valid(c)
    /\ q.st = "waiting" /\ q.read = r.read + 1 /\ q.answers = r.answers
    /\ q.auth = r.auth /\ q.left = IdsOf(ToSet(Kept(c)))

\* ... and answered later.
Finishes(r, q) ==
    /\ r.st = "waiting" /\ q.read = r.read
    /\ \/ q.st = "closed" /\ q.answers = Append(r.answers, "error")
       \/ q.st = "reading" /\ r.left = {} /\ q.answers = Append(r.answers, "ack")

LEMMA RefuseTurns ==
    ASSUME Connections, NEW c \in Conns, conn[c].st \in Serving, Paced(conn[c]),
           NEW n, n \in {conn[c].read, conn[c].read + 1}, n <= conn[c].sent, Refuse(c, n)
    PROVE  \E q : /\ Becomes(c, q) /\ Turns(conn[c], q) /\ q.st = "closed" /\ q.read = n
                  /\ \/ q.answers = conn[c].answers
                     \/ q.answers = Append(conn[c].answers, "error")
<1>1. PICK answers : /\ Closed(c, n, answers)
                     /\ \/ answers = conn[c].answers
                        \/ answers = Append(conn[c].answers, "error")
  BY DEF Refuse
<1>2. PICK q : /\ Becomes(c, q) /\ Turns(conn[c], q) /\ q.st = "closed"
               /\ q.read = n /\ q.answers = answers
  BY <1>1, ClosedTurns
<1> QED BY <1>1, <1>2

LEMMA AnswerTurns ==
    ASSUME Connections, NEW c \in Conns, conn[c].st \in Serving, Paced(conn[c]),
           NEW n, n \in {conn[c].read, conn[c].read + 1}, n <= conn[c].sent,
           NEW auth, NEW line, Answer(c, n, auth, line)
    PROVE  \E q : /\ Becomes(c, q) /\ Turns(conn[c], q)
                  /\ \/ Leaves(conn[c], q)
                     \/ /\ q.st = "reading" /\ q.read = n
                        /\ q.answers = Append(conn[c].answers, line)
<1>1. CASE Closed(c, n, conn[c].answers)
  <2>1. PICK a : a = conn[c].answers
    OBVIOUS
  <2>2. PICK q : /\ Becomes(c, q) /\ Turns(conn[c], q) /\ q.st = "closed"
                 /\ q.read = n /\ q.answers = a
    BY <1>1, <2>1, ClosedTurns
  <2> QED BY <2>1, <2>2 DEF Leaves
<1>2. CASE NextFrame(c, n, auth, Append(conn[c].answers, line))
  <2>1. PICK a : a = Append(conn[c].answers, line)
    OBVIOUS
  <2>2. NextFrame(c, n, auth, a)
    BY <1>2, <2>1
  <2>3. PICK q : /\ Becomes(c, q) /\ Turns(conn[c], q) /\ q.st = "reading"
                 /\ q.read = n /\ q.auth = auth /\ q.answers = a
    BY <2>2, NextTurns
  <2> QED BY <2>1, <2>3
<1> QED BY <1>1, <1>2 DEF Answer

LEMMA HandlerSteps ==
    ASSUME Connections, Pacing, NEW c \in Conns, Handler(c)
    PROVE  \E q : /\ Becomes(c, q) /\ Turns(conn[c], q)
                  /\ \/ Leaves(conn[c], q) \/ Skips(c, conn[c], q)
                     \/ Replies(c, conn[c], q) \/ Waits(c, conn[c], q)
                     \/ Finishes(conn[c], q)
<1>1. PICK r, n : r = conn[c] /\ n = r.read + 1
  OBVIOUS
<1>2. Paced(conn[c]) /\ r.read \in Nat /\ r.sent \in Nat /\ r.read <= r.sent
  BY <1>1 DEF Pacing, Paced
<1>3. Arrived(c) => n <= r.sent /\ r.st \in Serving
  BY <1>1, <1>2, Taken DEF Arrived, Serving
<1>4. CASE SkipBlank(c)
  <2>1. Arrived(c) /\ Frame(c).kind = "blank" /\ NextFrame(c, n, r.auth, r.answers)
    BY <1>1, <1>4 DEF SkipBlank
  <2>2. PICK q : /\ Becomes(c, q) /\ Turns(conn[c], q) /\ q.st = "reading"
                 /\ q.read = n /\ q.auth = r.auth /\ q.answers = r.answers
    BY <1>1, <1>2, <1>3, <2>1, NextTurns
  <2> QED BY <1>1, <2>1, <2>2 DEF Skips
<1>5. ASSUME Arrived(c), Frame(c).kind # "blank", Refuse(c, n)
      PROVE  \E q : /\ Becomes(c, q) /\ Turns(conn[c], q)
                    /\ Leaves(conn[c], q) \/ Replies(c, conn[c], q)
  <2>1. PICK q : /\ Becomes(c, q) /\ Turns(conn[c], q) /\ q.st = "closed" /\ q.read = n
                 /\ \/ q.answers = conn[c].answers
                    \/ q.answers = Append(conn[c].answers, "error")
    BY <1>1, <1>2, <1>3, <1>5, RefuseTurns
  <2> QED BY <1>1, <1>5, <2>1 DEF Leaves, Replies
<1>6. CASE RefuseFrame(c) \/ RefuseBatch(c)
  <2>1. Arrived(c) /\ Frame(c).kind # "blank" /\ Refuse(c, n)
    BY <1>1, <1>6 DEF RefuseFrame, RefuseBatch
  <2> QED BY <1>5, <2>1
<1>7. CASE Hello(c) \/ Health(c)
  <2>1. CASE Hello(c)
    <3>1. Arrived(c) /\ Frame(c).kind = "hello" /\ Answer(c, n, TRUE, "hello_ack")
      BY <1>1, <2>1 DEF Hello
    <3>2. PICK q : /\ Becomes(c, q) /\ Turns(conn[c], q)
                   /\ \/ Leaves(conn[c], q)
                      \/ /\ q.st = "reading" /\ q.read = n
                         /\ q.answers = Append(conn[c].answers, "hello_ack")
      BY <1>1, <1>2, <1>3, <3>1, AnswerTurns
    <3> QED BY <1>1, <3>1, <3>2 DEF Replies
  <2>2. CASE Health(c)
    <3>1. Arrived(c) /\ Frame(c).kind = "health"
      BY <2>2 DEF Health
    <3>2. CASE ~conn[c].auth
      BY <1>1, <1>5, <2>2, <3>1, <3>2 DEF Health
    <3>3. CASE conn[c].auth
      <4>1. Answer(c, n, TRUE, "health")
        BY <1>1, <2>2, <3>3 DEF Health
      <4>2. PICK q : /\ Becomes(c, q) /\ Turns(conn[c], q)
                     /\ \/ Leaves(conn[c], q)
                        \/ /\ q.st = "reading" /\ q.read = n
                           /\ q.answers = Append(conn[c].answers, "health")
        BY <1>1, <1>2, <1>3, <3>1, <4>1, AnswerTurns
      <4> QED BY <1>1, <3>1, <3>3, <4>2 DEF Replies
    <3> QED BY <3>2, <3>3
  <2> QED BY <1>7, <2>1, <2>2
<1>8. CASE PublishBatch(c)
  <2>1. Arrived(c) /\ Frame(c).kind = "batch" /\ Valid(c)
    BY <1>8 DEF PublishBatch
  <2> QED BY <1>2, <1>8, <2>1, PublishTurns DEF Waits
<1>9. CASE Acknowledge(c)
  <2>1. r.st = "waiting" /\ r.left = {} /\ Answer(c, r.read, TRUE, "ack") /\ r.st \in Serving
    BY <1>1, <1>9 DEF Acknowledge, Serving
  <2>2. PICK q : /\ Becomes(c, q) /\ Turns(conn[c], q)
                 /\ \/ Leaves(conn[c], q)
                    \/ /\ q.st = "reading" /\ q.read = r.read
                       /\ q.answers = Append(conn[c].answers, "ack")
    BY <1>1, <1>2, <2>1, AnswerTurns
  <2> QED BY <1>1, <2>1, <2>2 DEF Finishes
<1>10. CASE AckTimeout(c)
  <2>1. r.st = "waiting" /\ Refuse(c, r.read) /\ r.st \in Serving
    BY <1>1, <1>10 DEF AckTimeout, Serving
  <2>2. PICK q : /\ Becomes(c, q) /\ Turns(conn[c], q) /\ q.st = "closed" /\ q.read = r.read
                 /\ \/ q.answers = conn[c].answers
                    \/ q.answers = Append(conn[c].answers, "error")
    BY <1>1, <1>2, <2>1, RefuseTurns
  <2> QED BY <1>1, <2>1, <2>2 DEF Leaves, Finishes
<1>11. CASE FrameTimeout(c) \/ EndOfStream(c)
  <2>1. Closed(c, r.read, r.answers) /\ r.st \in Serving
    BY <1>1, <1>11 DEF FrameTimeout, EndOfStream, Serving
  <2>2. PICK q : /\ Becomes(c, q) /\ Turns(conn[c], q) /\ q.st = "closed"
                 /\ q.read = r.read /\ q.answers = r.answers
    BY <1>1, <1>2, <2>1, ClosedTurns
  <2> QED BY <1>1, <2>2 DEF Leaves
<1> QED BY <1>4, <1>6, <1>7, <1>8, <1>9, <1>10, <1>11 DEF Handler

\* What any step makes of a connection.
Going(c, r, q) ==
    \/ Listens(r, q) /\ done \cup r.left \subseteq done' \cup q.left
    \/ Opens(r, q)
    \/ Starts(r, q)
    \/ Turns(r, q) /\ \/ Leaves(r, q) \/ Skips(c, r, q) \/ Replies(c, r, q)
                      \/ Waits(c, r, q) \/ Finishes(r, q)

LEMMA EveryStep ==
    ASSUME Connections, Pacing, [SessionNext]_sessionVars
    PROVE  done \subseteq done' /\ \A c \in Conns : Going(c, conn[c], conn'[c])
<1>1. ASSUME NEW c \in Conns
      PROVE  Listens(conn[c], conn[c])
  <2>1. Paced(conn[c])
    BY DEF Pacing
  <2>2. conn[c].sent \in conn[c].sent .. Len(conn[c].script)
    BY <2>1, LenProperties DEF Paced
  <2> QED BY <2>2 DEF Listens
<1>2. ASSUME UNCHANGED done, NEW c \in Conns, NEW q, Becomes(c, q), Going(c, conn[c], q)
      PROVE  \A d \in Conns : Going(d, conn[d], conn'[d])
  <2> TAKE d \in Conns
  <2>1. CASE d = c
    BY <1>2, <2>1 DEF Becomes
  <2>2. CASE d # c
    <3>1. conn'[d] = conn[d]
      BY <1>2, <2>2 DEF Becomes
    <3> QED BY <1>1, <1>2, <3>1 DEF Going
  <2> QED BY <2>1, <2>2
<1>3. CASE UNCHANGED sessionVars
  <2>1. UNCHANGED <<conn, done>>
    BY <1>3 DEF sessionVars
  <2> QED BY <1>1, <2>1 DEF Going
<1>4. ASSUME NEW c \in Conns, ClientStep(c) \/ TimePasses(c) \/ TurnAway(c) \/ AcceptClient(c)
      PROVE  UNCHANGED done /\ \A d \in Conns : Going(d, conn[d], conn'[d])
  <2>1. UNCHANGED done
    BY <1>4 DEF ClientStep, Connect, Fragment, SendFrame, Hangup, TimePasses, TurnAway,
                AcceptClient, sinkVars
  <2>2. PICK q : /\ Becomes(c, q)
                 /\ \/ Listens(conn[c], q) /\ q.left = conn[c].left
                    \/ Opens(conn[c], q)
                    \/ Starts(conn[c], q)
    BY <1>4, OutsideSteps
  <2>3. Going(c, conn[c], q)
    BY <2>1, <2>2 DEF Going
  <2> QED BY <1>2, <2>1, <2>2, <2>3
<1>5. ASSUME NEW c \in Conns, Handler(c)
      PROVE  UNCHANGED done /\ \A d \in Conns : Going(d, conn[d], conn'[d])
  <2>1. UNCHANGED done
    BY <1>5 DEF Handler, SkipBlank, RefuseFrame, Hello, Health, PublishBatch, RefuseBatch,
                Acknowledge, AckTimeout, FrameTimeout, EndOfStream, sinkVars
  <2>2. PICK q : /\ Becomes(c, q) /\ Turns(conn[c], q)
                 /\ \/ Leaves(conn[c], q) \/ Skips(c, conn[c], q)
                    \/ Replies(c, conn[c], q) \/ Waits(c, conn[c], q)
                    \/ Finishes(conn[c], q)
    BY <1>5, HandlerSteps
  <2>3. Going(c, conn[c], q)
    BY <2>2 DEF Going
  <2> QED BY <1>2, <2>1, <2>2, <2>3
<1>6. ASSUME NEW p \in permits, FinishWrite(p)
      PROVE  done \subseteq done' /\ \A d \in Conns : Going(d, conn[d], conn'[d])
  <2>0. done \subseteq done'
    BY <1>6 DEF FinishWrite
  <2> SUFFICES ASSUME NEW d \in Conns PROVE Going(d, conn[d], conn'[d])
    BY <2>0
  <2>2. PICK r, q, i : r = conn[d] /\ q = conn'[d] /\ i = p.id
    OBVIOUS
  <2>3. q = [r EXCEPT !.left = r.left \ {i}] /\ done' = done \cup {i}
    BY <1>6, <2>2, SMT DEF FinishWrite
  <2>4. Shaped(r)
    BY <2>2 DEF Connections
  <2>5. Listens(r, r)
    BY <1>1, <2>2
  <2>6. Listens(r, q) /\ q.left = r.left \ {i}
    BY <2>3, <2>4, <2>5 DEF Listens, Shaped
  <2>7. done \cup r.left \subseteq done' \cup q.left
    BY <2>3, <2>6
  <2> QED BY <2>2, <2>3, <2>6, <2>7 DEF Going
<1>7. ASSUME NEW p \in permits, DropPermit(p)
      PROVE  done \subseteq done' /\ \A d \in Conns : Going(d, conn[d], conn'[d])
  BY <1>1, <1>7 DEF DropPermit, Going
<1> QED BY <1>3, <1>4, <1>5, <1>6, <1>7 DEF SessionNext, AcceptLoop, SinkStep

LEMMA PacedOn ==
    ASSUME NEW c \in Conns, NEW r, NEW q, Paced(r), Going(c, r, q)
    PROVE  Paced(q)
<1>1. Len(r.script) \in Nat /\ r.sent \in Nat /\ r.read \in Nat
  BY LenProperties DEF Paced
<1>2. CASE Listens(r, q)
  <2>1. /\ q.script = r.script /\ q.read = r.read /\ q.answers = r.answers /\ q.st = r.st
        /\ q.sent \in r.sent .. Len(r.script)
        /\ q.sent # r.sent => r.st \in Serving
    BY <1>2 DEF Listens
  <2>2. r.sent \in 0 .. Len(r.script) /\ r.read \in 0 .. r.sent
    BY DEF Paced
  <2>3. q.sent \in 0 .. Len(r.script) /\ q.read \in 0 .. q.sent
    BY <1>1, <2>1, <2>2
  <2>4. q.st \in {"none", "backlog"} => q.sent = 0 /\ q.read = 0 /\ q.answers = <<>>
    BY <2>1 DEF Paced, Serving
  <2> QED BY <2>1, <2>3, <2>4 DEF Paced
<1>3. CASE Opens(r, q)
  <2>1. q.script \in Seq(Frames) /\ Len(q.script) \in Nat
    BY <1>3, LenProperties DEF Opens
  <2> QED BY <1>3, <2>1 DEF Opens, Paced
<1>4. CASE Starts(r, q)
  BY <1>4 DEF Starts, Paced
<1>5. CASE Turns(r, q)
  <2>1. q.script = r.script /\ q.st \notin {"none", "backlog"}
    BY <1>5 DEF Turns
  <2>2. q.read \in Nat /\ q.sent \in q.read .. r.sent
    BY <1>1, <1>5 DEF Turns
  <2>3. q.read \in 0 .. q.sent /\ q.sent \in 0 .. Len(r.script)
    BY <1>1, <2>2 DEF Paced
  <2> QED BY <2>1, <2>3 DEF Paced
<1> QED BY <1>2, <1>3, <1>4, <1>5 DEF Going

\* A handler believes in a connection only after a good hello, if one is asked for.
Greeted(r) ==
    /\ r.st \in Serving /\ r.auth /\ TokenSet
         => \E j \in 1 .. r.read : r.script[j].kind = "hello"
    /\ r.st = "waiting" => r.auth

LEMMA GreetedOn ==
    ASSUME NEW c \in Conns, NEW r, NEW q, r = conn[c], Paced(r), Greeted(r), Going(c, r, q)
    PROVE  Greeted(q)
<1>1. r.read \in Nat
  BY DEF Paced
<1>2. CASE Listens(r, q)
  BY <1>2 DEF Listens, Greeted
<1>3. CASE Opens(r, q) \/ Starts(r, q) \/ Leaves(r, q)
  BY <1>3 DEF Opens, Starts, Leaves, Greeted, Serving
<1>4. CASE Turns(r, q) /\ (Skips(c, r, q) \/ Replies(c, r, q) \/ Waits(c, r, q) \/ Finishes(r, q))
  <2>1. q.script = r.script /\ r.st \in Serving
    BY <1>4 DEF Turns
  <2>2. q.read \in {r.read, r.read + 1}
    BY <1>4 DEF Turns
  <2>3. ASSUME \E j \in 1 .. r.read : r.script[j].kind = "hello"
        PROVE  \E j \in 1 .. q.read : q.script[j].kind = "hello"
    <3>1. PICK j \in 1 .. r.read : r.script[j].kind = "hello"
      BY <2>3
    <3>2. j \in 1 .. q.read
      BY <1>1, <2>2
    <3> QED BY <2>1, <3>1, <3>2
  <2>4. CASE Skips(c, r, q) \/ Waits(c, r, q)
    BY <2>1, <2>3, <2>4 DEF Skips, Waits, Valid, Greeted
  <2>5. CASE Finishes(r, q)
    BY <2>1, <2>3, <2>5 DEF Finishes, Greeted, Serving
  <2>6. CASE Replies(c, r, q)
    <3>1. CASE Frame(c).kind = "hello"
      <4>1. q.script[q.read].kind = "hello" /\ q.read \in 1 .. q.read
        BY <1>1, <2>1, <2>6, <3>1 DEF Replies, Frame
      <4>2. q.st # "waiting"
        BY <2>6 DEF Replies
      <4> QED BY <4>1, <4>2 DEF Greeted
    <3>2. CASE q.st = "closed"
      BY <3>2 DEF Greeted, Serving
    <3>3. CASE q.st = "reading" /\ r.auth
      BY <2>1, <2>3, <3>3 DEF Greeted
    <3> QED BY <2>6, <3>1, <3>2, <3>3 DEF Replies
  <2> QED BY <1>3, <1>4, <2>4, <2>5, <2>6, EveryStep DEF Going, Listens
<1> QED BY <1>2, <1>3, <1>4 DEF Going

-----------------------------------------------------------------------------
(* The answers follow the frames.                                             *)

\* The lines among the first n of a script that want an answer.
Talk(s, n) == Among(SubSeq(s, 1, n), Spoken)

LEMMA TalkBegins ==
    ASSUME NEW s \in Seq(Frames)
    PROVE  Talk(s, 0) = <<>>
<1>1. SubSeq(s, 1, 0) = <<>>
  BY SubSeqProperties, LenProperties
<1> QED BY <1>1, AmongNone DEF Talk

LEMMA TalkGoesOn ==
    ASSUME NEW s \in Seq(Frames), NEW n \in Nat, n < Len(s)
    PROVE  /\ s[n + 1] \in Frames
           /\ Talk(s, n) \in Seq(Frames)
           /\ Talk(s, n + 1) = IF s[n + 1].kind = "blank" THEN Talk(s, n)
                               ELSE Append(Talk(s, n), s[n + 1])
<1>1. PICK t, f : t = SubSeq(s, 1, n) /\ f = s[n + 1]
  OBVIOUS
<1>2. t \in Seq(Frames) /\ f \in Frames /\ SubSeq(s, 1, n + 1) = Append(t, f)
  BY <1>1, OneMore
<1>3. Among(t, Spoken) \in Seq(Frames)
  BY <1>2, AmongElements
<1>4. f \in Spoken <=> f.kind # "blank"
  BY <1>2 DEF Frames, Spoken
<1>5. Among(Append(t, f), Spoken) =
        IF f \in Spoken THEN Append(Among(t, Spoken), f) ELSE Among(t, Spoken)
  BY <1>2, AmongAppended
<1> HIDE DEF Spoken
<1> QED BY <1>1, <1>2, <1>3, <1>4, <1>5 DEF Talk

\* What a handler says.
Lines == {"error", "hello_ack", "health", "ack"}

\* The k-th line answers the k-th frame; D are the complete writes.
Matches(a, h, D, st) ==
    \A k \in 1 .. Len(a) :
      /\ Fits(a[k], h[k])
      /\ a[k] = "error" => k = Len(a) /\ st = "closed"
      /\ a[k] = "ack" => ToSet(h[k].batch) \subseteq D

\* What holds of the answers a and the frames h of a connection in state st.
Dialogue(a, h, D, left, st) ==
    /\ a \in Seq(Lines) /\ h \in Seq(Frames)
    /\ Len(a) <= Len(h)
    /\ Matches(a, h, D, st)
    /\ st = "reading" => Len(a) = Len(h)
    /\ st = "waiting" => /\ Len(a) + 1 = Len(h) /\ h[Len(h)].kind = "batch"
                         /\ ToSet(h[Len(h)].batch) \subseteq D \cup left

LEMMA StillFollows ==
    ASSUME NEW a, NEW h, NEW D, NEW left, NEW st, Dialogue(a, h, D, left, st),
           NEW D1, NEW left1, D \subseteq D1, D \cup left \subseteq D1 \cup left1
    PROVE  Dialogue(a, h, D1, left1, st)
BY DEF Dialogue, Matches

\* A connection that ends without a word.
LEMMA SilenceFollows ==
    ASSUME NEW a, NEW h, NEW D, NEW left, NEW st, Dialogue(a, h, D, left, st),
           NEW g, g = h \/ \E f \in Frames : g = Append(h, f), NEW left1
    PROVE  Dialogue(a, g, D, left1, "closed")
<1>1. a \in Seq(Lines) /\ h \in Seq(Frames) /\ Len(a) \in Nat /\ Len(h) \in Nat
  BY LenProperties DEF Dialogue
<1>2. /\ g \in Seq(Frames) /\ Len(h) <= Len(g)
      /\ \A k \in 1 .. Len(h) : g[k] = h[k]
  BY <1>1, AppendProperties
<1>3. Len(a) <= Len(h) /\ Matches(a, h, D, st)
  BY DEF Dialogue
<1>4. \A k \in 1 .. Len(a) : k \in 1 .. Len(h)
  BY <1>1, <1>3
<1>5. Matches(a, g, D, "closed")
  BY <1>2, <1>3, <1>4 DEF Matches
<1>6. Len(a) <= Len(g) /\ Len(g) \in Nat
  BY <1>1, <1>2, <1>3, LenProperties
<1> QED BY <1>1, <1>2, <1>5, <1>6 DEF Dialogue

\* One more answer, to the frame it answers.
LEMMA OneMoreAnswer ==
    ASSUME NEW a \in Seq(Lines), NEW h \in Seq(Frames), NEW D,
           Len(a) + 1 = Len(h), Matches(a, h, D, "reading"),
           NEW line \in Lines, Fits(line, h[Len(h)]),
           NEW st, line = "error" => st = "closed",
           line = "ack" => ToSet(h[Len(h)].batch) \subseteq D
    PROVE  /\ Append(a, line) \in Seq(Lines) /\ Len(Append(a, line)) = Len(h)
           /\ Matches(Append(a, line), h, D, st)
<1> DEFINE b == Append(a, line)
<1>1. Len(a) \in Nat /\ Len(h) \in Nat
  BY LenProperties
<1>2. /\ b \in Seq(Lines) /\ Len(b) = Len(a) + 1 /\ b[Len(a) + 1] = line
      /\ \A k \in 1 .. Len(a) : b[k] = a[k]
  BY AppendProperties
<1> HIDE DEF b
<1>3. ASSUME NEW k \in 1 .. Len(b)
      PROVE  /\ Fits(b[k], h[k])
             /\ b[k] = "error" => k = Len(b) /\ st = "closed"
             /\ b[k] = "ack" => ToSet(h[k].batch) \subseteq D
  <2>1. CASE k = Len(b)
    <3>1. b[k] = line /\ k = Len(h)
      BY <1>2, <2>1
    <3> QED BY <2>1, <3>1
  <2>2. CASE k # Len(b)
    <3>1. k \in 1 .. Len(a)
      BY <1>1, <1>2, <2>2
    <3>2. b[k] = a[k] /\ a[k] # "error"
      BY <1>2, <3>1 DEF Matches
    <3> QED BY <3>1, <3>2 DEF Matches
  <2> QED BY <2>1, <2>2
<1>4. Matches(b, h, D, st)
  BY <1>3 DEF Matches
<1> QED BY <1>2, <1>4 DEF b

LEMMA MatchesInAnyState ==
    ASSUME NEW a, NEW h, NEW D, NEW s1, NEW s2, Matches(a, h, D, s1), s1 # "closed"
    PROVE  Matches(a, h, D, s2)
BY DEF Matches

\* A frame that is answered at once.
LEMMA ReplyFollows ==
    ASSUME NEW a, NEW h, NEW D, NEW left, Dialogue(a, h, D, left, "reading"),
           NEW f \in Frames, NEW line \in Lines, Fits(line, f), line # "ack",
           NEW st \in {"reading", "closed"}, line = "error" => st = "closed", NEW left1
    PROVE  Dialogue(Append(a, line), Append(h, f), D, left1, st)
<1> DEFINE g == Append(h, f)
           b == Append(a, line)
<1>1. /\ a \in Seq(Lines) /\ h \in Seq(Frames) /\ Len(a) = Len(h)
      /\ Matches(a, h, D, "reading") /\ Len(h) \in Nat
  BY LenProperties DEF Dialogue, Matches
<1>3. /\ g \in Seq(Frames) /\ Len(g) = Len(h) + 1 /\ g[Len(h) + 1] = f
      /\ \A k \in 1 .. Len(h) : g[k] = h[k]
  BY <1>1, AppendProperties
<1> HIDE DEF g
<1>4. Matches(a, g, D, "reading")
  BY <1>1, <1>3 DEF Matches
<1>5. Fits(line, g[Len(g)]) /\ Len(a) + 1 = Len(g)
  BY <1>1, <1>3
<1>6. b \in Seq(Lines) /\ Len(b) = Len(g) /\ Matches(b, g, D, st)
  BY <1>1, <1>3, <1>4, <1>5, OneMoreAnswer
<1> HIDE DEF b
<1>7. Dialogue(b, g, D, left1, st)
  BY <1>1, <1>3, <1>6 DEF Dialogue
<1> QED BY <1>7 DEF b, g

\* A batch that is handed over.
LEMMA WaitFollows ==
    ASSUME NEW a, NEW h, NEW D, NEW left, Dialogue(a, h, D, left, "reading"),
           NEW f \in Frames, f.kind = "batch",
           NEW left1, ToSet(f.batch) \subseteq D \cup left1
    PROVE  Dialogue(a, Append(h, f), D, left1, "waiting")
<1> DEFINE g == Append(h, f)
<1>1. /\ a \in Seq(Lines) /\ h \in Seq(Frames) /\ Len(a) = Len(h)
      /\ Matches(a, h, D, "reading") /\ Len(h) \in Nat
  BY LenProperties DEF Dialogue
<1>2. /\ g \in Seq(Frames) /\ Len(g) = Len(h) + 1 /\ g[Len(h) + 1] = f
      /\ \A k \in 1 .. Len(h) : g[k] = h[k]
  BY <1>1, AppendProperties
<1> HIDE DEF g
<1>3. Matches(a, g, D, "reading")
  BY <1>1, <1>2 DEF Matches
<1>4. g[Len(g)] = f /\ Len(a) + 1 = Len(g) /\ Len(a) <= Len(g)
  BY <1>1, <1>2
<1>5. Matches(a, g, D, "waiting")
  BY <1>3, MatchesInAnyState
<1>6. ToSet(g[Len(g)].batch) \subseteq D \cup left1 /\ g[Len(g)].kind = "batch"
  BY <1>4
<1>7. Dialogue(a, g, D, left1, "waiting")
  BY <1>1, <1>2, <1>4, <1>5, <1>6 DEF Dialogue
<1> QED BY <1>7 DEF g

\* A batch that is answered.
LEMMA FinishFollows ==
    ASSUME NEW a, NEW h, NEW D, NEW left, Dialogue(a, h, D, left, "waiting"),
           NEW line \in {"error", "ack"}, line = "ack" => left = {},
           NEW st \in {"reading", "closed"}, line = "error" => st = "closed", NEW left1
    PROVE  Dialogue(Append(a, line), h, D, left1, st)
<1> DEFINE b == Append(a, line)
<1>1. /\ a \in Seq(Lines) /\ h \in Seq(Frames) /\ Len(a) + 1 = Len(h)
      /\ h[Len(h)].kind = "batch" /\ ToSet(h[Len(h)].batch) \subseteq D \cup left
      /\ Matches(a, h, D, "waiting")
  BY DEF Dialogue
<1>2. Matches(a, h, D, "reading") /\ Len(h) \in Nat /\ line \in Lines
  <2>1. Matches(a, h, D, "reading")
    BY <1>1, MatchesInAnyState
  <2>2. Len(h) \in Nat
    BY <1>1, LenProperties
  <2> QED BY <2>1, <2>2 DEF Lines
<1>3. Fits(line, h[Len(h)]) /\ (line = "ack" => ToSet(h[Len(h)].batch) \subseteq D)
  BY <1>1 DEF Fits
<1>4. b \in Seq(Lines) /\ Len(b) = Len(h) /\ Matches(b, h, D, st)
  BY <1>1, <1>2, <1>3, OneMoreAnswer
<1> HIDE DEF b
<1>5. Dialogue(b, h, D, left1, st)
  BY <1>1, <1>2, <1>4 DEF Dialogue
<1> QED BY <1>5 DEF b

Talking(r, D) == Dialogue(r.answers, Talk(r.script, r.read), D, r.left, r.st)

LEMMA TurnTalks ==
    ASSUME NEW r, NEW q, Paced(r), Paced(q), Turns(r, q)
    PROVE  /\ q.read = r.read => Talk(q.script, q.read) = Talk(r.script, r.read)
           /\ q.read = r.read + 1
                => /\ r.script[q.read] \in Frames
                   /\ Talk(q.script, q.read) =
                        IF r.script[q.read].kind = "blank" THEN Talk(r.script, r.read)
                        ELSE Append(Talk(r.script, r.read), r.script[q.read])
<1>1. PICK s, n : s = r.script /\ n = r.read
  OBVIOUS
<1>2. s \in Seq(Frames) /\ n \in Nat /\ q.script = s /\ Len(s) \in Nat
  BY <1>1, LenProperties DEF Paced, Turns
<1>3. CASE q.read = n + 1
  <2>1. n < Len(s)
    BY <1>1, <1>2, <1>3 DEF Paced
  <2> QED BY <1>1, <1>2, <1>3, <2>1, TalkGoesOn
<1> QED BY <1>1, <1>2, <1>3

LEMMA TalkingOn ==
    ASSUME NEW c \in Conns, NEW r, NEW q, r = conn[c], Paced(r), Paced(q),
           Going(c, r, q), done \subseteq done', Talking(r, done)
    PROVE  Talking(q, done')
<1> DEFINE D == done
           a == r.answers
           h == Talk(r.script, r.read)
           g == Talk(q.script, q.read)
<1>0. Dialogue(a, h, D, r.left, r.st)
  BY DEF Talking
<1>1. CASE Listens(r, q) /\ done \cup r.left \subseteq done' \cup q.left
  <2>1. q.answers = a /\ g = h /\ q.st = r.st
    BY <1>1 DEF Listens
  <2>2. Dialogue(a, h, done', q.left, r.st)
    BY <1>0, <1>1, StillFollows
  <2> QED BY <2>1, <2>2 DEF Talking
<1>2. CASE Opens(r, q) \/ Starts(r, q)
  <2>1. q.answers = <<>> /\ q.read = 0 /\ q.script \in Seq(Frames)
    BY <1>2 DEF Opens, Starts, Paced
  <2>2. q.st \in {"backlog", "reading", "closed"}
    BY <1>2 DEF Opens, Starts
  <2>3. g = <<>> /\ Len(<<>>) = 0
    BY <2>1, TalkBegins, EmptySeq
  <2>4. <<>> \in Seq(Lines) /\ <<>> \in Seq(Frames)
    BY EmptySeq
  <2>5. \A L, M, N : Matches(<<>>, L, M, N)
    BY <2>3 DEF Matches
  <2>6. Dialogue(<<>>, <<>>, done', q.left, q.st)
    BY <2>2, <2>3, <2>4, <2>5 DEF Dialogue
  <2> QED BY <2>1, <2>3, <2>6 DEF Talking
<1>3. CASE /\ Turns(r, q)
           /\ Leaves(r, q) \/ Skips(c, r, q) \/ Replies(c, r, q) \/ Waits(c, r, q) \/ Finishes(r, q)
  <2> DEFINE f == r.script[q.read]
  <2>1. /\ q.read = r.read => g = h
        /\ q.read = r.read + 1
             => f \in Frames /\ g = IF f.kind = "blank" THEN h ELSE Append(h, f)
    BY <1>3, TurnTalks
  <2>2. Arrived(c) /\ q.read = r.read + 1 => f = Frame(c) /\ r.st = "reading"
    BY DEF Arrived, Frame
  <2>4. q.read \in {r.read, r.read + 1} /\ r.st \in {"reading", "waiting"}
    BY <1>3 DEF Turns, Serving
  <2> SUFFICES Dialogue(q.answers, g, D, q.left, q.st)
    BY StillFollows DEF Talking
  <2> HIDE DEF a, h, g, f, D
  <2>7. CASE Leaves(r, q)
    <3>1. CASE q.read = r.read
      BY <1>0, <2>1, <2>7, <3>1, SilenceFollows DEF Leaves, a
    <3>2. CASE q.read = r.read + 1
      <4>1. f \in Frames /\ g \in {h, Append(h, f)}
        BY <2>1, <3>2
      <4> QED BY <1>0, <2>7, <4>1, SilenceFollows DEF Leaves, a
    <3> QED BY <2>4, <3>1, <3>2
  <2>8. CASE Skips(c, r, q)
    <3>1. q.read = r.read + 1 /\ f.kind = "blank" /\ r.st = "reading"
      BY <2>2, <2>8 DEF Skips
    <3>2. g = h /\ q.answers = a /\ q.st = "reading"
      BY <2>1, <2>8, <3>1 DEF Skips, a
    <3> QED BY <1>0, <3>1, <3>2 DEF Dialogue
  <2>9. CASE Replies(c, r, q)
    <3>1. q.read = r.read + 1 /\ f = Frame(c) /\ f.kind # "blank" /\ r.st = "reading"
      BY <2>2, <2>9 DEF Replies
    <3>2. f \in Frames /\ Dialogue(a, h, D, r.left, "reading")
      BY <1>0, <2>1, <3>1
    <3>6. g = Append(h, f)
      BY <2>1, <3>1
    <3>3. CASE q.st = "closed" /\ q.answers = Append(a, "error")
      <4>1. Fits("error", f)
        BY <3>3 DEF Fits
      <4>2. Dialogue(Append(a, "error"), Append(h, f), D, q.left, "closed")
        BY <3>2, <4>1, ReplyFollows DEF Lines
      <4> QED BY <3>3, <3>6, <4>2
    <3>4. CASE q.st = "reading" /\ f.kind = "hello" /\ q.answers = Append(a, "hello_ack")
      <4>1. Fits("hello_ack", f)
        BY <3>4 DEF Fits
      <4>2. Dialogue(Append(a, "hello_ack"), Append(h, f), D, q.left, "reading")
        BY <3>2, <4>1, ReplyFollows DEF Lines
      <4> QED BY <3>4, <3>6, <4>2
    <3>5. CASE q.st = "reading" /\ f.kind = "health" /\ q.answers = Append(a, "health")
      <4>1. Fits("health", f)
        BY <3>5 DEF Fits
      <4>2. Dialogue(Append(a, "health"), Append(h, f), D, q.left, "reading")
        BY <3>2, <4>1, ReplyFollows DEF Lines
      <4> QED BY <3>5, <3>6, <4>2
    <3> QED BY <2>9, <3>1, <3>3, <3>4, <3>5 DEF Replies, a
  <2>10. CASE Waits(c, r, q)
    <3>1. q.read = r.read + 1 /\ f = Frame(c) /\ f.kind = "batch" /\ r.st = "reading"
      BY <2>2, <2>10 DEF Waits
    <3>2. f \in Frames /\ g = Append(h, f) /\ Dialogue(a, h, D, r.left, "reading")
      BY <1>0, <2>1, <3>1
    <3>3. q.left = ToSet(f.batch) \cap (Ids \ done)
      BY <2>10, <3>1, KeptOfBatch DEF Waits
    <3>4. ToSet(f.batch) \subseteq Ids
      <4>1. f.batch \in Seq(Ids)
        BY <3>2 DEF Frames
      <4> QED BY <4>1, Elements
    <3>5. ToSet(f.batch) \subseteq D \cup q.left
      BY <3>3, <3>4 DEF D
    <3>6. q.answers = a /\ q.st = "waiting"
      BY <2>10 DEF Waits, a
    <3> QED BY <3>1, <3>2, <3>5, <3>6, WaitFollows
  <2>11. CASE Finishes(r, q)
    <3>1. g = h /\ Dialogue(a, h, D, r.left, "waiting")
      BY <1>0, <2>1, <2>11 DEF Finishes
    <3>2. CASE q.st = "closed" /\ q.answers = Append(a, "error")
      BY <3>1, <3>2, FinishFollows
    <3>3. CASE q.st = "reading" /\ r.left = {} /\ q.answers = Append(a, "ack")
      BY <3>1, <3>3, FinishFollows
    <3> QED BY <2>11, <3>2, <3>3 DEF Finishes, a
  <2> QED BY <1>3, <2>7, <2>8, <2>9, <2>10, <2>11
<1> QED BY <1>1, <1>2, <1>3 DEF Going

-----------------------------------------------------------------------------
(* Nothing but whole valid batches of greeted connections enters.             *)

\* r has sent a batch that lets the id i in.
Sponsors(r, i) ==
    \E k \in 1 .. r.read :
      /\ r.script[k].kind = "batch"
      /\ i \in ToSet(r.script[k].batch)
      /\ ToSet(r.script[k].batch) \cap BadIds = {}
      /\ TokenSet => \E j \in 1 .. k - 1 : r.script[j].kind = "hello"

AllSponsored == \A i \in IdsOf(permits) \cup done : \E c \in Conns : Sponsors(conn[c], i)

LEMMA SponsorsGoOn ==
    ASSUME NEW c \in Conns, NEW r, NEW q, Paced(r), Going(c, r, q), NEW i, Sponsors(r, i)
    PROVE  Sponsors(q, i)
<1>1. r.read \in Nat /\ (r.st \in {"none", "backlog"} => r.read = 0)
  BY LenProperties DEF Paced
<1>2. ~Opens(r, q)
  BY <1>1 DEF Opens, Sponsors
<1>3. q.script = r.script /\ q.read \in {r.read, r.read + 1}
  BY <1>2 DEF Going, Listens, Starts, Turns
<1>4. 1 .. r.read \subseteq 1 .. q.read
  BY <1>1, <1>3
<1> QED BY <1>3, <1>4 DEF Sponsors

\* Where the ids come from.
LEMMA WhoEnters ==
    ASSUME [SessionNext]_sessionVars, NEW i \in (IdsOf(permits) \cup done)'
    PROVE  \/ i \in IdsOf(permits) \cup done
           \/ \E c \in Conns : PublishBatch(c) /\ i \in IdsOf(ToSet(Kept(c)))
<1>1. CASE UNCHANGED <<permits, done>>
  BY <1>1 DEF IdsOf
<1>2. ASSUME NEW c \in Conns, PublishBatch(c)
      PROVE  i \in IdsOf(permits) \cup done \/ i \in IdsOf(ToSet(Kept(c)))
  <2>1. PICK S : S = ToSet(Kept(c))
    OBVIOUS
  <2>2. permits' = permits \cup S /\ done' = done
    BY <1>2, <2>1 DEF PublishBatch, Reserve
  <2> QED BY <2>1, <2>2 DEF IdsOf
<1>3. ASSUME NEW p \in permits, FinishWrite(p) \/ DropPermit(p)
      PROVE  i \in IdsOf(permits) \cup done
  <2>1. permits' \subseteq permits /\ done' \subseteq done \cup {p.id}
    BY <1>3 DEF FinishWrite, DropPermit, Retire, admVars
  <2> QED BY <2>1 DEF IdsOf
<1>4. ASSUME NEW c \in Conns,
             ClientStep(c) \/ TimePasses(c) \/ TurnAway(c) \/ AcceptClient(c)
      PROVE  UNCHANGED <<permits, done>>
  BY <1>4 DEF ClientStep, Connect, Fragment, SendFrame, Hangup, TimePasses, TurnAway,
              AcceptClient, sinkVars
<1>5. ASSUME NEW c \in Conns, Handler(c), ~PublishBatch(c)
      PROVE  UNCHANGED <<permits, done>>
  BY <1>5 DEF Handler, SkipBlank, RefuseFrame, Hello, Health, RefuseBatch,
              Acknowledge, AckTimeout, FrameTimeout, EndOfStream, sinkVars
<1>6. CASE UNCHANGED sessionVars
  BY <1>1, <1>6 DEF sessionVars
<1> QED BY <1>1, <1>2, <1>3, <1>4, <1>5, <1>6 DEF SessionNext, AcceptLoop, SinkStep

LEMMA PublishSponsors ==
    ASSUME Connections, NEW c \in Conns, Paced(conn[c]), Greeted(conn[c]), PublishBatch(c),
           NEW i \in IdsOf(ToSet(Kept(c)))
    PROVE  Sponsors(conn'[c], i)
<1>1. PICK q : /\ Becomes(c, q) /\ Turns(conn[c], q) /\ q.read = conn[c].read + 1
  BY PublishTurns
<1>2. PICK s, n : s = conn[c].script /\ n = conn[c].read
  OBVIOUS
<1>3. /\ conn'[c] = q /\ q.script = s /\ q.read = n + 1 /\ n \in Nat /\ Frame(c) = s[n + 1]
  BY <1>1, <1>2, LenProperties DEF Becomes, Turns, Frame, Paced
<1>4. Arrived(c) /\ Frame(c).kind = "batch" /\ Valid(c)
  BY DEF PublishBatch
<1>5. i \in ToSet(Frame(c).batch)
  BY <1>4, KeptOfBatch
<1>6. ToSet(Frame(c).batch) \cap BadIds = {} /\ conn[c].auth /\ conn[c].st \in Serving
  BY <1>4 DEF Valid, Arrived, Serving
<1>7. TokenSet => \E j \in 1 .. n : s[j].kind = "hello"
  BY <1>2, <1>6 DEF Greeted
<1>8. n + 1 \in 1 .. n + 1 /\ (n + 1) - 1 = n
  BY <1>3
<1> QED BY <1>3, <1>4, <1>5, <1>6, <1>7, <1>8 DEF Sponsors

-----------------------------------------------------------------------------
(* The whole daemon.                                                          *)

SessionsInv ==
    /\ IInv
    /\ SlotsInv
    /\ Pacing
    /\ \A c \in Conns : Greeted(conn[c])
    /\ \A c \in Conns : Talking(conn[c], done)
    /\ AllSponsored

LEMMA AtFirst == SessionInit => SessionsInv
<1> SUFFICES ASSUME SessionInit PROVE SessionsInv
  OBVIOUS
<1>1. IInv /\ SlotsInv /\ permits = {} /\ done = {}
  BY Initially, EmptyAtFirst DEF SessionInit, Init
<1>2. ASSUME NEW c \in Conns
      PROVE  Paced(conn[c]) /\ Greeted(conn[c]) /\ Talking(conn[c], done)
  <2>1. PICK r : r = conn[c]
    OBVIOUS
  <2>2. /\ r.st = "none" /\ r.script = <<>> /\ r.sent = 0 /\ r.read = 0
        /\ r.answers = <<>> /\ r.left = {}
    BY <2>1 DEF SessionInit, Unconnected
  <2>3. <<>> \in Seq(Frames) /\ <<>> \in Seq(Lines) /\ Len(<<>>) = 0
    BY EmptySeq
  <2>4. Talk(<<>>, 0) = <<>>
    BY <2>3, TalkBegins
  <2>5. Matches(<<>>, <<>>, done, "none")
    BY <2>3 DEF Matches
  <2>6. Dialogue(<<>>, <<>>, done, {}, "none")
    BY <2>3, <2>5 DEF Dialogue
  <2> QED BY <2>1, <2>2, <2>3, <2>4, <2>6 DEF Paced, Greeted, Serving, Talking
<1>3. AllSponsored
  BY <1>1 DEF AllSponsored, IdsOf
<1> QED BY <1>1, <1>2, <1>3 DEF SessionsInv, Pacing

LEMMA EachStep == SessionsInv /\ [SessionNext]_sessionVars => SessionsInv'
<1> SUFFICES ASSUME SessionsInv, [SessionNext]_sessionVars PROVE SessionsInv'
  OBVIOUS
<1>0. IInv /\ SlotsInv /\ Connections /\ Pacing
  BY DEF SessionsInv, SlotsInv
<1>1. IInv' /\ SlotsInv'
  BY <1>0, TableKept, Steps
<1>2. done \subseteq done' /\ \A c \in Conns : Going(c, conn[c], conn'[c])
  BY <1>0, EveryStep
<1>3. ASSUME NEW c \in Conns
      PROVE  Paced(conn'[c]) /\ Greeted(conn'[c]) /\ Talking(conn'[c], done')
  <2>1. PICK r, q : r = conn[c] /\ q = conn'[c]
    OBVIOUS
  <2>2. Paced(r) /\ Greeted(r) /\ Talking(r, done) /\ Going(c, r, q)
    BY <1>2, <2>1 DEF SessionsInv, Pacing
  <2>3. Paced(q) /\ Greeted(q)
    BY <2>1, <2>2, PacedOn, GreetedOn
  <2>4. Talking(q, done')
    BY <1>2, <2>1, <2>2, <2>3, TalkingOn
  <2> QED BY <2>1, <2>3, <2>4
<1>4. AllSponsored'
  <2> SUFFICES ASSUME NEW i \in (IdsOf(permits) \cup done)'
               PROVE  \E c \in Conns : Sponsors(conn'[c], i)
    BY DEF AllSponsored, Sponsors
  <2>1. CASE i \in IdsOf(permits) \cup done
    <3>1. PICK c \in Conns : Sponsors(conn[c], i)
      BY <2>1 DEF SessionsInv, AllSponsored
    <3>2. Sponsors(conn'[c], i)
      BY <1>0, <1>2, <3>1, SponsorsGoOn DEF Pacing
    <3> QED BY <3>2
  <2>2. CASE \E c \in Conns : PublishBatch(c) /\ i \in IdsOf(ToSet(Kept(c)))
    <3>1. PICK c \in Conns : PublishBatch(c) /\ i \in IdsOf(ToSet(Kept(c)))
      BY <2>2
    <3>2. Sponsors(conn'[c], i)
      BY <1>0, <3>1, PublishSponsors DEF SessionsInv, Pacing
    <3> QED BY <3>2
  <2> QED BY <2>1, <2>2, WhoEnters
<1> QED BY <1>1, <1>3, <1>4 DEF SessionsInv, Pacing, Paced, Greeted, Talking

LEMMA Throughout == SessionSpec => []SessionsInv
BY AtFirst, EachStep, PTL DEF SessionSpec

\* Every frame gets its own answer, in the order of the frames, and an ACK means
\* that all writes of its batch are complete, whatever the connections of handle_client
\* send ahead and however their batches overlap.
THEOREM AnswersFollow == SessionSpec => []AnswersFollowFrames
<1>1. ASSUME SessionsInv PROVE AnswersFollowFrames
  <2> SUFFICES ASSUME NEW c \in Conns
               PROVE  LET a == conn[c].answers
                      IN  /\ conn[c].st = "reading" => Len(a) = Len(Asked(c))
                          /\ conn[c].st = "waiting" => Len(a) + 1 = Len(Asked(c))
                          /\ Len(a) <= Len(Asked(c))
                          /\ \A k \in DOMAIN a :
                               /\ Fits(a[k], Asked(c)[k])
                               /\ a[k] = "error" => k = Len(a) /\ conn[c].st = "closed"
                               /\ a[k] = "ack" => ToSet(Asked(c)[k].batch) \subseteq done
    BY DEF AnswersFollowFrames
  <2> DEFINE a == conn[c].answers
             h == Asked(c)
  <2>1. Dialogue(a, h, done, conn[c].left, conn[c].st)
    BY <1>1 DEF SessionsInv, Talking, Talk, Asked
  <2> HIDE DEF a, h
  <2>2. /\ Len(a) <= Len(h) /\ Matches(a, h, done, conn[c].st)
        /\ conn[c].st = "reading" => Len(a) = Len(h)
        /\ conn[c].st = "waiting" => Len(a) + 1 = Len(h)
    BY <2>1 DEF Dialogue
  <2>3. DOMAIN a = 1 .. Len(a)
    BY <2>1, LenProperties DEF Dialogue
  <2>4. \A k \in DOMAIN a :
          /\ Fits(a[k], h[k])
          /\ a[k] = "error" => k = Len(a) /\ conn[c].st = "closed"
          /\ a[k] = "ack" => ToSet(h[k].batch) \subseteq done
    BY <2>2, <2>3 DEF Matches
  <2> QED BY <2>2, <2>4 DEF a, h
<1> QED BY <1>1, Throughout, PTL

\* Whatever is queued or complete came in a batch of which every write passed
\* validate_and_classify, from a connection that had said hello.
THEOREM OnlyValidEnter == SessionSpec => []OnlyValidBatches
<1>1. SessionsInv => OnlyValidBatches
  BY DEF SessionsInv, AllSponsored, Sponsors, OnlyValidBatches
<1> QED BY <1>1, Throughout, PTL

\* The table behind the handlers is exact: the drop of a permit finds its id.
THEOREM SessionsKeepTheTable == SessionSpec => [](ActiveExact /\ RowsExact)
<1>1. SessionsInv => ActiveExact /\ RowsExact
  BY BooksAreRight DEF SessionsInv
<1> QED BY <1>1, Throughout, PTL

-----------------------------------------------------------------------------
(* Recursive functions: where the value at x depends on the values at what    *)
(* has a smaller measure only, there is such a function.                      *)

\* g says what the value at x is, given the values at what has a smaller measure.
Recursion(D, R, m, b, g) ==
    /\ R # {} /\ b \in Nat
    /\ \A x \in D : m[x] \in Nat /\ m[x] < b
    /\ \A x \in D : \A f \in [D -> R] : g[x][f] \in R
    /\ \A x \in D : \A f, h \in [D -> R] :
         (\A y \in D : m[y] < m[x] => f[y] = h[y]) => g[x][f] = g[x][h]

\* There is a function that g defines.
LEMMA RecursionDefines ==
    ASSUME NEW D, NEW R, NEW m, NEW b, NEW g, Recursion(D, R, m, b, g)
    PROVE  \E f \in [D -> R] : \A x \in D : f[x] = g[x][f]
<1> PICK F : F = [D -> R]
  OBVIOUS
<1>0. /\ b \in Nat /\ \A x \in D : m[x] \in Nat /\ m[x] < b
      /\ \A x \in D : \A f \in F : g[x][f] \in R
      /\ \A x \in D : \A f, h \in F :
           (\A y \in D : m[y] < m[x] => f[y] = h[y]) => g[x][f] = g[x][h]
  BY DEF Recursion
<1> PICK r : r \in R
  BY DEF Recursion
<1> DEFINE T == {k \in Nat : \E f \in F : \A x \in D : m[x] < k => f[x] = g[x][f]}
<1>1. 0 \in T
  <2>1. [x \in D |-> r] \in F
    OBVIOUS
  <2>2. \A x \in D : ~ (m[x] < 0)
    BY <1>0
  <2> QED BY <2>1, <2>2
<1>2. ASSUME NEW k \in T PROVE k + 1 \in T
  <2>1. PICK f \in F : \A x \in D : m[x] < k => f[x] = g[x][f]
    BY <1>2
  <2> DEFINE h == [x \in D |-> IF m[x] < k THEN f[x] ELSE g[x][f]]
  <2>2. h \in F /\ \A x \in D : h[x] = IF m[x] < k THEN f[x] ELSE g[x][f]
    BY <1>0, <2>1
  <2> HIDE DEF h
  <2>3. ASSUME NEW x \in D, m[x] < k + 1 PROVE h[x] = g[x][h]
    <3>1. h[x] = g[x][f]
      BY <2>1, <2>2
    <3>2. \A y \in D : m[y] < m[x] => f[y] = h[y]
      <4> TAKE y \in D
      <4>1. m[x] \in Nat /\ m[y] \in Nat /\ k \in Nat
        BY <1>0, <1>2
      <4>2. m[y] < m[x] => m[y] < k
        BY <2>3, <4>1
      <4> QED BY <2>2, <4>2
    <3>3. g[x][f] = g[x][h]
      BY <1>0, <2>1, <2>2, <3>2
    <3> QED BY <3>1, <3>3
  <2>4. k + 1 \in Nat
    BY <1>2
  <2> QED BY <2>2, <2>3, <2>4
<1>3. T = Nat
  <2> HIDE DEF T
  <2>1. T \in SUBSET Nat
    BY DEF T
  <2> QED BY <1>1, <1>2, <2>1, AllNumbers
<1>4. PICK f \in F : \A x \in D : m[x] < b => f[x] = g[x][f]
  BY <1>0, <1>3
<1> QED BY <1>0, <1>4

-----------------------------------------------------------------------------
(* Positions in a text.                                                      *)

\* The symbols of a text, and what At says of them.
LEMMA TextSymbols ==
    ASSUME NEW t \in Seq(Symbols)
    PROVE  /\ Len(t) \in Nat /\ DOMAIN t = 1 .. Len(t)
           /\ \A i \in 1 .. Len(t) : t[i] \in Symbols /\ t[i] # "end" /\ At(t, i) = t[i]
           /\ \A i : i \notin 1 .. Len(t) => At(t, i) = "end"
<1>1. Len(t) \in Nat /\ DOMAIN t = 1 .. Len(t) /\ \A i \in 1 .. Len(t) : t[i] \in Symbols
  BY LenProperties, ElementOfSeq
<1> QED BY <1>1 DEF At, Symbols

\* The least of a set of numbers.
LEMMA LeastIs ==
    ASSUME NEW S \in SUBSET Nat, S # {}
    PROVE  Min(S) \in S /\ \A x \in S : Min(S) <= x
<1>1. \E n \in S : \A x \in S : n <= x
  BY LeastNumber
<1> QED BY <1>1 DEF Min

\* The first number from i on that is in S, or n + 1.
LEMMA FirstIn ==
    ASSUME NEW n \in Nat, NEW i \in Nat, i <= n + 1, NEW S \in SUBSET i .. n,
           NEW j, j = Min(S \cup {n + 1})
    PROVE  /\ j \in i .. n + 1
           /\ j <= n => j \in S
           /\ \A p \in i .. j - 1 : p \notin S
<1>1. S \cup {n + 1} \in SUBSET Nat
  OBVIOUS
<1>2. j \in S \cup {n + 1} /\ \A x \in S \cup {n + 1} : j <= x
  BY <1>1, LeastIs
<1> QED BY <1>2

\* The lesser of two numbers.
LEMMA LesserIs ==
    ASSUME NEW a \in Nat, NEW b \in Nat
    PROVE  Min({a, b}) = IF a <= b THEN a ELSE b
<1>1. {a, b} \in SUBSET Nat /\ {a, b} # {}
  OBVIOUS
<1>2. Min({a, b}) \in {a, b} /\ \A x \in {a, b} : Min({a, b}) <= x
  BY <1>1, LeastIs
<1> QED BY <1>2

\* The line break that ends a comment is the first one.
LEMMA LineEnds ==
    ASSUME NEW t \in Seq(Symbols), NEW i \in 1 .. Len(t), NEW j, j = AfterLine(t, i)
    PROVE  /\ j \in i .. Len(t) + 1
           /\ j <= Len(t) => t[j] = "nl"
           /\ \A p \in i .. j - 1 : t[p] # "nl"
           /\ t[i] # "nl" => i < j
<1>1. Len(t) \in Nat
  BY TextSymbols
<1> DEFINE S == {p \in i .. Len(t) : t[p] = "nl"}
<1>2. j = Min(S \cup {Len(t) + 1})
  BY DEF AfterLine, FirstFrom
<1>3. S \in SUBSET (i .. Len(t)) /\ i \in Nat /\ i <= Len(t) + 1
  BY <1>1
<1> HIDE DEF S
<1>4. j \in i .. Len(t) + 1 /\ (j <= Len(t) => j \in S) /\ \A p \in i .. j - 1 : p \notin S
  BY <1>1, <1>2, <1>3, FirstIn
<1>5. \A p \in i .. j - 1 : p \in i .. Len(t)
  BY <1>1, <1>4
<1> QED BY <1>1, <1>4, <1>5 DEF S

\* The mark that ends a comment is the first one behind the mark that opens it.
LEMMA BlockEnds ==
    ASSUME NEW t \in Seq(Symbols), NEW i \in 1 .. Len(t), BlockComment(t, i),
           NEW e, e = EndOfBlock(t, i)
    PROVE  /\ i + 1 <= Len(t) /\ t[i] = "/" /\ t[i + 1] = "*"
           /\ e \in i + 2 .. Len(t) + 1
           /\ e <= Len(t) => t[e] = "*" /\ e + 1 <= Len(t) /\ t[e + 1] = "/"
                             /\ AfterBlock(t, i) = e + 2
           /\ \A p \in i + 2 .. e - 1 : ~ (t[p] = "*" /\ At(t, p + 1) = "/")
           /\ AfterBlock(t, i) \in i + 1 .. Len(t) + 1
<1>1. /\ Len(t) \in Nat
      /\ \A p \in 1 .. Len(t) : At(t, p) = t[p]
      /\ \A p : p \notin 1 .. Len(t) => At(t, p) = "end"
  BY TextSymbols
<1>2. t[i] = "/" /\ i + 1 \in 1 .. Len(t) /\ t[i + 1] = "*"
  BY <1>1 DEF BlockComment
<1> DEFINE S == {p \in i + 2 .. Len(t) : t[p] = "*" /\ At(t, p + 1) = "/"}
<1>3. e = Min(S \cup {Len(t) + 1})
  BY DEF EndOfBlock, FirstFrom
<1>4. S \in SUBSET (i + 2 .. Len(t)) /\ i + 2 \in Nat /\ i + 2 <= Len(t) + 1
  BY <1>1, <1>2
<1> HIDE DEF S
<1>5. /\ e \in i + 2 .. Len(t) + 1
      /\ e <= Len(t) => e \in S
      /\ \A p \in i + 2 .. e - 1 : p \notin S
  <2> DEFINE a == i + 2
             n == Len(t)
  <2>1. n \in Nat /\ a \in Nat /\ a <= n + 1 /\ S \in SUBSET (a .. n) /\ e = Min(S \cup {n + 1})
    BY <1>1, <1>3, <1>4
  <2> HIDE DEF a, n
  <2>2. e \in a .. n + 1 /\ (e <= n => e \in S) /\ \A p \in a .. e - 1 : p \notin S
    BY <2>1, FirstIn
  <2> QED BY <2>2 DEF a, n
<1>6. \A p \in i + 2 .. e - 1 : p \in i + 2 .. Len(t)
  BY <1>1, <1>5
<1>7. e <= Len(t) => t[e] = "*" /\ e + 1 <= Len(t) /\ t[e + 1] = "/"
  <2> SUFFICES ASSUME e <= Len(t) PROVE t[e] = "*" /\ e + 1 <= Len(t) /\ t[e + 1] = "/"
    OBVIOUS
  <2>1. t[e] = "*" /\ At(t, e + 1) = "/"
    BY <1>5 DEF S
  <2>2. e + 1 \in 1 .. Len(t)
    BY <1>1, <2>1
  <2> QED BY <1>1, <2>1, <2>2
<1>8. AfterBlock(t, i) = IF e + 2 <= Len(t) + 1 THEN e + 2 ELSE Len(t) + 1
  <2>1. AfterBlock(t, i) = Min({e + 2, Len(t) + 1})
    BY DEF AfterBlock
  <2>2. e + 2 \in Nat /\ Len(t) + 1 \in Nat
    BY <1>1, <1>5
  <2> QED BY <2>1, <2>2, LesserIs
<1>9. AfterBlock(t, i) \in i + 1 .. Len(t) + 1
  BY <1>1, <1>2, <1>5, <1>8
<1>10. e <= Len(t) => AfterBlock(t, i) = e + 2
  BY <1>1, <1>5, <1>7, <1>8
<1>11. \A p \in i + 2 .. e - 1 : ~ (t[p] = "*" /\ At(t, p + 1) = "/")
  BY <1>5, <1>6 DEF S
<1>12. i + 1 <= Len(t)
  BY <1>1, <1>2
<1> QED BY <1>2, <1>5, <1>7, <1>9, <1>10, <1>11, <1>12

\* What follows from what holds further on holds everywhere.
LEMMA Backwards ==
    ASSUME NEW n \in Nat, NEW T \in SUBSET 1 .. n,
           \A p \in 1 .. n : (\A q \in p + 1 .. n : q \in T) => p \in T
    PROVE  \A p \in 1 .. n : p \in T
<1> DEFINE N == {k \in Nat : \A p \in 1 .. n : p > n - k => p \in T}
<1>1. 0 \in N
  OBVIOUS
<1>2. ASSUME NEW k \in N PROVE k + 1 \in N
  <2>1. k \in Nat /\ \A p \in 1 .. n : p > n - k => p \in T
    BY <1>2
  <2>2. ASSUME NEW p \in 1 .. n, p > n - (k + 1) PROVE p \in T
    <3>1. \A q \in p + 1 .. n : q \in 1 .. n /\ q > n - k
      BY <2>1, <2>2
    <3> QED BY <2>1, <3>1
  <2> QED BY <2>1, <2>2
<1>3. N = Nat
  <2> HIDE DEF N
  <2>1. N \in SUBSET Nat
    BY DEF N
  <2> QED BY <1>1, <1>2, <2>1, AllNumbers
<1>4. n \in N
  BY <1>3
<1> QED BY <1>4

-----------------------------------------------------------------------------
(* The position after a quoted value, position by position.                  *)

\* Where a value ends that is open at p and closed by q, given f of what follows.
CloseAt(f, t, q, p) ==
    IF p > Len(t) THEN Unclosed(t)
    ELSE IF t[p] = "backslash" /\ q # "backquote" THEN f[Min({p + 2, Len(t) + 1})]
    ELSE IF t[p] = q THEN IF At(t, p + 1) = q THEN f[p + 2] ELSE p + 1
    ELSE f[p + 1]

Closings(f, t, q) == \A p \in 1 .. Len(t) + 1 : f[p] = CloseAt(f, t, q, p)

\* AfterQuote goes from position to position as CloseAt says.
LEMMA QuoteClosing ==
    ASSUME NEW t \in Seq(Symbols), NEW i \in 1 .. Len(t), t[i] \in {"quote", "backquote"}
    PROVE  \E f : Closings(f, t, t[i]) /\ AfterQuote(t, i) = f[i + 1]
<1> DEFINE n == Len(t)
           q == t[i]
           D == 1 .. n + 1
           m == [p \in D |-> n + 1 - p]
           g == [p \in D |-> [f \in [D -> Nat] |-> CloseAt(f, t, q, p)]]
           close == CHOOSE f : f = [p \in D |->
             CASE p > n -> Unclosed(t)
               [] p <= n /\ t[p] = "backslash" /\ t[i] # "backquote"
                    -> f[Min({p + 2, n + 1})]
               [] p <= n /\ t[p] = t[i]
                    -> IF At(t, p + 1) = t[i] THEN f[p + 2] ELSE p + 1
               [] OTHER -> f[p + 1]]
<1>1. n \in Nat /\ \A p : p \notin 1 .. n => At(t, p) = "end"
  BY TextSymbols
<1>2. AfterQuote(t, i) = close[i + 1]
  BY DEF AfterQuote, Unclosed
<1>3. \A p \in D : p <= n => Min({p + 2, n + 1}) \in p + 1 .. n + 1
  <2> TAKE p \in D
  <2>1. p + 2 \in Nat /\ n + 1 \in Nat
    BY <1>1
  <2> QED BY <1>1, <2>1, LesserIs
<1>4. \A p \in D : p <= n /\ At(t, p + 1) = q => p + 2 \in D
  <2> TAKE p \in D
  <2>1. q # "end"
    OBVIOUS
  <2>2. At(t, p + 1) = q => p + 1 \in 1 .. n
    BY <1>1, <2>1
  <2> QED BY <1>1, <2>2
<1>5. \A p \in D, f \in [D -> Nat] : CloseAt(f, t, q, p) \in Nat
  <2> TAKE p \in D, f \in [D -> Nat]
  <2>1. CASE p > n
    BY <1>1, <2>1 DEF CloseAt, Unclosed
  <2>2. CASE p <= n
    <3>1. Min({p + 2, n + 1}) \in D /\ p + 1 \in D /\ p \in Nat
      BY <1>1, <1>3, <2>2
    <3>2. ~ (p > n) /\ p + 1 \in Nat
      BY <1>1, <2>2
    <3>3. f[Min({p + 2, n + 1})] \in Nat /\ f[p + 1] \in Nat
          /\ (At(t, p + 1) = q => f[p + 2] \in Nat)
      BY <1>4, <2>2, <3>1
    <3> HIDE DEF q, D
    <3> QED BY <3>2, <3>3 DEF CloseAt, n
  <2> QED BY <1>1, <2>1, <2>2
<1>6. g \in [D -> [[D -> Nat] -> Nat]] /\ m \in [D -> Nat] /\ \A p \in D : m[p] < n + 1
  BY <1>1, <1>5
<1>7. ASSUME NEW p \in D, NEW f \in [D -> Nat], NEW h \in [D -> Nat],
             \A y \in D : m[y] < m[p] => f[y] = h[y]
      PROVE  g[p][f] = g[p][h]
  <2>1. g[p][f] = CloseAt(f, t, q, p) /\ g[p][h] = CloseAt(h, t, q, p)
    OBVIOUS
  <2>2. \A y \in D : y > p => f[y] = h[y]
    BY <1>1, <1>7
  <2>3. CASE p > n
    BY <2>1, <2>3 DEF CloseAt
  <2>4. CASE p <= n
    <3>1. Min({p + 2, n + 1}) \in D /\ p + 1 \in D /\ Min({p + 2, n + 1}) > p /\ p + 1 > p
      BY <1>1, <1>3, <2>4
    <3>2. /\ f[Min({p + 2, n + 1})] = h[Min({p + 2, n + 1})]
          /\ f[p + 1] = h[p + 1]
          /\ At(t, p + 1) = q => f[p + 2] = h[p + 2]
      BY <1>1, <1>4, <2>2, <2>4, <3>1
    <3> HIDE DEF q, D
    <3> QED BY <2>1, <3>2 DEF CloseAt, n
  <2> QED BY <1>1, <2>3, <2>4
<1>8. \E f \in [D -> Nat] : \A p \in D : f[p] = g[p][f]
  <2> HIDE DEF g, m, D
  <2>1. n + 1 \in Nat /\ 0 \in Nat
    BY <1>1
  <2>2. \A x \in D : \A f, h \in [D -> Nat] :
          (\A y \in D : m[y] < m[x] => f[y] = h[y]) => g[x][f] = g[x][h]
    BY <1>7
  <2>3. \A x \in D : m[x] \in Nat /\ m[x] < n + 1
    BY <1>6
  <2>4. \A x \in D : \A f \in [D -> Nat] : g[x][f] \in Nat
    BY <1>6
  <2>5. Recursion(D, Nat, m, n + 1, g)
    BY <2>1, <2>2, <2>3, <2>4 DEF Recursion
  <2> HIDE DEF close, n, q
  <2> QED BY <2>5, RecursionDefines
<1>9. PICK f \in [D -> Nat] : \A p \in D : f[p] = CloseAt(f, t, q, p)
  BY <1>8
<1> DEFINE case(h, p) ==
             CASE p > n -> Unclosed(t)
               [] p <= n /\ t[p] = "backslash" /\ t[i] # "backquote"
                    -> h[Min({p + 2, n + 1})]
               [] p <= n /\ t[p] = t[i]
                    -> IF At(t, p + 1) = t[i] THEN h[p + 2] ELSE p + 1
               [] OTHER -> h[p + 1]
<1>10. \A h : \A p \in D : case(h, p) = CloseAt(h, t, q, p)
  <2> TAKE h
  <2> TAKE p \in D
  <2>1. CASE p > n
    BY <1>1, <2>1 DEF CloseAt
  <2>2. CASE p <= n /\ t[p] = "backslash" /\ t[i] # "backquote"
    BY <1>1, <2>2 DEF CloseAt
  <2>3. CASE p <= n /\ ~ (t[p] = "backslash" /\ t[i] # "backquote")
    BY <1>1, <2>3 DEF CloseAt
  <2> QED BY <1>1, <2>1, <2>2, <2>3
<1>11. close = [p \in D |-> case(close, p)]
  <2>1. f = [p \in D |-> case(f, p)]
    <3> HIDE DEF case, D
    <3> QED BY <1>9, <1>10
  <2>2. \E h : h = [p \in D |-> case(h, p)]
    BY <2>1
  <2> HIDE DEF D
  <2> QED BY <2>2
<1> HIDE DEF close
<1>12. \A p \in D : close[p] = case(close, p)
  <2> HIDE DEF case, D
  <2> QED BY <1>11, Zenon
<1>13. Closings(close, t, q)
  <2> HIDE DEF case
  <2> QED BY <1>10, <1>12 DEF Closings
<1> QED BY <1>2, <1>13

\* A quoted value ends behind its start or not at all.
LEMMA QuoteEnds ==
    ASSUME NEW t \in Seq(Symbols), NEW i \in 1 .. Len(t), t[i] \in {"quote", "backquote"}
    PROVE  \/ AfterQuote(t, i) = Unclosed(t)
           \/ AfterQuote(t, i) \in i + 1 .. Len(t) + 1
<1> DEFINE n == Len(t)
           q == t[i]
<1>1. n \in Nat /\ (\A p : p \notin 1 .. n => At(t, p) = "end") /\ q # "end"
  BY TextSymbols
<1>2. PICK f : Closings(f, t, q) /\ AfterQuote(t, i) = f[i + 1]
  BY QuoteClosing
<1> HIDE DEF q
<1> DEFINE T == {p \in 1 .. n + 1 : f[p] = Unclosed(t) \/ f[p] \in p + 1 .. n + 1}
<1>3. ASSUME NEW p \in 1 .. n + 1, \A r \in p + 1 .. n + 1 : r \in T
      PROVE  p \in T
  <2>1. f[p] = CloseAt(f, t, q, p)
    BY <1>2 DEF Closings
  <2>2. \A r \in p + 1 .. n + 1 : f[r] = Unclosed(t) \/ f[r] \in p + 1 .. n + 1
    BY <1>1, <1>3
  <2>3. CASE p > n
    BY <2>1, <2>3 DEF CloseAt
  <2>4. CASE p <= n
    <3>1. Min({p + 2, n + 1}) \in p + 1 .. n + 1
      <4>1. p + 2 \in Nat /\ n + 1 \in Nat
        BY <1>1
      <4> QED BY <1>1, <2>4, <4>1, LesserIs
    <3>2. At(t, p + 1) = q => p + 2 \in p + 1 .. n + 1
      <4>1. At(t, p + 1) = q => p + 1 \in 1 .. n
        BY <1>1
      <4> QED BY <1>1, <4>1
    <3>3. p + 1 \in p + 1 .. n + 1
      BY <1>1, <2>4
    <3>4. CASE t[p] = "backslash" /\ q # "backquote"
      BY <2>1, <2>2, <2>4, <3>1, <3>4 DEF CloseAt
    <3>5. CASE ~ (t[p] = "backslash" /\ q # "backquote") /\ t[p] = q /\ At(t, p + 1) = q
      BY <2>1, <2>2, <2>4, <3>2, <3>5 DEF CloseAt
    <3>6. CASE ~ (t[p] = "backslash" /\ q # "backquote") /\ t[p] = q /\ At(t, p + 1) # q
      BY <2>1, <2>4, <3>3, <3>6 DEF CloseAt
    <3>7. CASE ~ (t[p] = "backslash" /\ q # "backquote") /\ t[p] # q
      BY <2>1, <2>2, <2>4, <3>3, <3>7 DEF CloseAt
    <3> QED BY <3>4, <3>5, <3>6, <3>7
  <2> QED BY <1>1, <2>3, <2>4
<1>4. \A p \in 1 .. n + 1 : p \in T
  <2> HIDE DEF T
  <2>1. T \in SUBSET (1 .. n + 1) /\ n + 1 \in Nat
    BY <1>1 DEF T
  <2> QED BY <1>3, <2>1, Backwards
<1>5. i + 1 \in 1 .. n + 1
  BY <1>1
<1>6. f[i + 1] = Unclosed(t) \/ f[i + 1] \in (i + 1) + 1 .. n + 1
  BY <1>4, <1>5
<1> QED BY <1>1, <1>2, <1>6

-----------------------------------------------------------------------------
(* The validator, position by position.                                      *)

Verdicts ==
    {"ok", "nul", "executable", "open comment", "two statements", "open quote"}

\* What is said of the text from i on, given f of what follows.
VerdictAt(f, t, i, ended) ==
    IF At(t, i) = "end" THEN "ok"
    ELSE IF At(t, i) = "nul" THEN "nul"
    ELSE IF At(t, i) \in White THEN f[i + 1][ended]
    ELSE IF LineComment(t, i) THEN f[AfterLine(t, i)][ended]
    ELSE IF BlockComment(t, i)
         THEN IF At(t, i + 2) = "!" THEN "executable"
              ELSE IF EndOfBlock(t, i) > Len(t) THEN "open comment"
              ELSE f[AfterBlock(t, i)][ended]
    ELSE IF ended THEN "two statements"
    ELSE IF t[i] = ";" THEN f[i + 1][TRUE]
    ELSE IF t[i] \notin {"quote", "backquote"} THEN f[i + 1][FALSE]
    ELSE IF AfterQuote(t, i) = Unclosed(t) THEN "open quote"
    ELSE f[AfterQuote(t, i)][FALSE]

Scanning(f, t) ==
    \A i \in 1 .. Len(t) + 1 : \A ended \in BOOLEAN : f[i][ended] = VerdictAt(f, t, i, ended)

\* The positions VerdictAt looks at are behind i.
LEMMA Jumps ==
    ASSUME NEW t \in Seq(Symbols), NEW i \in 1 .. Len(t)
    PROVE  LET later == i + 1 .. Len(t) + 1
           IN /\ i + 1 \in later
              /\ LineComment(t, i) => AfterLine(t, i) \in later
              /\ BlockComment(t, i) => AfterBlock(t, i) \in later
              /\ t[i] \in {"quote", "backquote"} /\ AfterQuote(t, i) # Unclosed(t)
                   => AfterQuote(t, i) \in later
<1>1. Len(t) \in Nat /\ At(t, i) = t[i]
  BY TextSymbols
<1>2. LineComment(t, i) => AfterLine(t, i) \in i + 1 .. Len(t) + 1
  <2>1. LineComment(t, i) => t[i] # "nl"
    BY <1>1 DEF LineComment
  <2>2. PICK j : j = AfterLine(t, i)
    OBVIOUS
  <2>3. j \in i .. Len(t) + 1 /\ (t[i] # "nl" => i < j)
    BY <2>2, LineEnds
  <2> QED BY <1>1, <2>1, <2>2, <2>3
<1>3. BlockComment(t, i) => AfterBlock(t, i) \in i + 1 .. Len(t) + 1
  BY BlockEnds
<1> QED BY <1>1, <1>2, <1>3, QuoteEnds

\* VerdictAt depends on what f says of later positions only.
LEMMA VerdictLocal ==
    ASSUME NEW t \in Seq(Symbols), NEW i \in 1 .. Len(t) + 1, NEW e \in BOOLEAN, NEW f, NEW h,
           \A j \in i + 1 .. Len(t) + 1 : \A d \in BOOLEAN : f[j][d] = h[j][d]
    PROVE  VerdictAt(f, t, i, e) = VerdictAt(h, t, i, e)
<1>1. Len(t) \in Nat /\ (\A j : j \notin 1 .. Len(t) => At(t, j) = "end")
  BY TextSymbols
<1>2. CASE i \notin 1 .. Len(t)
  BY <1>1, <1>2 DEF VerdictAt
<1>3. CASE i \in 1 .. Len(t)
  <2>1. /\ f[i + 1][e] = h[i + 1][e]
        /\ f[i + 1][TRUE] = h[i + 1][TRUE] /\ f[i + 1][FALSE] = h[i + 1][FALSE]
        /\ LineComment(t, i) => f[AfterLine(t, i)][e] = h[AfterLine(t, i)][e]
        /\ BlockComment(t, i) => f[AfterBlock(t, i)][e] = h[AfterBlock(t, i)][e]
        /\ t[i] \in {"quote", "backquote"} /\ AfterQuote(t, i) # Unclosed(t)
             => f[AfterQuote(t, i)][FALSE] = h[AfterQuote(t, i)][FALSE]
    BY <1>3, Jumps
  <2> QED BY <2>1 DEF VerdictAt
<1> QED BY <1>2, <1>3

\* Every position has a verdict.
LEMMA VerdictType ==
    ASSUME NEW t \in Seq(Symbols), NEW i \in 1 .. Len(t) + 1, NEW e \in BOOLEAN, NEW f,
           \A j \in 1 .. Len(t) + 1 : \A d \in BOOLEAN : f[j][d] \in Verdicts
    PROVE  VerdictAt(f, t, i, e) \in Verdicts
<1>1. Len(t) \in Nat /\ (\A j : j \notin 1 .. Len(t) => At(t, j) = "end")
  BY TextSymbols
<1>2. CASE i \notin 1 .. Len(t)
  BY <1>1, <1>2 DEF VerdictAt, Verdicts
<1>3. CASE i \in 1 .. Len(t)
  <2>0. \A j \in i + 1 .. Len(t) + 1 : j \in 1 .. Len(t) + 1
    BY <1>1
  <2>1. /\ f[i + 1][e] \in Verdicts
        /\ f[i + 1][TRUE] \in Verdicts /\ f[i + 1][FALSE] \in Verdicts
        /\ LineComment(t, i) => f[AfterLine(t, i)][e] \in Verdicts
        /\ BlockComment(t, i) => f[AfterBlock(t, i)][e] \in Verdicts
        /\ t[i] \in {"quote", "backquote"} /\ AfterQuote(t, i) # Unclosed(t)
             => f[AfterQuote(t, i)][FALSE] \in Verdicts
    BY <1>3, <2>0, Jumps
  <2>2. {"ok", "nul", "executable", "open comment", "two statements", "open quote"}
          \subseteq Verdicts
    BY DEF Verdicts
  <2> QED BY <2>1, <2>2 DEF VerdictAt
<1> QED BY <1>2, <1>3

\* Verdict goes from position to position as VerdictAt says.
LEMMA VerdictScans ==
    ASSUME NEW t \in Seq(Symbols)
    PROVE  \E f : Scanning(f, t) /\ Verdict(t) = f[1][FALSE]
<1> DEFINE n == Len(t)
           D == 1 .. n + 1
           R == [BOOLEAN -> Verdicts]
           m == [i \in D |-> n + 1 - i]
           g == [i \in D |-> [f \in [D -> R] |-> [e \in BOOLEAN |-> VerdictAt(f, t, i, e)]]]
           case(h, i, ended) ==
             CASE At(t, i) = "end"      -> "ok"
               [] At(t, i) = "nul"      -> "nul"
               [] At(t, i) \in White    -> h[i + 1][ended]
               [] LineComment(t, i)     -> h[AfterLine(t, i)][ended]
               [] BlockComment(t, i)    ->
                    IF At(t, i + 2) = "!" THEN "executable"
                    ELSE IF EndOfBlock(t, i) > Len(t) THEN "open comment"
                    ELSE h[AfterBlock(t, i)][ended]
               [] OTHER ->
                    IF ended THEN "two statements"
                    ELSE IF t[i] = ";" THEN h[i + 1][TRUE]
                    ELSE IF t[i] \notin {"quote", "backquote"} THEN h[i + 1][FALSE]
                    ELSE IF AfterQuote(t, i) = Unclosed(t) THEN "open quote"
                    ELSE h[AfterQuote(t, i)][FALSE]
           scan == CHOOSE h :
             h = [i \in 1 .. Len(t) + 1 |-> [ended \in BOOLEAN |-> case(h, i, ended)]]
<1>1. n \in Nat
  BY TextSymbols
<1>2. Verdict(t) = scan[1][FALSE]
  BY DEF Verdict
<1>3. \A h : \A i \in D, e \in BOOLEAN : case(h, i, e) = VerdictAt(h, t, i, e)
  <2> TAKE h
  <2> TAKE i \in D, e \in BOOLEAN
  <2>1. CASE At(t, i) = "end"
    BY <2>1 DEF VerdictAt, White, LineComment, BlockComment
  <2>2. CASE At(t, i) = "nul"
    BY <2>2 DEF VerdictAt, White, LineComment, BlockComment
  <2>3. CASE At(t, i) \in White
    BY <2>3 DEF VerdictAt, White, LineComment, BlockComment
  <2>4. CASE At(t, i) \notin White \cup {"end", "nul"}
    <3>1. CASE LineComment(t, i)
      BY <2>4, <3>1 DEF VerdictAt, LineComment, BlockComment
    <3>2. CASE ~ LineComment(t, i)
      BY <2>4, <3>2 DEF VerdictAt
    <3> QED BY <3>1, <3>2
  <2> QED BY <2>1, <2>2, <2>3, <2>4
<1> HIDE DEF case
<1>4. PICK f \in [D -> R] : \A i \in D : f[i] = [e \in BOOLEAN |-> VerdictAt(f, t, i, e)]
  <2>1. \A i \in D : m[i] \in Nat /\ m[i] < n + 1
    BY <1>1
  <2>2. \A i \in D : \A h \in [D -> R] : g[i][h] = [e \in BOOLEAN |-> VerdictAt(h, t, i, e)]
    OBVIOUS
  <2>3. \A i \in D : \A h \in [D -> R] : g[i][h] \in R
    <3> TAKE i \in D
    <3> TAKE h \in [D -> R]
    <3>1. \A j \in D : \A d \in BOOLEAN : h[j][d] \in Verdicts
      OBVIOUS
    <3>2. \A e \in BOOLEAN : VerdictAt(h, t, i, e) \in Verdicts
      BY <3>1, VerdictType
    <3> QED BY <2>2, <3>2
  <2>4. \A i \in D : \A f, h \in [D -> R] :
          (\A j \in D : m[j] < m[i] => f[j] = h[j]) => g[i][f] = g[i][h]
    <3> TAKE i \in D
    <3> TAKE f, h \in [D -> R]
    <3> HAVE \A j \in D : m[j] < m[i] => f[j] = h[j]
    <3>1. \A j \in i + 1 .. n + 1 : \A d \in BOOLEAN : f[j][d] = h[j][d]
      BY <1>1
    <3>2. \A e \in BOOLEAN : VerdictAt(f, t, i, e) = VerdictAt(h, t, i, e)
      BY <3>1, VerdictLocal
    <3> QED BY <2>2, <3>2
  <2>5. [e \in BOOLEAN |-> "ok"] \in R
    BY DEF Verdicts
  <2>6. n + 1 \in Nat /\ R # {}
    <3> HIDE DEF R, scan
    <3> QED BY <1>1, <2>5
  <2> HIDE DEF g, m, D, n, R
  <2>7. Recursion(D, R, m, n + 1, g)
    BY <2>1, <2>3, <2>4, <2>6 DEF Recursion
  <2>8. \E h \in [D -> R] : \A i \in D : h[i] = g[i][h]
    BY <2>7, RecursionDefines
  <2> QED BY <2>2, <2>8
<1>5. scan = [i \in D |-> [ended \in BOOLEAN |-> case(scan, i, ended)]]
  <2>1. f = [i \in D |-> [ended \in BOOLEAN |-> case(f, i, ended)]]
    <3>1. \A i \in D : f[i] = [ended \in BOOLEAN |-> case(f, i, ended)]
      BY <1>3, <1>4
    <3> HIDE DEF D, R
    <3> QED BY <3>1
  <2>2. \E h : h = [i \in D |-> [ended \in BOOLEAN |-> case(h, i, ended)]]
    BY <2>1
  <2> QED BY <2>2
<1> HIDE DEF scan
<1>6. \A i \in D : \A e \in BOOLEAN : scan[i][e] = case(scan, i, e)
  BY <1>5
<1>7. Scanning(scan, t)
  BY <1>3, <1>6 DEF Scanning
<1> QED BY <1>2, <1>7

-----------------------------------------------------------------------------
(* The reader that goes one symbol at a time.                                *)

\* What the code of a text is made of.
Codes == Symbols \cup {" ", "<literal>", "<name>", "-", "/"}

Modes == {"code", "line", "opened", "block", "star", "executable", "literal", "escape", "name"}

States == [mode : Modes, code : Seq(Codes)]

Reader(mode, code) == [mode |-> mode, code |-> code]

\* r[k]: what the reader has after k symbols.
Readings(r, t) ==
    /\ r[0] = Reader("code", <<>>)
    /\ \A k \in 1 .. Len(t) : r[k] = Read(r[k - 1], t[k])

\* What it adds: a blank for the last n symbols, which began a comment.
CutOff(code, n) == SubSeq(code, 1, Len(code) - n) \o <<" ">>

LastOf(code) == At(code, Len(code))

LastButOne(code) == At(code, Len(code) - 1)

\* A state of the reader is its mode and its code.
LEMMA ReaderIs ==
    /\ \A m \in Modes, d \in Seq(Codes) : Reader(m, d) \in States
    /\ \A m, d : Reader(m, d).mode = m /\ Reader(m, d).code = d
    /\ \A a \in States : a.mode \in Modes /\ a.code \in Seq(Codes) /\ a = Reader(a.mode, a.code)
  BY DEF Reader, States

\* What the reader does within a comment,
LEMMA ReadComment ==
    ASSUME NEW a \in States, NEW c
    PROVE  /\ a.mode = "line" => Read(a, c) = Reader(IF c = "nl" THEN "code" ELSE "line", a.code)
           /\ a.mode = "opened" =>
                Read(a, c) = Reader(IF c = "!" THEN "executable"
                                    ELSE IF c = "*" THEN "star" ELSE "block", a.code)
           /\ a.mode = "block" => Read(a, c) = Reader(IF c = "*" THEN "star" ELSE "block", a.code)
           /\ a.mode = "star" =>
                Read(a, c) = Reader(IF c = "/" THEN "code"
                                    ELSE IF c = "*" THEN "star" ELSE "block", a.code)
           /\ a.mode = "executable" => Read(a, c) = a
<1>1. \A m : [a EXCEPT !.mode = m] = Reader(m, a.code)
  BY DEF States, Reader
<1>2. a.mode = "line" => Read(a, c) = [a EXCEPT !.mode = IF c = "nl" THEN "code" ELSE "line"]
  BY DEF Read
<1>3. a.mode = "opened" =>
        Read(a, c) = [a EXCEPT !.mode = IF c = "!" THEN "executable"
                                        ELSE IF c = "*" THEN "star" ELSE "block"]
  BY DEF Read
<1>4. a.mode = "block" => Read(a, c) = [a EXCEPT !.mode = IF c = "*" THEN "star" ELSE "block"]
  BY DEF Read
<1>5. a.mode = "star" =>
        Read(a, c) = [a EXCEPT !.mode = IF c = "/" THEN "code"
                                        ELSE IF c = "*" THEN "star" ELSE "block"]
  BY DEF Read
<1>6. a.mode = "executable" => Read(a, c) = a
  BY DEF Read
<1> QED BY <1>1, <1>2, <1>3, <1>4, <1>5, <1>6, Zenon

\* within quotes,
LEMMA ReadQuoted ==
    ASSUME NEW a \in States, NEW c
    PROVE  /\ a.mode = "literal" =>
                Read(a, c) = Reader(IF c = "backslash" THEN "escape"
                                    ELSE IF c = "quote" THEN "code" ELSE "literal", a.code)
           /\ a.mode = "escape" => Read(a, c) = Reader("literal", a.code)
           /\ a.mode = "name" =>
                Read(a, c) = Reader(IF c = "backquote" THEN "code" ELSE "name", a.code)
<1>1. \A m : [a EXCEPT !.mode = m] = Reader(m, a.code)
  BY DEF States, Reader
<1>2. a.mode = "literal" =>
        Read(a, c) = [a EXCEPT !.mode = IF c = "backslash" THEN "escape"
                                        ELSE IF c = "quote" THEN "code" ELSE "literal"]
  BY DEF Read
<1>3. a.mode = "escape" => Read(a, c) = [a EXCEPT !.mode = "literal"]
  BY DEF Read
<1>4. a.mode = "name" =>
        Read(a, c) = [a EXCEPT !.mode = IF c = "backquote" THEN "code" ELSE "name"]
  BY DEF Read
<1> QED BY <1>1, <1>2, <1>3, <1>4, Zenon

\* and in code, where a symbol may start or end something.
Begins(code, c) ==
    \/ c \in {"#", "quote", "backquote"}
    \/ c = "*" /\ LastOf(code) = "/"
    \/ c \in White /\ LastOf(code) = "-" /\ LastButOne(code) = "-"

\* Each symbol that begins or ends something, and any other symbol.
LEMMA ReadCode ==
    ASSUME NEW a \in States, NEW c, a.mode = "code"
    PROVE  /\ c = "#" => Read(a, c) = Reader("line", CutOff(a.code, 0))
           /\ c = "quote" => Read(a, c) = Reader("literal", Append(a.code, "<literal>"))
           /\ c = "backquote" => Read(a, c) = Reader("name", Append(a.code, "<name>"))
           /\ c = "*" /\ LastOf(a.code) = "/" => Read(a, c) = Reader("opened", CutOff(a.code, 1))
           /\ c \in White /\ LastOf(a.code) = "-" /\ LastButOne(a.code) = "-" =>
                Read(a, c) = Reader(IF c = "nl" THEN "code" ELSE "line", CutOff(a.code, 2))
           /\ ~ Begins(a.code, c) => Read(a, c) = Reader("code", Append(a.code, c))
<1>1. \A m, d : [a EXCEPT !.code = d, !.mode = m] = Reader(m, d)
  <2> TAKE m, d
  <2>1. a = [mode |-> a.mode, code |-> a.code]
    BY DEF States
  <2>2. [a EXCEPT !.code = d] = [mode |-> a.mode, code |-> d]
    BY <2>1
  <2>3. [[mode |-> a.mode, code |-> d] EXCEPT !.mode = m] = [mode |-> m, code |-> d]
    OBVIOUS
  <2>4. [[a EXCEPT !.code = d] EXCEPT !.mode = m] = [mode |-> m, code |-> d]
    BY <2>2, <2>3, Zenon
  <2>5. [a EXCEPT !.code = d, !.mode = m] = [[a EXCEPT !.code = d] EXCEPT !.mode = m]
    OBVIOUS
  <2> QED BY <2>4, <2>5, Zenon DEF Reader
<1>2. c = "#" => Read(a, c) = [a EXCEPT !.code = CutOff(a.code, 0), !.mode = "line"]
  BY DEF Read, CutOff, White
<1>3. c = "quote" =>
        Read(a, c) = [a EXCEPT !.code = Append(a.code, "<literal>"), !.mode = "literal"]
  BY DEF Read, White
<1>4. c = "backquote" =>
        Read(a, c) = [a EXCEPT !.code = Append(a.code, "<name>"), !.mode = "name"]
  BY DEF Read, White
<1>5. c = "*" /\ LastOf(a.code) = "/" =>
        Read(a, c) = [a EXCEPT !.code = CutOff(a.code, 1), !.mode = "opened"]
  BY DEF Read, CutOff, LastOf
<1>6. c \in White /\ LastOf(a.code) = "-" /\ LastButOne(a.code) = "-" =>
        Read(a, c) = [a EXCEPT !.code = CutOff(a.code, 2),
                               !.mode = IF c = "nl" THEN "code" ELSE "line"]
  BY DEF Read, CutOff, LastOf, LastButOne, White
<1>7. ~ Begins(a.code, c) => Read(a, c) = [a EXCEPT !.code = Append(a.code, c), !.mode = "code"]
  BY DEF Read, Begins, LastOf, LastButOne
<1> QED BY <1>1, <1>2, <1>3, <1>4, <1>5, <1>6, <1>7, Zenon

\* The symbols that stand for what is no code.
LEMMA CodeSymbols ==
    /\ Symbols \subseteq Codes
    /\ " " \in Codes /\ "<literal>" \in Codes /\ "<name>" \in Codes
    /\ "-" \in Codes /\ "/" \in Codes
  BY DEF Codes

\* The positions of code, and what At says of them.
LEMMA CodePositions ==
    ASSUME NEW code \in Seq(Codes)
    PROVE  /\ Len(code) \in Nat /\ DOMAIN code = 1 .. Len(code)
           /\ \A k \in 1 .. Len(code) : code[k] \in Codes /\ At(code, k) = code[k]
           /\ \A k : k \notin 1 .. Len(code) => At(code, k) = "end"
<1>1. /\ Len(code) \in Nat /\ DOMAIN code = 1 .. Len(code)
      /\ \A k \in 1 .. Len(code) : code[k] \in Codes
  BY LenProperties, ElementOfSeq
<1> QED BY <1>1 DEF At

\* Code with a symbol more.
LEMMA CodeAppended ==
    ASSUME NEW code \in Seq(Codes), NEW x \in Codes
    PROVE  /\ Append(code, x) \in Seq(Codes)
           /\ Len(Append(code, x)) = Len(code) + 1
           /\ \A k \in 1 .. Len(code) : Append(code, x)[k] = code[k]
           /\ Append(code, x)[Len(code) + 1] = x
           /\ LastOf(Append(code, x)) = x
           /\ LastButOne(Append(code, x)) = LastOf(code)
<1> DEFINE d == Append(code, x)
<1>1. /\ d \in Seq(Codes) /\ Len(d) = Len(code) + 1
      /\ (\A k \in 1 .. Len(code) : d[k] = code[k]) /\ d[Len(code) + 1] = x
  BY AppendProperties
<1> HIDE DEF d
<1>2. /\ Len(code) \in Nat
      /\ \A k \in 1 .. Len(code) : At(code, k) = code[k]
      /\ \A k : k \notin 1 .. Len(code) => At(code, k) = "end"
  BY CodePositions
<1>3. /\ \A k \in 1 .. Len(code) + 1 : At(d, k) = d[k]
      /\ \A k : k \notin 1 .. Len(code) + 1 => At(d, k) = "end"
  BY <1>1, CodePositions
<1>4. LastOf(d) = x
  BY <1>1, <1>2, <1>3 DEF LastOf
<1>5. LastButOne(d) = LastOf(code)
  <2>1. Len(d) - 1 = Len(code)
    BY <1>1, <1>2
  <2>2. CASE Len(code) = 0
    <3>1. At(code, 0) = "end" /\ At(d, 0) = "end"
      BY <1>2, <1>3
    <3> QED BY <2>1, <2>2, <3>1 DEF LastOf, LastButOne
  <2>3. CASE Len(code) # 0
    <3>1. Len(code) \in 1 .. Len(code) /\ Len(code) \in 1 .. Len(code) + 1
      BY <1>2, <2>3
    <3> QED BY <1>1, <1>2, <1>3, <2>1, <3>1 DEF LastOf, LastButOne
  <2> QED BY <2>2, <2>3
<1> QED BY <1>1, <1>4, <1>5 DEF d

\* The last symbols of code give way to a blank.
LEMMA CutOffMakes ==
    ASSUME NEW code \in Seq(Codes), NEW n \in 0 .. Len(code)
    PROVE  /\ CutOff(code, n) \in Seq(Codes)
           /\ Len(CutOff(code, n)) = Len(code) - n + 1
           /\ \A k \in 1 .. Len(code) - n : CutOff(code, n)[k] = code[k]
           /\ CutOff(code, n)[Len(code) - n + 1] = " "
<1> DEFINE m == Len(code) - n
           d == SubSeq(code, 1, m)
           one == <<" ">>
<1>1. Len(code) \in Nat /\ \A k \in 1 .. Len(code) : code[k] \in Codes
  BY CodePositions
<1>2. m \in 0 .. Len(code)
  BY <1>1
<1>3. d \in Seq(Codes) /\ Len(d) = m /\ \A k \in 1 .. m : d[k] = code[k]
  <2>1. \A k \in 1 .. m : code[k] \in Codes
    BY <1>1, <1>2
  <2>2. m \in Int /\ 1 \in Int
    BY <1>1, <1>2
  <2>3. /\ d \in Seq(Codes) /\ Len(d) = IF 1 <= m THEN m - 1 + 1 ELSE 0
        /\ \A k \in 1 .. m - 1 + 1 : d[k] = code[1 + k - 1]
    <3> HIDE DEF m
    <3> QED BY <2>1, <2>2, SubSeqProperties
  <2> QED BY <1>1, <1>2, <2>3
<1>4. one \in Seq(Codes) /\ Len(one) = 1 /\ one[1] = " "
  <2>1. <<>> \in Seq(Codes) /\ " " \in Codes
    BY CodeSymbols, EmptySeq
  <2>2. one = Append(<<>>, " ")
    OBVIOUS
  <2> HIDE DEF m, d, one
  <2>3. one \in Seq(Codes)
    BY <2>1, <2>2, AppendProperties
  <2> QED BY <2>3 DEF one
<1> HIDE DEF m, d, one
<1>5. /\ d \o one \in Seq(Codes) /\ Len(d \o one) = m + 1
      /\ \A k \in 1 .. m + 1 : (d \o one)[k] = IF k <= m THEN d[k] ELSE one[k - m]
  <2>1. /\ d \o one \in Seq(Codes) /\ Len(d \o one) = Len(d) + Len(one)
        /\ \A k \in 1 .. Len(d) + Len(one) :
             (d \o one)[k] = IF k <= Len(d) THEN d[k] ELSE one[k - Len(d)]
    BY <1>3, <1>4, ConcatProperties
  <2> QED BY <1>3, <1>4, <2>1
<1>6. CutOff(code, n) = d \o one
  BY DEF CutOff, d, one, m
<1>7. \A k \in 1 .. m : (d \o one)[k] = code[k]
  <2> TAKE k \in 1 .. m
  <2>1. k \in 1 .. m + 1 /\ k <= m
    BY <1>2
  <2> QED BY <1>3, <1>5, <2>1
<1>8. m + 1 \in 1 .. m + 1 /\ ~ (m + 1 <= m) /\ (m + 1) - m = 1
  BY <1>2
<1>9. (d \o one)[m + 1] = " "
  BY <1>4, <1>5, <1>8
<1> QED BY <1>5, <1>6, <1>7, <1>9 DEF m

\* A comment becomes a blank, whatever symbols had begun it.
LEMMA CutOffBack ==
    ASSUME NEW code \in Seq(Codes), NEW x \in Codes, NEW y \in Codes
    PROVE  /\ CutOff(code, 0) = Append(code, " ")
           /\ CutOff(Append(code, x), 1) = Append(code, " ")
           /\ CutOff(Append(Append(code, x), y), 2) = Append(code, " ")
<1> DEFINE a == Append(code, x)
           b == Append(a, y)
           c == Append(code, " ")
<1>1. Len(code) \in Nat
  BY CodePositions
<1>2. /\ c \in Seq(Codes) /\ Len(c) = Len(code) + 1
      /\ (\A k \in 1 .. Len(code) : c[k] = code[k]) /\ c[Len(code) + 1] = " "
  BY CodeAppended, CodeSymbols
<1>3. a \in Seq(Codes) /\ Len(a) = Len(code) + 1 /\ \A k \in 1 .. Len(code) : a[k] = code[k]
  BY CodeAppended
<1>4. b \in Seq(Codes) /\ Len(b) = Len(a) + 1 /\ \A k \in 1 .. Len(a) : b[k] = a[k]
  <2> HIDE DEF a
  <2> QED BY <1>3, CodeAppended
<1> HIDE DEF a, b, c
<1>5. ASSUME NEW e \in Seq(Codes), NEW n \in 0 .. Len(e), Len(e) - n = Len(code),
             \A k \in 1 .. Len(code) : e[k] = code[k]
      PROVE  CutOff(e, n) = c
  <2> DEFINE u == CutOff(e, n)
  <2>1. /\ u \in Seq(Codes) /\ Len(u) = Len(e) - n + 1
        /\ (\A k \in 1 .. Len(e) - n : u[k] = e[k]) /\ u[Len(e) - n + 1] = " "
    BY CutOffMakes
  <2> HIDE DEF u
  <2>2. \A k \in 1 .. Len(u) : u[k] = c[k]
    <3> TAKE k \in 1 .. Len(u)
    <3>1. Len(u) = Len(code) + 1
      BY <1>5, <2>1
    <3>2. k \in 1 .. Len(code) \/ k = Len(code) + 1
      BY <1>1, <3>1
    <3>3. CASE k \in 1 .. Len(code)
      BY <1>2, <1>5, <2>1, <3>3
    <3>4. CASE k = Len(code) + 1
      BY <1>2, <1>5, <2>1, <3>4
    <3> QED BY <3>2, <3>3, <3>4
  <2>3. u = c
    BY <1>2, <1>5, <2>1, <2>2, SeqEqual
  <2> QED BY <2>3 DEF u
<1>6. CutOff(code, 0) = c
  <2>1. 0 \in 0 .. Len(code) /\ Len(code) - 0 = Len(code)
    BY <1>1
  <2> QED BY <1>5, <2>1
<1>7. CutOff(a, 1) = c
  <2>1. 1 \in 0 .. Len(a) /\ Len(a) - 1 = Len(code)
    BY <1>1, <1>3
  <2> QED BY <1>3, <1>5, <2>1
<1>8. CutOff(b, 2) = c
  <2>1. 2 \in 0 .. Len(b) /\ Len(b) - 2 = Len(code)
    BY <1>1, <1>3, <1>4
  <2>2. \A k \in 1 .. Len(code) : k \in 1 .. Len(a)
    BY <1>1, <1>3
  <2> QED BY <1>3, <1>4, <1>5, <2>1, <2>2
<1> QED BY <1>6, <1>7, <1>8 DEF a, b, c

\* Every symbol leads from a state to a state.
LEMMA ReadType ==
    ASSUME NEW a \in States, NEW c \in Codes
    PROVE  Read(a, c) \in States
<1>1. a.mode \in Modes /\ a.code \in Seq(Codes)
  BY ReaderIs
<1>2. \A m \in Modes, d \in Seq(Codes) : Reader(m, d) \in States
  BY ReaderIs
<1>3. {"code", "line", "opened", "block", "star", "executable", "literal", "escape", "name"}
        \subseteq Modes
  BY DEF Modes
<1>4. CASE a.mode \in {"line", "opened", "block", "star", "executable"}
  BY <1>1, <1>2, <1>3, <1>4, ReadComment
<1>5. CASE a.mode \in {"literal", "escape", "name"}
  BY <1>1, <1>2, <1>3, <1>5, ReadQuoted
<1>6. CASE a.mode = "code"
  <2> DEFINE d == a.code
  <2>1. /\ Len(d) \in Nat
        /\ \A k : k \notin 1 .. Len(d) => At(d, k) = "end"
    BY <1>1, CodePositions
  <2>2. \A x \in Codes : Append(d, x) \in Seq(Codes)
    BY <1>1, CodeAppended
  <2>3. \A n \in 0 .. Len(d) : CutOff(d, n) \in Seq(Codes)
    BY <1>1, CutOffMakes
  <2>4. CASE c = "#"
    <3>1. CutOff(d, 0) \in Seq(Codes)
      BY <2>1, <2>3
    <3> QED BY <1>2, <1>3, <1>6, <2>4, <3>1, ReadCode
  <2>5. CASE c \in {"quote", "backquote"}
    <3>1. Append(d, "<literal>") \in Seq(Codes) /\ Append(d, "<name>") \in Seq(Codes)
      BY <2>2, CodeSymbols
    <3>2. CASE c = "quote"
      <4>1. Read(a, c) = Reader("literal", Append(d, "<literal>"))
        BY <1>6, <3>2, ReadCode
      <4> HIDE DEF d
      <4> QED BY <1>2, <1>3, <3>1, <4>1
    <3>3. CASE c = "backquote"
      <4>1. Read(a, c) = Reader("name", Append(d, "<name>"))
        BY <1>6, <3>3, ReadCode
      <4> HIDE DEF d
      <4> QED BY <1>2, <1>3, <3>1, <4>1
    <3> QED BY <2>5, <3>2, <3>3
  <2>6. CASE c = "*" /\ LastOf(d) = "/"
    <3>1. 1 \in 0 .. Len(d)
      BY <2>1, <2>6 DEF LastOf
    <3>2. CutOff(d, 1) \in Seq(Codes)
      BY <2>3, <3>1
    <3> QED BY <1>2, <1>3, <1>6, <2>6, <3>2, ReadCode
  <2>7. CASE c \in White /\ LastOf(d) = "-" /\ LastButOne(d) = "-"
    <3>1. 2 \in 0 .. Len(d)
      BY <2>1, <2>7 DEF LastButOne
    <3>2. CutOff(d, 2) \in Seq(Codes)
      BY <2>3, <3>1
    <3>3. Read(a, c) = Reader(IF c = "nl" THEN "code" ELSE "line", CutOff(d, 2))
      BY <1>6, <2>7, ReadCode
    <3> HIDE DEF d
    <3> QED BY <1>2, <1>3, <3>2, <3>3
  <2>8. CASE ~ Begins(d, c)
    <3>1. Append(d, c) \in Seq(Codes)
      BY <2>2
    <3>2. Read(a, c) = Reader("code", Append(d, c))
      BY <1>6, <2>8, ReadCode
    <3> HIDE DEF d
    <3> QED BY <1>2, <1>3, <3>1, <3>2
  <2> QED BY <2>4, <2>5, <2>6, <2>7, <2>8 DEF Begins
<1> QED BY <1>1, <1>4, <1>5, <1>6 DEF Modes

\* Reading goes from symbol to symbol as Read says.
LEMMA ReadingRuns ==
    ASSUME NEW t \in Seq(Symbols)
    PROVE  \E r : /\ Readings(r, t)
                  /\ \A k \in 0 .. Len(t) : r[k] \in States
                  /\ Reading(t) = r[Len(t)]
<1> DEFINE n == Len(t)
           D == 0 .. n
           m == [k \in D |-> k]
           g == [k \in D |-> [f \in [D -> States] |->
                  IF k = 0 THEN Reader("code", <<>>) ELSE Read(f[k - 1], t[k])]]
           upTo == CHOOSE f : f = [k \in 0 .. Len(t) |->
                     IF k = 0 THEN [mode |-> "code", code |-> <<>>] ELSE Read(f[k - 1], t[k])]
<1>1. n \in Nat /\ \A k \in 1 .. n : t[k] \in Codes
  BY TextSymbols, CodeSymbols
<1>2. Reading(t) = upTo[n]
  BY DEF Reading
<1>3. Reader("code", <<>>) \in States
  <2>1. <<>> \in Seq(Codes)
    BY EmptySeq
  <2> QED BY <2>1 DEF Reader, States, Modes
<1>4. PICK f \in [D -> States] :
        \A k \in D : f[k] = IF k = 0 THEN Reader("code", <<>>) ELSE Read(f[k - 1], t[k])
  <2>1. \A k \in D : m[k] \in Nat /\ m[k] < n + 1
    BY <1>1
  <2>2. \A k \in D : \A h \in [D -> States] :
          g[k][h] = IF k = 0 THEN Reader("code", <<>>) ELSE Read(h[k - 1], t[k])
    OBVIOUS
  <2>3. \A k \in D : k # 0 => k - 1 \in D /\ k \in 1 .. n /\ k - 1 < k
    BY <1>1
  <2>4. \A k \in D : \A h \in [D -> States] : g[k][h] \in States
    <3> TAKE k \in D
    <3> TAKE h \in [D -> States]
    <3>1. CASE k = 0
      BY <1>3, <2>2, <3>1
    <3>2. CASE k # 0
      <4>1. h[k - 1] \in States /\ t[k] \in Codes
        BY <1>1, <2>3, <3>2
      <4>2. Read(h[k - 1], t[k]) \in States
        BY <4>1, ReadType
      <4> QED BY <2>2, <3>2, <4>2
    <3> QED BY <3>1, <3>2
  <2>5. \A k \in D : \A f, h \in [D -> States] :
          (\A j \in D : m[j] < m[k] => f[j] = h[j]) => g[k][f] = g[k][h]
    <3> TAKE k \in D
    <3> TAKE f, h \in [D -> States]
    <3> HAVE \A j \in D : m[j] < m[k] => f[j] = h[j]
    <3>1. k # 0 => f[k - 1] = h[k - 1]
      BY <2>3
    <3> QED BY <2>2, <3>1
  <2>6. n + 1 \in Nat /\ States # {}
    BY <1>1, <1>3
  <2> HIDE DEF g, m, D, n
  <2>7. Recursion(D, States, m, n + 1, g)
    BY <2>1, <2>4, <2>5, <2>6 DEF Recursion
  <2>8. \E h \in [D -> States] : \A k \in D : h[k] = g[k][h]
    BY <2>7, RecursionDefines
  <2> QED BY <2>2, <2>8
<1>5. upTo = [k \in D |-> IF k = 0 THEN Reader("code", <<>>) ELSE Read(upTo[k - 1], t[k])]
  <2>1. f = [k \in D |-> IF k = 0 THEN Reader("code", <<>>) ELSE Read(f[k - 1], t[k])]
    <3> HIDE DEF D
    <3> QED BY <1>4
  <2>2. \E h : h = [k \in D |-> IF k = 0 THEN Reader("code", <<>>) ELSE Read(h[k - 1], t[k])]
    BY <2>1
  <2> QED BY <2>2 DEF Reader
<1> HIDE DEF upTo
<1>6. \A k \in D : upTo[k] = IF k = 0 THEN Reader("code", <<>>) ELSE Read(upTo[k - 1], t[k])
  BY <1>5
<1>7. Readings(upTo, t)
  <2>1. 0 \in D /\ \A k \in 1 .. n : k \in D /\ k # 0
    BY <1>1
  <2> QED BY <1>6, <2>1 DEF Readings
<1>8. \A k \in D : upTo[k] \in States
  <2> DEFINE T == {k \in Nat : k \in D => upTo[k] \in States}
  <2>1. 0 \in T
    BY <1>1, <1>3, <1>6
  <2>2. ASSUME NEW k \in T PROVE k + 1 \in T
    <3>1. k + 1 \in D => k \in D /\ k + 1 # 0 /\ (k + 1) - 1 = k /\ k + 1 \in 1 .. n
      BY <1>1, <2>2
    <3>2. k + 1 \in D => upTo[k + 1] = Read(upTo[k], t[k + 1])
      BY <1>6, <3>1
    <3> HIDE DEF D
    <3>3. k + 1 \in D => upTo[k] \in States /\ t[k + 1] \in Codes
      BY <1>1, <2>2, <3>1
    <3>4. k + 1 \in D => upTo[k + 1] \in States
      BY <3>2, <3>3, ReadType
    <3> QED BY <2>2, <3>4
  <2>3. T = Nat
    <3> HIDE DEF T
    <3>1. T \in SUBSET Nat
      BY DEF T
    <3> QED BY <2>1, <2>2, <3>1, AllNumbers
  <2> QED BY <1>1, <2>3
<1> QED BY <1>2, <1>7, <1>8

-----------------------------------------------------------------------------
(* The validator and the reader agree.                                       *)

\* What Complete asks of the code of a text,
Good(code) ==
    \A j \in 1 .. Len(code) :
      /\ code[j] # "nul"
      /\ \A i \in 1 .. j - 1 : code[i] = ";" => code[j] \in White

Terminated(code) == \E i \in 1 .. Len(code) : code[i] = ";"

Extends(u, v) == Len(v) <= Len(u) /\ \A k \in 1 .. Len(v) : u[k] = v[k]

\* and of the whole text.
Passed(r, t) == r[Len(t)].mode \in {"code", "line"} /\ Good(r[Len(t)].code)

\* No comment begins before i and ends behind it.
Clean(r, t, i) ==
    LET code == r[i - 1].code
    IN  /\ r[i - 1].mode = "code"
        /\ ~ (LastOf(code) = "/" /\ At(t, i) = "*")
        /\ ~ (LastOf(code) = "-" /\ LastButOne(code) = "-" /\ At(t, i) \in White)
        /\ ~ (LastOf(code) = "-" /\ At(t, i) = "-" /\ At(t, i + 1) \in White)

Runs(r, f, t) ==
    /\ Readings(r, t)
    /\ \A k \in 0 .. Len(t) : r[k] \in States
    /\ Scanning(f, t)

\* The reader keeps the code read before j, and passes the text when f says ok.
Promises(r, f, t, j, code) ==
    /\ Extends(r[Len(t)].code, code)
    /\ Good(code) /\ Terminated(code) => (Passed(r, t) <=> f[j][TRUE] = "ok")
    /\ Good(code) /\ ~ Terminated(code) => (Passed(r, t) <=> f[j][FALSE] = "ok")

Agrees(r, f, t, i) == Clean(r, t, i) => Promises(r, f, t, i, r[i - 1].code)

\* Where the reader is before and after a symbol.
LEMMA Reads ==
    ASSUME NEW t \in Seq(Symbols), NEW r, NEW f, Runs(r, f, t), NEW k \in 1 .. Len(t)
    PROVE  /\ Len(t) \in Nat /\ r[k - 1] \in States /\ r[k] \in States
           /\ r[k] = Read(r[k - 1], t[k])
           /\ r[k - 1].code \in Seq(Codes) /\ r[k].code \in Seq(Codes)
           /\ r[k - 1] = Reader(r[k - 1].mode, r[k - 1].code)
           /\ t[k] \in Codes /\ t[k] \in Symbols /\ At(t, k) = t[k] /\ t[k] # "end"
<1>1. Len(t) \in Nat /\ t[k] \in Symbols /\ At(t, k) = t[k] /\ t[k] # "end"
  BY TextSymbols
<1>2. k - 1 \in 0 .. Len(t) /\ k \in 0 .. Len(t)
  BY <1>1
<1>3. r[k - 1] \in States /\ r[k] \in States /\ r[k] = Read(r[k - 1], t[k])
  BY <1>2 DEF Runs, Readings
<1> QED BY <1>1, <1>3, CodeSymbols, ReaderIs

\* What one symbol more changes.
LEMMA GoodAppended ==
    ASSUME NEW code \in Seq(Codes), NEW x \in Codes
    PROVE  /\ Terminated(Append(code, x)) <=> Terminated(code) \/ x = ";"
           /\ Good(Append(code, x)) <=>
                Good(code) /\ x # "nul" /\ (Terminated(code) => x \in White)
           /\ Extends(Append(code, x), code)
<1> DEFINE d == Append(code, x)
           n == Len(code)
<1>1. /\ Len(d) = n + 1 /\ (\A k \in 1 .. n : d[k] = code[k]) /\ d[n + 1] = x
  BY CodeAppended
<1>2. n \in Nat
  BY CodePositions
<1> HIDE DEF d, n
<1>3. Terminated(d) <=> Terminated(code) \/ x = ";"
  <2>1. \A k : k \in 1 .. n + 1 <=> k \in 1 .. n \/ k = n + 1
    BY <1>2
  <2> QED BY <1>1, <2>1 DEF Terminated, n
<1>4. ASSUME Good(d) PROVE Good(code) /\ x # "nul" /\ (Terminated(code) => x \in White)
  <2>1. \A j \in 1 .. n : j \in 1 .. n + 1 /\ \A i \in 1 .. j - 1 : i \in 1 .. n
    BY <1>2
  <2>2. Good(code)
    BY <1>1, <1>4, <2>1 DEF Good, n
  <2>3. n + 1 \in 1 .. n + 1 /\ (n + 1) - 1 = n
    BY <1>2
  <2> QED BY <1>1, <1>4, <2>2, <2>3 DEF Good, Terminated, n
<1>5. ASSUME Good(code), x # "nul", Terminated(code) => x \in White PROVE Good(d)
  <2> SUFFICES ASSUME NEW j \in 1 .. n + 1
               PROVE  d[j] # "nul" /\ \A i \in 1 .. j - 1 : d[i] = ";" => d[j] \in White
    BY <1>1 DEF Good
  <2>1. \A i \in 1 .. j - 1 : i \in 1 .. n
    BY <1>2
  <2>2. CASE j \in 1 .. n
    BY <1>1, <1>5, <2>1, <2>2 DEF Good, n
  <2>3. CASE j = n + 1
    BY <1>1, <1>5, <2>1, <2>3 DEF Terminated, n
  <2>4. j \in 1 .. n \/ j = n + 1
    BY <1>2
  <2> QED BY <2>2, <2>3, <2>4
<1>6. Extends(d, code)
  BY <1>1, <1>2 DEF Extends, n
<1> QED BY <1>3, <1>4, <1>5, <1>6 DEF d

\* Code that goes on from bad code is bad.
LEMMA ExtendsOn ==
    ASSUME NEW u \in Seq(Codes), NEW v \in Seq(Codes), Extends(u, v)
    PROVE  /\ Good(u) => Good(v)
           /\ \A w \in Seq(Codes) : Extends(v, w) => Extends(u, w)
<1>1. Len(u) \in Nat /\ Len(v) \in Nat /\ \A w \in Seq(Codes) : Len(w) \in Nat
  BY CodePositions
<1>2. Len(v) <= Len(u) /\ \A k \in 1 .. Len(v) : u[k] = v[k]
  BY DEF Extends
<1>3. Good(u) => Good(v)
  <2>1. \A j \in 1 .. Len(v) : j \in 1 .. Len(u) /\ \A i \in 1 .. j - 1 : i \in 1 .. Len(v)
    BY <1>1, <1>2
  <2> QED BY <1>2, <2>1 DEF Good
<1>4. ASSUME NEW w \in Seq(Codes), Extends(v, w) PROVE Extends(u, w)
  <2>1. Len(w) \in Nat /\ Len(w) <= Len(v) /\ \A k \in 1 .. Len(w) : v[k] = w[k]
    BY <1>1, <1>4 DEF Extends
  <2>2. \A k \in 1 .. Len(w) : k \in 1 .. Len(v)
    BY <1>1, <1>2, <2>1
  <2> QED BY <1>1, <1>2, <2>1, <2>2 DEF Extends
<1> QED BY <1>3, <1>4

\* What holds of the code with a symbol more holds of the code.
LEMMA Onward ==
    ASSUME NEW t \in Seq(Symbols), NEW r, NEW f, NEW j, r[Len(t)].code \in Seq(Codes),
           NEW code \in Seq(Codes), NEW x \in Codes, Promises(r, f, t, j, Append(code, x))
    PROVE  /\ Extends(r[Len(t)].code, code)
           /\ Good(code) /\ Terminated(code) /\ x \in White =>
                (Passed(r, t) <=> f[j][TRUE] = "ok")
           /\ Good(code) /\ ~ Terminated(code) /\ x \notin {";", "nul"} =>
                (Passed(r, t) <=> f[j][FALSE] = "ok")
           /\ Good(code) /\ ~ Terminated(code) /\ x = ";" =>
                (Passed(r, t) <=> f[j][TRUE] = "ok")
           /\ x = "nul" \/ (Terminated(code) /\ x \notin White) => ~ Passed(r, t)
<1> DEFINE d == Append(code, x)
           last == r[Len(t)].code
<1>1. /\ d \in Seq(Codes) /\ Extends(d, code)
      /\ Terminated(d) <=> Terminated(code) \/ x = ";"
      /\ Good(d) <=> Good(code) /\ x # "nul" /\ (Terminated(code) => x \in White)
  BY CodeAppended, GoodAppended
<1>2. Promises(r, f, t, j, d) /\ last \in Seq(Codes)
  OBVIOUS
<1> HIDE DEF d
<1>3. Extends(last, d) /\ (Passed(r, t) => Good(last))
  BY <1>2 DEF Promises, Passed
<1> HIDE DEF last
<1>4. Extends(last, code) /\ (Passed(r, t) => Good(d))
  BY <1>1, <1>2, <1>3, ExtendsOn
<1>5. /\ Good(d) /\ Terminated(d) => (Passed(r, t) <=> f[j][TRUE] = "ok")
      /\ Good(d) /\ ~ Terminated(d) => (Passed(r, t) <=> f[j][FALSE] = "ok")
  BY <1>2 DEF Promises
<1>6. \A w \in White : w # "nul" /\ w # ";"
  BY DEF White
<1>7. Extends(r[Len(t)].code, code)
  BY <1>4 DEF last
<1> QED BY <1>1, <1>4, <1>5, <1>6, <1>7

\* Code that ends neither in a slash nor in a dash begins no comment.
LEMMA CleanAfter ==
    ASSUME NEW t, NEW r, NEW i, NEW code, r[i - 1] = Reader("code", code),
           LastOf(code) \notin {"/", "-"}
    PROVE  Clean(r, t, i)
<1>1. r[i - 1].mode = "code" /\ r[i - 1].code = code
  BY ReaderIs
<1> QED BY <1>1 DEF Clean

\* Behind the text, both have decided.
LEMMA AtTheEnd ==
    ASSUME NEW t \in Seq(Symbols), NEW r, NEW f, Runs(r, f, t)
    PROVE  Agrees(r, f, t, Len(t) + 1)
<1> DEFINE n == Len(t)
           code == r[n].code
<1>1. n \in Nat /\ At(t, n + 1) = "end"
  BY TextSymbols
<1>2. f[n + 1][TRUE] = "ok" /\ f[n + 1][FALSE] = "ok"
  <2>1. n + 1 \in 1 .. n + 1
    BY <1>1
  <2>2. \A e \in BOOLEAN : f[n + 1][e] = VerdictAt(f, t, n + 1, e)
    BY <2>1 DEF Runs, Scanning
  <2> QED BY <1>1, <2>2 DEF VerdictAt
<1>3. (n + 1) - 1 = n
  BY <1>1
<1>4. ASSUME Clean(r, t, n + 1) PROVE Promises(r, f, t, n + 1, code)
  <2>1. r[n].mode = "code"
    BY <1>3, <1>4 DEF Clean
  <2>2. r[n] \in States
    BY <1>1 DEF Runs
  <2>3. Len(code) \in Nat
    BY <2>2, ReaderIs, CodePositions
  <2>4. Extends(code, code)
    BY <2>3 DEF Extends
  <2> QED BY <1>2, <2>1, <2>4 DEF Promises, Passed
<1> QED BY <1>3, <1>4 DEF Agrees

\* Symbols that neither begin a comment nor a quoted value.
LEMMA OneSymbol ==
    ASSUME NEW t \in Seq(Symbols), NEW r, NEW f, Runs(r, f, t), NEW i \in 1 .. Len(t),
           Clean(r, t, i), ~ LineComment(t, i), ~ BlockComment(t, i),
           t[i] \notin {"quote", "backquote"}
    PROVE  /\ r[i].code = Append(r[i - 1].code, t[i])
           /\ Clean(r, t, i + 1)
<1> DEFINE code == r[i - 1].code
           x == t[i]
<1>1. /\ r[i - 1] \in States /\ r[i] = Read(r[i - 1], x) /\ code \in Seq(Codes)
      /\ x \in Codes /\ At(t, i) = x /\ (i + 1) - 1 = i
  BY Reads
<1>2. r[i - 1].mode = "code"
  BY DEF Clean
<1>3. ~ Begins(code, x)
  BY <1>1 DEF Begins, Clean, LineComment
<1>4. r[i] = Reader("code", Append(code, x))
  BY <1>1, <1>2, <1>3, ReadCode
<1>5. LastOf(Append(code, x)) = x /\ LastButOne(Append(code, x)) = LastOf(code)
  BY <1>1, CodeAppended
<1>6. r[i].mode = "code" /\ r[i].code = Append(code, x)
  BY <1>4 DEF Reader
<1>7. ~ (x = "/" /\ At(t, i + 1) = "*")
  BY <1>1 DEF BlockComment
<1>8. ~ (x = "-" /\ LastOf(code) = "-" /\ At(t, i + 1) \in White)
  BY <1>1 DEF Clean
<1>9. ~ (x = "-" /\ At(t, i + 1) = "-" /\ At(t, i + 2) \in White)
  BY <1>1 DEF LineComment
<1>10. Clean(r, t, i + 1)
  <2>1. (i + 1) + 1 = i + 2
    OBVIOUS
  <2> HIDE DEF code, x
  <2>2. r[(i + 1) - 1] = r[i]
    BY <1>1
  <2> QED BY <1>5, <1>6, <1>7, <1>8, <1>9, <2>1, <2>2 DEF Clean
<1> QED BY <1>6, <1>10

\* They agree on the text before such a symbol if they agree behind it.
LEMMA SymbolAgrees ==
    ASSUME NEW t \in Seq(Symbols), NEW r, NEW f, Runs(r, f, t), NEW i \in 1 .. Len(t),
           Agrees(r, f, t, i + 1),
           Clean(r, t, i), ~ LineComment(t, i), ~ BlockComment(t, i),
           t[i] \notin {"quote", "backquote"}
    PROVE  Promises(r, f, t, i, r[i - 1].code)
<1> DEFINE code == r[i - 1].code
           x == t[i]
<1>1. /\ Len(t) \in Nat /\ code \in Seq(Codes)
      /\ x \in Codes /\ At(t, i) = x /\ x # "end" /\ (i + 1) - 1 = i
  BY Reads
<1>2. r[Len(t)].code \in Seq(Codes)
  <2>1. Len(t) \in 1 .. Len(t)
    BY <1>1
  <2> QED BY <2>1, Reads
<1>3. Promises(r, f, t, i + 1, Append(code, x))
  BY <1>1, OneSymbol DEF Agrees
<1>4. \A e \in BOOLEAN : f[i][e] = VerdictAt(f, t, i, e)
  <2>1. i \in 1 .. Len(t) + 1
    BY <1>1
  <2> QED BY <2>1 DEF Runs, Scanning
<1> HIDE DEF code, x
<1>5. /\ Extends(r[Len(t)].code, code)
      /\ Good(code) /\ Terminated(code) /\ x \in White =>
           (Passed(r, t) <=> f[i + 1][TRUE] = "ok")
      /\ Good(code) /\ ~ Terminated(code) /\ x \notin {";", "nul"} =>
           (Passed(r, t) <=> f[i + 1][FALSE] = "ok")
      /\ Good(code) /\ ~ Terminated(code) /\ x = ";" =>
           (Passed(r, t) <=> f[i + 1][TRUE] = "ok")
      /\ x = "nul" \/ (Terminated(code) /\ x \notin White) => ~ Passed(r, t)
  <2>1. code \in Seq(Codes) /\ x \in Codes
    BY <1>1
  <2> QED BY <1>2, <1>3, <2>1, Onward
<1>6. CASE x \in White
  <2>1. x # "nul" /\ x # ";"
    BY <1>6 DEF White
  <2>2. f[i][TRUE] = f[i + 1][TRUE] /\ f[i][FALSE] = f[i + 1][FALSE]
    BY <1>1, <1>4, <1>6, <2>1 DEF VerdictAt
  <2> QED BY <1>5, <1>6, <2>1, <2>2 DEF Promises, code
<1>7. CASE x = "nul"
  <2>1. f[i][TRUE] = "nul" /\ f[i][FALSE] = "nul"
    BY <1>1, <1>4, <1>7 DEF VerdictAt
  <2> QED BY <1>5, <1>7, <2>1 DEF Promises, code
<1>8. CASE x \notin White /\ x # "nul"
  <2>1. f[i][TRUE] = "two statements"
    BY <1>1, <1>4, <1>8 DEF VerdictAt
  <2>2. f[i][FALSE] = f[i + 1][x = ";"]
    BY <1>1, <1>4, <1>8 DEF VerdictAt, x
  <2> QED BY <1>5, <1>8, <2>1, <2>2 DEF Promises, code
<1> QED BY <1>6, <1>7, <1>8 DEF code

\* What holds at a and is kept holds up to b.
LEMMA Forwards ==
    ASSUME NEW a \in Nat, NEW b \in Nat, NEW T, a \in T,
           \A k \in a .. b - 1 : k \in T => k + 1 \in T
    PROVE  \A k \in a .. b : k \in T
<1> DEFINE N == {k \in Nat : a + k <= b => a + k \in T}
<1>1. 0 \in N
  OBVIOUS
<1>2. ASSUME NEW k \in N PROVE k + 1 \in N
  <2>1. k \in Nat /\ (a + k <= b => a + k \in T)
    BY <1>2
  <2>2. a + (k + 1) <= b => a + k \in a .. b - 1 /\ a + k <= b /\ (a + k) + 1 = a + (k + 1)
    BY <2>1
  <2> QED BY <2>1, <2>2
<1>3. N = Nat
  <2> HIDE DEF N
  <2>1. N \in SUBSET Nat
    BY DEF N
  <2> QED BY <1>1, <1>2, <2>1, AllNumbers
<1>4. ASSUME NEW k \in a .. b PROVE k \in T
  <2>1. k - a \in Nat /\ a + (k - a) = k /\ k <= b
    OBVIOUS
  <2>2. k - a \in N
    BY <1>3, <2>1
  <2> QED BY <2>1, <2>2
<1> QED BY <1>4

-----------------------------------------------------------------------------
(* Comments to the end of the line.                                          *)

\* The reader stays in such a comment up to the line break.
LEMMA LineRuns ==
    ASSUME NEW t \in Seq(Symbols), NEW r, NEW f, Runs(r, f, t), NEW code \in Seq(Codes),
           NEW s \in 1 .. Len(t), r[s] = Reader("line", code), NEW j \in s + 1 .. Len(t) + 1,
           \A p \in s + 1 .. j - 1 : t[p] # "nl", j <= Len(t) => t[j] = "nl"
    PROVE  /\ j <= Len(t) => r[j] = Reader("code", code)
           /\ j > Len(t) => r[Len(t)] = Reader("line", code)
<1>1. Len(t) \in Nat
  BY TextSymbols
<1>2. ASSUME NEW k \in 1 .. Len(t), r[k - 1] = Reader("line", code)
      PROVE  r[k] = Reader(IF t[k] = "nl" THEN "code" ELSE "line", code)
  <2>1. r[k - 1] \in States /\ r[k] = Read(r[k - 1], t[k])
    BY Reads
  <2>2. r[k - 1].mode = "line" /\ r[k - 1].code = code
    BY <1>2 DEF Reader
  <2> QED BY <2>1, <2>2, ReadComment
<1> DEFINE T == {k \in Nat : r[k] = Reader("line", code)}
<1>3. s \in T
  OBVIOUS
<1>4. ASSUME NEW k \in s .. (j - 1) - 1, k \in T PROVE k + 1 \in T
  <2>1. k + 1 \in 1 .. Len(t) /\ k + 1 \in s + 1 .. j - 1 /\ (k + 1) - 1 = k
    BY <1>1
  <2>2. r[k] = Reader("line", code) /\ t[k + 1] # "nl"
    BY <1>4, <2>1
  <2>3. r[k + 1] = Reader("line", code)
    BY <1>2, <2>1, <2>2
  <2> QED BY <2>1, <2>3
<1>5. \A k \in s .. j - 1 : k \in T
  <2>1. s \in Nat /\ j - 1 \in Nat
    BY <1>1
  <2> HIDE DEF T
  <2> QED BY <1>3, <1>4, <2>1, Forwards
<1>6. r[j - 1] = Reader("line", code)
  <2>1. j - 1 \in s .. j - 1
    BY <1>1
  <2> QED BY <1>5, <2>1
<1>7. CASE j <= Len(t)
  <2>1. j \in 1 .. Len(t)
    BY <1>1, <1>7
  <2> QED BY <1>1, <1>2, <1>6, <1>7, <2>1
<1>8. CASE j > Len(t)
  <2>1. j - 1 = Len(t)
    BY <1>1, <1>8
  <2> QED BY <1>1, <1>6, <1>8, <2>1
<1> QED BY <1>1, <1>7, <1>8

\* Where AfterLine goes, the reader has made a blank of the comment.
LEMMA LineRead ==
    ASSUME NEW t \in Seq(Symbols), NEW r, NEW f, Runs(r, f, t), NEW i \in 1 .. Len(t),
           Clean(r, t, i), LineComment(t, i), NEW j, j = AfterLine(t, i)
    PROVE  /\ j \in i + 1 .. Len(t) + 1
           /\ j <= Len(t) => t[j] = "nl" /\ r[j] = Reader("code", Append(r[i - 1].code, " "))
           /\ j > Len(t) => r[Len(t)] = Reader("line", Append(r[i - 1].code, " "))
<1> DEFINE n == Len(t)
           code == r[i - 1].code
           cut == Append(code, " ")
<1>1. /\ n \in Nat /\ r[i - 1] \in States /\ r[i] = Read(r[i - 1], t[i]) /\ code \in Seq(Codes)
      /\ At(t, i) = t[i] /\ t[i] \in Codes
  BY Reads
<1>2. \A p : p \notin 1 .. n => At(t, p) = "end"
  BY TextSymbols
<1>3. r[i - 1].mode = "code"
  BY DEF Clean
<1>4. /\ j \in i .. n + 1
      /\ j <= n => t[j] = "nl"
      /\ \A p \in i .. j - 1 : t[p] # "nl"
      /\ t[i] # "nl" => i < j
  BY LineEnds
<1>5. t[i] # "nl"
  BY <1>1 DEF LineComment
<1>6. j \in i + 1 .. n + 1
  BY <1>1, <1>4, <1>5
<1>7. cut \in Seq(Codes)
  BY <1>1, CodeAppended, CodeSymbols
<1>8. ASSUME NEW s \in i .. n, s < j, r[s] = Reader("line", cut)
      PROVE  /\ j <= n => r[j] = Reader("code", cut)
             /\ j > n => r[n] = Reader("line", cut)
  <2>0. s \in Int /\ i <= s /\ s <= n /\ 1 <= i /\ i \in Int /\ j \in Int /\ j <= n + 1
    BY <1>1, <1>6
  <2>1. s \in 1 .. n /\ j \in s + 1 .. n + 1
    <3>1. n \in Int
      BY <1>1
    <3>3. s < j
      BY <1>8
    <3>2. s >= 1 /\ j >= s + 1
      BY <2>0, <3>1, <3>3
    <3> HIDE DEF n
    <3> QED BY <2>0, <3>1, <3>2
  <2>2. \A p \in s + 1 .. j - 1 : t[p] # "nl"
    BY <1>1, <1>4
  <2> HIDE DEF cut
  <2> QED BY <1>4, <1>7, <1>8, <2>1, <2>2, LineRuns
<1>9. CASE t[i] = "#"
  <2>1. r[i] = Reader("line", CutOff(code, 0))
    BY <1>1, <1>3, <1>9, ReadCode
  <2>2. CutOff(code, 0) = cut
    BY <1>1, CutOffBack
  <2>3. i \in i .. n /\ i < j
    BY <1>1, <1>6
  <2> HIDE DEF cut
  <2> QED BY <1>4, <1>6, <1>8, <2>1, <2>2, <2>3 DEF cut
<1>10. CASE t[i] # "#"
  <2> DEFINE one == Append(code, "-")
             two == Append(one, "-")
  <2>1. t[i] = "-" /\ At(t, i + 1) = "-" /\ At(t, i + 2) \in White
    BY <1>1, <1>10 DEF LineComment
  <2>2. i + 1 \in 1 .. n /\ i + 2 \in 1 .. n
    BY <1>1, <1>2, <2>1 DEF White
  <2>3. /\ r[i + 1] = Read(r[i], t[i + 1]) /\ At(t, i + 1) = t[i + 1] /\ r[i] \in States
        /\ r[i + 2] = Read(r[i + 1], t[i + 2]) /\ At(t, i + 2) = t[i + 2] /\ r[i + 1] \in States
    <3>1. (i + 1) - 1 = i /\ (i + 2) - 1 = i + 1
      BY <1>1
    <3> QED BY <2>2, <3>1, Reads
  <2>4. "-" \in Codes
    BY CodeSymbols
  <2>5. one \in Seq(Codes) /\ LastOf(one) = "-"
    BY <1>1, <2>4, CodeAppended
  <2>6. two \in Seq(Codes) /\ LastOf(two) = "-" /\ LastButOne(two) = "-"
    <3> HIDE DEF one
    <3> QED BY <2>4, <2>5, CodeAppended
  <2>7. \A d : ~ Begins(d, "-")
    BY DEF Begins, White
  <2>8. r[i] = Reader("code", one)
    BY <1>1, <1>3, <2>1, <2>7, ReadCode
  <2>9. r[i].mode = "code" /\ r[i].code = one
    BY <2>8 DEF Reader
  <2>10. r[i + 1] = Reader("code", two)
    <3>1. r[i + 1] = Read(r[i], "-")
      BY <2>1, <2>3
    <3>2. Read(r[i], "-") = Reader("code", Append(r[i].code, "-"))
      BY <2>3, <2>7, <2>9, ReadCode
    <3> HIDE DEF one
    <3> QED BY <2>9, <3>1, <3>2
  <2>11. r[i + 1].mode = "code" /\ r[i + 1].code = two
    BY <2>10 DEF Reader
  <2>12. CutOff(two, 2) = cut
    BY <1>1, <2>4, CutOffBack
  <2> HIDE DEF two, one, cut
  <2>13. r[i + 2] = Reader(IF t[i + 2] = "nl" THEN "code" ELSE "line", cut)
    BY <2>1, <2>3, <2>6, <2>11, <2>12, ReadCode
  <2>14. CASE t[i + 2] = "nl"
    <3>1. t[i + 1] # "nl"
      BY <2>1, <2>3
    <3>2. j # i /\ j # i + 1
      BY <1>1, <1>4, <1>5, <2>2, <3>1
    <3>3. j <= i + 2
      BY <1>1, <1>4, <2>2, <2>14
    <3>4. j = i + 2
      BY <1>1, <1>4, <2>2, <3>2, <3>3
    <3>5. r[j] = Reader("code", cut) /\ t[j] = "nl"
      BY <2>13, <2>14, <3>4
    <3>6. j <= n /\ ~ (j > n)
      BY <1>1, <2>2, <3>4
    <3> QED BY <1>6, <3>5, <3>6 DEF cut
  <2>15. CASE t[i + 2] # "nl"
    <3>1. t[i + 1] # "nl"
      BY <2>1, <2>3
    <3>2. j # i /\ j # i + 1 /\ j # i + 2
      BY <1>1, <1>4, <1>5, <2>2, <2>15, <3>1
    <3>3. i + 2 \in i .. n /\ i + 2 < j
      BY <1>1, <1>4, <2>2, <3>2
    <3>4. r[i + 2] = Reader("line", cut)
      BY <2>13, <2>15
    <3> QED BY <1>4, <1>6, <1>8, <3>3, <3>4 DEF cut
  <2> QED BY <2>14, <2>15
<1> QED BY <1>9, <1>10

\* Code goes on from itself.
LEMMA ExtendsItself ==
    ASSUME NEW code \in Seq(Codes)
    PROVE  Extends(code, code)
<1>1. Len(code) \in Nat
  BY CodePositions
<1> QED BY <1>1 DEF Extends

\* They agree before such a comment if they agree behind it.
LEMMA LineAgrees ==
    ASSUME NEW t \in Seq(Symbols), NEW r, NEW f, Runs(r, f, t), NEW i \in 1 .. Len(t),
           \A j \in i + 1 .. Len(t) + 1 : Agrees(r, f, t, j),
           Clean(r, t, i), LineComment(t, i)
    PROVE  Promises(r, f, t, i, r[i - 1].code)
<1> DEFINE n == Len(t)
           code == r[i - 1].code
           cut == Append(code, " ")
           last == r[n].code
<1>1. /\ n \in Nat /\ code \in Seq(Codes) /\ At(t, i) = t[i] /\ t[i] # "end"
  BY Reads
<1>2. last \in Seq(Codes)
  <2>1. n \in 1 .. n
    BY <1>1
  <2> QED BY <2>1, Reads
<1>3. cut \in Seq(Codes) /\ Len(cut) \in Nat /\ LastOf(cut) = " " /\ " " \in Codes
  BY <1>1, CodeAppended, CodeSymbols, CodePositions
<1>4. PICK j : j = AfterLine(t, i)
  OBVIOUS
<1>5. /\ j \in i + 1 .. n + 1
      /\ j <= n => t[j] = "nl" /\ r[j] = Reader("code", cut)
      /\ j > n => r[n] = Reader("line", cut)
  BY <1>4, LineRead
<1>6. \A k \in 1 .. n + 1 : \A e \in BOOLEAN : f[k][e] = VerdictAt(f, t, k, e)
  BY DEF Runs, Scanning
<1>7. f[i][TRUE] = f[j][TRUE] /\ f[i][FALSE] = f[j][FALSE]
  <2>1. i \in 1 .. n + 1
    BY <1>1
  <2>2. At(t, i) \notin White \cup {"end", "nul"}
    BY <1>1 DEF LineComment, White
  <2>3. \A e \in BOOLEAN : VerdictAt(f, t, i, e) = f[j][e]
    BY <1>4, <2>2 DEF VerdictAt
  <2> QED BY <1>6, <2>1, <2>3
<1> HIDE DEF cut
<1>8. \E k : Promises(r, f, t, k, cut) /\ f[k][TRUE] = f[j][TRUE] /\ f[k][FALSE] = f[j][FALSE]
  <2>1. CASE j <= n
    <3>1. j + 1 \in i + 1 .. n + 1 /\ (j + 1) - 1 = j /\ j \in 1 .. n + 1 /\ j \in 1 .. n
      BY <1>1, <1>5, <2>1
    <3>2. Clean(r, t, j + 1)
      BY <1>3, <1>5, <2>1, <3>1, CleanAfter
    <3>3. r[j].code = cut
      BY <1>5, <2>1 DEF Reader
    <3>4. Promises(r, f, t, j + 1, cut)
      BY <3>1, <3>2, <3>3 DEF Agrees
    <3>5. At(t, j) = "nl"
      BY <1>5, <2>1, <3>1, TextSymbols
    <3>6. \A e \in BOOLEAN : VerdictAt(f, t, j, e) = f[j + 1][e]
      BY <3>5 DEF VerdictAt, White
    <3>7. f[j + 1][TRUE] = f[j][TRUE] /\ f[j + 1][FALSE] = f[j][FALSE]
      BY <1>6, <3>1, <3>6
    <3> QED BY <3>4, <3>7
  <2>2. CASE j > n
    <3>1. j = n + 1 /\ j \in 1 .. n + 1
      BY <1>1, <1>5, <2>2
    <3>2. r[n].mode = "line" /\ r[n].code = cut
      BY <1>5, <2>2 DEF Reader
    <3>3. At(t, j) = "end"
      BY <1>1, <3>1, TextSymbols
    <3>4. f[j][TRUE] = "ok" /\ f[j][FALSE] = "ok"
      BY <1>6, <3>1, <3>3 DEF VerdictAt
    <3>5. Extends(cut, cut)
      BY <1>3, ExtendsItself
    <3>6. Promises(r, f, t, j, cut)
      BY <3>2, <3>4, <3>5 DEF Promises, Passed
    <3> QED BY <3>6
  <2>3. j <= n \/ j > n
    BY <1>1, <1>5
  <2> QED BY <2>1, <2>2, <2>3
<1>9. PICK k : Promises(r, f, t, k, cut) /\ f[k][TRUE] = f[j][TRUE] /\ f[k][FALSE] = f[j][FALSE]
  BY <1>8
<1>10. Promises(r, f, t, k, Append(code, " "))
  BY <1>9 DEF cut
<1> HIDE DEF code
<1>11. /\ Extends(r[Len(t)].code, code)
       /\ Good(code) /\ Terminated(code) => (Passed(r, t) <=> f[k][TRUE] = "ok")
       /\ Good(code) /\ ~ Terminated(code) => (Passed(r, t) <=> f[k][FALSE] = "ok")
  <2>1. " " \in White /\ " " \notin {";", "nul"}
    BY DEF White
  <2> QED BY <1>1, <1>2, <1>3, <1>10, <2>1, Onward
<1> QED BY <1>7, <1>9, <1>11 DEF Promises, code

-----------------------------------------------------------------------------
(* Comments between the marks.                                               *)

\* The two symbols that open a comment make the reader cut off the slash.
LEMMA BlockOpens ==
    ASSUME NEW t \in Seq(Symbols), NEW r, NEW f, Runs(r, f, t), NEW i \in 1 .. Len(t),
           Clean(r, t, i), BlockComment(t, i)
    PROVE  i + 1 <= Len(t) /\ r[i + 1] = Reader("opened", Append(r[i - 1].code, " "))
<1> DEFINE code == r[i - 1].code
           one == Append(code, "/")
<1>1. /\ Len(t) \in Nat /\ r[i - 1] \in States /\ r[i] = Read(r[i - 1], t[i])
      /\ code \in Seq(Codes) /\ r[i] \in States
  BY Reads
<1>2. r[i - 1].mode = "code"
  BY DEF Clean
<1>3. i + 1 <= Len(t) /\ t[i] = "/" /\ t[i + 1] = "*"
  BY BlockEnds
<1>4. "/" \in Codes
  BY CodeSymbols
<1>5. one \in Seq(Codes) /\ LastOf(one) = "/" /\ CutOff(one, 1) = Append(code, " ")
  BY <1>1, <1>4, CodeAppended, CutOffBack
<1>6. ~ Begins(code, "/")
  BY DEF Begins, White
<1>7. r[i] = Reader("code", one)
  BY <1>1, <1>2, <1>3, <1>6, ReadCode
<1>8. r[i].mode = "code" /\ r[i].code = one
  BY <1>7 DEF Reader
<1>9. r[i + 1] = Read(r[i], "*")
  <2>1. i + 1 \in 1 .. Len(t) /\ (i + 1) - 1 = i
    BY <1>1, <1>3
  <2> QED BY <1>3, <2>1, Reads
<1> HIDE DEF one, code
<1>10. r[i + 1] = Reader("opened", CutOff(one, 1))
  BY <1>1, <1>5, <1>8, <1>9, ReadCode
<1> QED BY <1>3, <1>5, <1>10 DEF code

\* The reader never leaves an executable comment.
LEMMA BlockExecutes ==
    ASSUME NEW t \in Seq(Symbols), NEW r, NEW f, Runs(r, f, t), NEW code \in Seq(Codes),
           NEW s \in 1 .. Len(t), r[s] = Reader("opened", code), At(t, s + 1) = "!"
    PROVE  r[Len(t)] = Reader("executable", code)
<1>1. Len(t) \in Nat /\ \A p : p \notin 1 .. Len(t) => At(t, p) = "end"
  BY TextSymbols
<1>2. s + 1 \in 1 .. Len(t) /\ (s + 1) - 1 = s
  BY <1>1
<1> DEFINE T == {k \in Nat : r[k] = Reader("executable", code)}
<1>3. s + 1 \in T
  <2>1. r[s + 1] = Read(r[s], "!") /\ r[s] \in States
    BY <1>2, Reads
  <2>2. r[s].mode = "opened" /\ r[s].code = code
    BY DEF Reader
  <2>3. r[s + 1] = Reader("executable", code)
    BY <2>1, <2>2, ReadComment
  <2> QED BY <1>2, <2>3
<1>4. ASSUME NEW k \in s + 1 .. Len(t) - 1, k \in T PROVE k + 1 \in T
  <2>1. k + 1 \in 1 .. Len(t) /\ (k + 1) - 1 = k
    BY <1>1, <1>2
  <2>2. r[k + 1] = Read(r[k], t[k + 1]) /\ r[k] \in States
    BY <2>1, Reads
  <2>3. r[k].mode = "executable" /\ r[k] = Reader("executable", code)
    BY <1>4 DEF Reader
  <2>4. r[k + 1] = Reader("executable", code)
    BY <2>2, <2>3, ReadComment
  <2> QED BY <2>1, <2>4
<1>5. \A k \in s + 1 .. Len(t) : k \in T
  <2>1. s + 1 \in Nat
    OBVIOUS
  <2> HIDE DEF T
  <2> QED BY <1>1, <1>3, <1>4, <2>1, Forwards
<1>6. Len(t) \in s + 1 .. Len(t)
  BY <1>1, <1>2
<1> QED BY <1>5, <1>6

\* No comment ends between s and e.
Unended(t, s, e) == \A p \in s + 1 .. e - 1 : ~ (t[p] = "*" /\ At(t, p + 1) = "/")

\* The reader leaves any other one at the mark that ends it, and only there.
LEMMA BlockCloses ==
    ASSUME NEW t \in Seq(Symbols), NEW r, NEW f, Runs(r, f, t), NEW code \in Seq(Codes),
           NEW s \in 1 .. Len(t), r[s] = Reader("opened", code), At(t, s + 1) # "!",
           NEW e \in s + 1 .. Len(t) + 1, Unended(t, s, e)
    PROVE  /\ e > Len(t) => r[Len(t)].mode \notin {"code", "line"} /\ r[Len(t)].code = code
           /\ e < Len(t) /\ t[e] = "*" /\ t[e + 1] = "/" => r[e + 1] = Reader("code", code)
<1> DEFINE n == Len(t)
           T == {k \in Nat : /\ r[k].code = code
                             /\ r[k].mode \in {"opened", "block", "star"}
                             /\ r[k].mode = "opened" => k = s
                             /\ r[k].mode = "star" => k > s /\ t[k] = "*"}
<1>1. n \in Nat /\ \A p \in 1 .. n : At(t, p) = t[p]
  BY TextSymbols
<1>2. ASSUME NEW k \in 1 .. n
      PROVE  r[k - 1] \in States /\ r[k] = Read(r[k - 1], t[k])
  BY Reads
<1>3. s \in T
  BY DEF Reader
<1>4. ASSUME NEW k \in s .. (e - 1) - 1, k \in T PROVE k + 1 \in T
  <2>1. k + 1 \in 1 .. n /\ (k + 1) - 1 = k /\ k + 1 > s
    BY <1>1
  <2>2. r[k + 1] = Read(r[k], t[k + 1]) /\ r[k] \in States
    BY <1>2, <2>1
  <2>3. /\ r[k].code = code
        /\ r[k].mode \in {"opened", "block", "star"}
        /\ r[k].mode = "opened" => k = s
        /\ r[k].mode = "star" => k > s /\ t[k] = "*"
    BY <1>4
  <2>4. r[k + 1] = Reader(IF t[k + 1] = "*" THEN "star" ELSE "block", code)
    <3>1. CASE r[k].mode = "opened"
      <4>1. t[k + 1] # "!"
        BY <1>1, <2>1, <2>3, <3>1
      <4> QED BY <2>2, <2>3, <3>1, <4>1, ReadComment
    <3>2. CASE r[k].mode = "block"
      BY <2>2, <2>3, <3>2, ReadComment
    <3>3. CASE r[k].mode = "star"
      <4>1. k \in s + 1 .. e - 1 /\ t[k] = "*"
        BY <2>3, <3>3
      <4>2. t[k + 1] # "/"
        BY <1>1, <2>1, <4>1 DEF Unended
      <4> QED BY <2>2, <2>3, <3>3, <4>2, ReadComment
    <3> QED BY <2>3, <3>1, <3>2, <3>3
  <2>5. r[k + 1].code = code /\ r[k + 1].mode = IF t[k + 1] = "*" THEN "star" ELSE "block"
    BY <2>4 DEF Reader
  <2>6. k + 1 \in Nat
    BY <2>1
  <2> QED BY <2>1, <2>5, <2>6
<1>5. e - 1 \in T
  <2>1. s \in Nat /\ e - 1 \in Nat /\ e - 1 \in s .. e - 1
    BY <1>1
  <2> HIDE DEF T
  <2>2. \A k \in s .. e - 1 : k \in T
    BY <1>3, <1>4, <2>1, Forwards
  <2> QED BY <2>1, <2>2
<1>6. /\ r[e - 1].code = code
      /\ r[e - 1].mode \in {"opened", "block", "star"}
  BY <1>5
<1>7. ASSUME e > n PROVE r[n].mode \notin {"code", "line"} /\ r[n].code = code
  <2>1. e - 1 = n
    BY <1>1, <1>7
  <2> QED BY <1>6, <2>1
<1>8. ASSUME e < n, t[e] = "*", t[e + 1] = "/" PROVE r[e + 1] = Reader("code", code)
  <2>1. e \in 1 .. n /\ e + 1 \in 1 .. n /\ (e + 1) - 1 = e
    BY <1>1, <1>8
  <2>2. r[e] = Read(r[e - 1], "*") /\ r[e - 1] \in States
    BY <1>2, <1>8, <2>1
  <2>3. r[e + 1] = Read(r[e], "/") /\ r[e] \in States
    BY <1>2, <1>8, <2>1
  <2>4. r[e] = Reader("star", code)
    BY <1>6, <2>2, ReadComment
  <2>5. r[e].mode = "star" /\ r[e].code = code
    BY <2>4 DEF Reader
  <2> QED BY <2>3, <2>5, ReadComment
<1> QED BY <1>7, <1>8

\* They agree before such a comment if they agree behind it.
LEMMA BlockAgrees ==
    ASSUME NEW t \in Seq(Symbols), NEW r, NEW f, Runs(r, f, t), NEW i \in 1 .. Len(t),
           \A j \in i + 1 .. Len(t) + 1 : Agrees(r, f, t, j),
           Clean(r, t, i), ~ LineComment(t, i), BlockComment(t, i)
    PROVE  Promises(r, f, t, i, r[i - 1].code)
<1> DEFINE n == Len(t)
           code == r[i - 1].code
           cut == Append(code, " ")
           last == r[n].code
<1>1. /\ n \in Nat /\ code \in Seq(Codes) /\ At(t, i) = t[i] /\ t[i] # "end"
  BY Reads
<1>2. last \in Seq(Codes)
  <2>1. n \in 1 .. n
    BY <1>1
  <2> QED BY <2>1, Reads
<1>3. cut \in Seq(Codes) /\ LastOf(cut) = " " /\ " " \in Codes
  BY <1>1, CodeAppended, CodeSymbols
<1>4. PICK e : e = EndOfBlock(t, i)
  OBVIOUS
<1>5. /\ i + 1 <= n
      /\ e \in i + 2 .. n + 1
      /\ e <= n => t[e] = "*" /\ e + 1 <= n /\ t[e + 1] = "/" /\ AfterBlock(t, i) = e + 2
      /\ \A p \in i + 2 .. e - 1 : ~ (t[p] = "*" /\ At(t, p + 1) = "/")
  BY <1>4, BlockEnds
<1>6. r[i + 1] = Reader("opened", cut)
  BY BlockOpens
<1>7. i \in 1 .. n + 1 /\ i + 1 \in 1 .. n /\ (i + 1) + 1 = i + 2
  BY <1>1, <1>5
<1>8. \A g \in BOOLEAN : f[i][g] = VerdictAt(f, t, i, g)
  BY <1>7 DEF Runs, Scanning
<1>9. At(t, i) \notin White \cup {"end", "nul"}
  BY <1>1 DEF BlockComment, White
<1>10. " " \in White /\ " " \notin {";", "nul"}
  BY DEF White
<1>11. Extends(cut, code) /\ Extends(cut, cut)
  BY <1>1, <1>3, GoodAppended, ExtendsItself
<1>12. \A k \in i + 2 .. n + 1 : k \in i + 1 .. n + 1
  BY <1>1
<1>13. ASSUME At(t, i + 2) # "!"
       PROVE  /\ e > n => r[n].mode \notin {"code", "line"} /\ r[n].code = cut
              /\ e < n /\ t[e] = "*" /\ t[e + 1] = "/" => r[e + 1] = Reader("code", cut)
  <2> DEFINE s == i + 1
  <2>1. /\ s \in 1 .. n /\ r[s] = Reader("opened", cut) /\ At(t, s + 1) # "!"
        /\ e \in s + 1 .. n + 1
    BY <1>5, <1>6, <1>7, <1>13
  <2>2. Unended(t, s, e)
    BY <1>5, <1>7 DEF Unended
  <2>3. cut \in Seq(Codes) /\ t \in Seq(Symbols) /\ Runs(r, f, t)
    BY <1>3
  <2> HIDE DEF cut, s, code
  <2> QED BY <2>1, <2>2, <2>3, BlockCloses
<1>14. CASE At(t, i + 2) = "!"
  <2>1. r[n] = Reader("executable", cut)
    <3> HIDE DEF cut
    <3> QED BY <1>3, <1>6, <1>7, <1>14, BlockExecutes
  <2> HIDE DEF cut
  <2>2. r[n].mode = "executable" /\ r[n].code = cut
    BY <2>1 DEF Reader
  <2>3. f[i][TRUE] = "executable" /\ f[i][FALSE] = "executable"
    BY <1>8, <1>9, <1>14 DEF VerdictAt
  <2> QED BY <1>11, <2>2, <2>3 DEF Promises, Passed
<1>15. CASE At(t, i + 2) # "!" /\ e > n
  <2>1. r[n].mode \notin {"code", "line"} /\ r[n].code = cut
    BY <1>15, <1>13
  <2>2. f[i][TRUE] = "open comment" /\ f[i][FALSE] = "open comment"
    BY <1>4, <1>8, <1>9, <1>15 DEF VerdictAt
  <2> HIDE DEF cut
  <2> QED BY <1>11, <2>1, <2>2 DEF Promises, Passed
<1>16. CASE At(t, i + 2) # "!" /\ e <= n
  <2>1. e < n /\ e + 2 \in i + 1 .. n + 1 /\ (e + 2) - 1 = e + 1 /\ ~ (e > n)
    BY <1>1, <1>5, <1>16
  <2>2. r[e + 1] = Reader("code", cut)
    BY <1>5, <1>16, <1>13, <2>1
  <2>3. Clean(r, t, e + 2)
    <3> HIDE DEF cut
    <3> QED BY <1>3, <2>1, <2>2, CleanAfter
  <2>4. r[e + 1].code = cut
    <3> HIDE DEF cut
    <3> QED BY <2>2 DEF Reader
  <2>5. Promises(r, f, t, e + 2, cut)
    BY <2>1, <2>3, <2>4 DEF Agrees
  <2>6. f[i][TRUE] = f[e + 2][TRUE] /\ f[i][FALSE] = f[e + 2][FALSE]
    BY <1>4, <1>5, <1>8, <1>9, <1>16, <2>1 DEF VerdictAt
  <2>7. Promises(r, f, t, e + 2, Append(code, " "))
    BY <2>5
  <2> HIDE DEF code
  <2>8. /\ Extends(r[Len(t)].code, code)
        /\ Good(code) /\ Terminated(code) => (Passed(r, t) <=> f[e + 2][TRUE] = "ok")
        /\ Good(code) /\ ~ Terminated(code) => (Passed(r, t) <=> f[e + 2][FALSE] = "ok")
    BY <1>1, <1>2, <1>3, <1>10, <2>7, Onward
  <2> QED BY <2>6, <2>8 DEF Promises, code
<1> QED BY <1>1, <1>5, <1>14, <1>15, <1>16

-----------------------------------------------------------------------------
(* Quoted values.                                                            *)

Words == {"<literal>", "<name>"}

\* The code u continues v by quoted values only.
Quoted(u, v) ==
    /\ Len(v) < Len(u) /\ Extends(u, v)
    /\ \A k \in Len(v) + 1 .. Len(u) : u[k] \in Words

\* One quoted value more.
LEMMA QuotedAppended ==
    ASSUME NEW u \in Seq(Codes), NEW v \in Seq(Codes), u = v \/ Quoted(u, v), NEW w \in Words
    PROVE  Append(u, w) \in Seq(Codes) /\ Quoted(Append(u, w), v)
<1> DEFINE d == Append(u, w)
<1>1. w \in Codes
  BY CodeSymbols DEF Words
<1>2. /\ d \in Seq(Codes) /\ Len(d) = Len(u) + 1
      /\ (\A k \in 1 .. Len(u) : d[k] = u[k]) /\ d[Len(u) + 1] = w
  BY <1>1, CodeAppended
<1> HIDE DEF d
<1>3. Len(u) \in Nat /\ Len(v) \in Nat /\ Len(v) <= Len(u) /\ \A k \in 1 .. Len(v) : u[k] = v[k]
  BY CodePositions DEF Quoted, Extends
<1>4. Len(v) < Len(d) /\ Extends(d, v)
  <2>1. \A k \in 1 .. Len(v) : k \in 1 .. Len(u)
    BY <1>3
  <2> QED BY <1>2, <1>3, <2>1 DEF Extends
<1>5. ASSUME NEW k \in Len(v) + 1 .. Len(d) PROVE d[k] \in Words
  <2>1. k = Len(u) + 1 \/ (k \in 1 .. Len(u) /\ k \in Len(v) + 1 .. Len(u))
    BY <1>2, <1>3
  <2>2. CASE k = Len(u) + 1
    BY <1>2, <2>2
  <2>3. CASE k \in 1 .. Len(u) /\ k \in Len(v) + 1 .. Len(u)
    <3>1. u # v
      BY <1>3, <2>3
    <3> QED BY <1>2, <2>3, <3>1 DEF Quoted
  <2> QED BY <2>1, <2>2, <2>3
<1> QED BY <1>2, <1>4, <1>5 DEF Quoted, d

\* Quoted values are code, and belong to the statement that may have ended before.
LEMMA QuotedIs ==
    ASSUME NEW u \in Seq(Codes), NEW v \in Seq(Codes), Quoted(u, v)
    PROVE  /\ LastOf(u) \in Words /\ Extends(u, v)
           /\ Terminated(v) => ~ Good(u)
           /\ Good(v) /\ ~ Terminated(v) => Good(u) /\ ~ Terminated(u)
<1>1. Len(u) \in Nat /\ Len(v) \in Nat /\ \A k \in 1 .. Len(u) : At(u, k) = u[k]
  BY CodePositions
<1>2. /\ Len(v) < Len(u) /\ Extends(u, v) /\ \A k \in 1 .. Len(v) : u[k] = v[k]
      /\ \A k \in Len(v) + 1 .. Len(u) : u[k] \in Words
  BY DEF Quoted, Extends
<1>3. Len(u) \in 1 .. Len(u) /\ Len(u) \in Len(v) + 1 .. Len(u)
  BY <1>1, <1>2
<1>4. LastOf(u) = u[Len(u)] /\ u[Len(u)] \in Words
  BY <1>1, <1>2, <1>3 DEF LastOf
<1>5. \A w \in Words : w # "nul" /\ w # ";" /\ w \notin White
  BY DEF Words, White
<1>6. \A k \in 1 .. Len(u) : k \in 1 .. Len(v) \/ k \in Len(v) + 1 .. Len(u)
  BY <1>1, <1>2
<1>7. ASSUME Terminated(v) PROVE ~ Good(u)
  <2>1. PICK k \in 1 .. Len(v) : v[k] = ";"
    BY <1>7 DEF Terminated
  <2>2. u[k] = ";"
    BY <1>2, <2>1
  <2>3. k \in 1 .. Len(u) - 1
    <3>1. k \in Int /\ 1 <= k /\ k <= Len(v)
      BY <1>1
    <3> QED BY <1>1, <1>2, <3>1
  <2> QED BY <1>3, <1>4, <1>5, <2>2, <2>3 DEF Good
<1>8. ASSUME Good(v), ~ Terminated(v) PROVE Good(u) /\ ~ Terminated(u)
  <2>1. \A k \in 1 .. Len(u) : u[k] # ";" /\ u[k] # "nul"
    <3> TAKE k \in 1 .. Len(u)
    <3>1. CASE k \in 1 .. Len(v)
      BY <1>2, <1>8, <3>1 DEF Terminated, Good
    <3>2. CASE k \in Len(v) + 1 .. Len(u)
      BY <1>2, <1>5, <3>2
    <3> QED BY <1>6, <3>1, <3>2
  <2>2. \A j \in 1 .. Len(u) : \A k \in 1 .. j - 1 : k \in 1 .. Len(u)
    BY <1>1
  <2> QED BY <2>1, <2>2 DEF Terminated, Good
<1> QED BY <1>2, <1>4, <1>7, <1>8

\* The mode of the reader within a value, and what it makes of the value.
ModeOf(q) == IF q = "quote" THEN "literal" ELSE "name"

WordOf(q) == IF q = "quote" THEN "<literal>" ELSE "<name>"

\* Where the reader is when a value that follows the code ends before close.
GoesOn(r, t, close, code) ==
    /\ close = Unclosed(t) =>
         r[Len(t)].mode \notin {"code", "line"} /\ Extends(r[Len(t)].code, code)
    /\ close # Unclosed(t) =>
         \E d \in Seq(Codes) : Quoted(d, code) /\ r[close - 1] = Reader("code", d)

\* The reader within a value before p goes where f says.
Follows(r, t, f, q, code, p) ==
    \A d \in Seq(Codes) :
      Quoted(d, code) /\ r[p - 1] = Reader(ModeOf(q), d) => GoesOn(r, t, f[p], code)

\* Position by position, from the end of the text to its start.
LEMMA QuoteFollows ==
    ASSUME NEW t \in Seq(Symbols), NEW r, NEW v, Runs(r, v, t), NEW q \in {"quote", "backquote"},
           NEW f, Closings(f, t, q), NEW code \in Seq(Codes), NEW p \in 1 .. Len(t) + 1,
           \A j \in p + 1 .. Len(t) + 1 : Follows(r, t, f, q, code, j)
    PROVE  Follows(r, t, f, q, code, p)
<1> DEFINE n == Len(t)
<1>1. /\ n \in Nat
      /\ \A j \in 1 .. n : At(t, j) = t[j]
      /\ \A j : j \notin 1 .. n => At(t, j) = "end"
  BY TextSymbols
<1>2. \A j \in 1 .. n + 1 : f[j] = CloseAt(f, t, q, j)
  BY DEF Closings
<1>3. f[n + 1] = Unclosed(t)
  <2>1. n + 1 \in 1 .. n + 1 /\ n + 1 > n
    BY <1>1
  <2> QED BY <1>2, <2>1 DEF CloseAt
<1> SUFFICES ASSUME NEW d \in Seq(Codes), Quoted(d, code), r[p - 1] = Reader(ModeOf(q), d)
             PROVE  GoesOn(r, t, f[p], code)
  BY DEF Follows
<1>4. Extends(d, code)
  BY DEF Quoted
<1>5. r[p - 1].mode = ModeOf(q) /\ r[p - 1].code = d
  BY DEF Reader
<1>6. CASE p = n + 1
  <2>1. p - 1 = n
    BY <1>1, <1>6
  <2> QED BY <1>3, <1>4, <1>5, <1>6, <2>1 DEF GoesOn, ModeOf
<1>7. CASE p # n + 1
  <2>1. p \in 1 .. n /\ ~ (p > n) /\ p + 1 \in p + 1 .. n + 1 /\ (p + 1) - 1 = p
    BY <1>1, <1>7
  <2>2. r[p] = Read(r[p - 1], t[p]) /\ r[p - 1] \in States /\ r[p] \in States
    BY <2>1, Reads
  <2>3. f[p] = CloseAt(f, t, q, p)
    BY <1>2
  <2>4. CASE t[p] = "backslash" /\ q = "quote"
    <3>1. r[p] = Reader("escape", d)
      BY <1>5, <2>2, <2>4, ReadQuoted DEF ModeOf
    <3>2. r[p].mode = "escape" /\ r[p].code = d
      BY <3>1 DEF Reader
    <3>3. /\ f[p] = f[Min({p + 2, n + 1})]
          /\ Min({p + 2, n + 1}) = IF p + 2 <= n + 1 THEN p + 2 ELSE n + 1
      <4>1. p + 2 \in Nat /\ n + 1 \in Nat
        BY <1>1
      <4>2. f[p] = f[Min({p + 2, n + 1})]
        BY <2>1, <2>3, <2>4 DEF CloseAt
      <4> QED BY <4>1, <4>2, LesserIs
    <3>4. CASE p = n
      <4>1. ~ (p + 2 <= n + 1)
        BY <1>1, <3>4
      <4>2. f[p] = Unclosed(t)
        BY <1>3, <3>3, <4>1
      <4> QED BY <1>4, <3>2, <3>4, <4>2 DEF GoesOn
    <3>5. CASE p # n
      <4>1. p + 1 \in 1 .. n /\ p + 2 <= n + 1 /\ p + 2 \in p + 1 .. n + 1 /\ (p + 2) - 1 = p + 1
        BY <1>1, <2>1, <3>5
      <4>2. r[p + 1] = Read(r[p], t[p + 1])
        BY <2>1, <4>1, Reads
      <4>3. r[p + 1] = Reader(ModeOf(q), d)
        BY <2>2, <2>4, <3>2, <4>2, ReadQuoted DEF ModeOf
      <4>4. Follows(r, t, f, q, code, p + 2)
        BY <4>1
      <4>5. GoesOn(r, t, f[p + 2], code)
        BY <4>1, <4>3, <4>4 DEF Follows
      <4> QED BY <3>3, <4>1, <4>5
    <3> QED BY <3>4, <3>5
  <2>5. CASE t[p] = q
    <3>0. t[p] # "backslash"
      BY <2>5
    <3>1. r[p] = Reader("code", d)
      BY <1>5, <2>2, <2>5, ReadQuoted DEF ModeOf
    <3>2. r[p].mode = "code" /\ r[p].code = d
      BY <3>1 DEF Reader
    <3>3. CASE At(t, p + 1) = q
      <4>1. p + 1 \in 1 .. n /\ t[p + 1] = q
        BY <1>1, <3>3
      <4>2. p + 2 \in p + 1 .. n + 1 /\ (p + 2) - 1 = p + 1
        BY <1>1, <4>1
      <4>3. r[p + 1] = Read(r[p], q)
        BY <2>1, <4>1, Reads
      <4>4. r[p + 1] = Reader(ModeOf(q), Append(d, WordOf(q)))
        <5>1. CASE q = "quote"
          BY <2>2, <3>2, <4>3, <5>1, ReadCode DEF ModeOf, WordOf
        <5>2. CASE q = "backquote"
          BY <2>2, <3>2, <4>3, <5>2, ReadCode DEF ModeOf, WordOf
        <5> QED BY <5>1, <5>2
      <4>5. WordOf(q) \in Words
        BY DEF WordOf, Words
      <4>6. Append(d, WordOf(q)) \in Seq(Codes) /\ Quoted(Append(d, WordOf(q)), code)
        BY <4>5, QuotedAppended
      <4>7. Follows(r, t, f, q, code, p + 2)
        BY <4>2
      <4>8. GoesOn(r, t, f[p + 2], code)
        BY <4>2, <4>4, <4>6, <4>7 DEF Follows
      <4>9. f[p] = f[p + 2]
        BY <2>1, <2>3, <2>5, <3>0, <3>3 DEF CloseAt
      <4> QED BY <4>8, <4>9
    <3>4. CASE At(t, p + 1) # q
      <4>1. f[p] = p + 1
        BY <2>1, <2>3, <2>5, <3>0, <3>4 DEF CloseAt
      <4>2. f[p] # Unclosed(t) /\ f[p] - 1 = p
        BY <1>1, <2>1, <4>1 DEF Unclosed
      <4> QED BY <3>1, <4>2 DEF GoesOn
    <3> QED BY <3>3, <3>4
  <2>6. CASE t[p] # q /\ ~ (t[p] = "backslash" /\ q = "quote")
    <3>1. r[p] = Reader(ModeOf(q), d)
      <4>1. CASE q = "quote"
        BY <1>5, <2>2, <2>6, <4>1, ReadQuoted DEF ModeOf
      <4>2. CASE q = "backquote"
        BY <1>5, <2>2, <2>6, <4>2, ReadQuoted DEF ModeOf
      <4> QED BY <4>1, <4>2
    <3>2. Follows(r, t, f, q, code, p + 1)
      BY <2>1
    <3>3. GoesOn(r, t, f[p + 1], code)
      BY <2>1, <3>1, <3>2 DEF Follows
    <3>4. f[p] = f[p + 1]
      BY <2>1, <2>3, <2>6 DEF CloseAt
    <3> QED BY <3>3, <3>4
  <2> QED BY <2>4, <2>5, <2>6
<1> QED BY <1>6, <1>7

\* They agree before a quoted value if they agree behind it.
LEMMA QuoteAgrees ==
    ASSUME NEW t \in Seq(Symbols), NEW r, NEW f, Runs(r, f, t), NEW i \in 1 .. Len(t),
           \A j \in i + 1 .. Len(t) + 1 : Agrees(r, f, t, j),
           Clean(r, t, i), t[i] \in {"quote", "backquote"}
    PROVE  Promises(r, f, t, i, r[i - 1].code)
<1> DEFINE n == Len(t)
           q == t[i]
           code == r[i - 1].code
           open == Append(code, WordOf(q))
           last == r[n].code
           close == AfterQuote(t, i)
<1>1. /\ n \in Nat /\ code \in Seq(Codes) /\ At(t, i) = q
      /\ r[i - 1] \in States /\ r[i] = Read(r[i - 1], q)
  BY Reads
<1>2. last \in Seq(Codes)
  <2>1. n \in 1 .. n
    BY <1>1
  <2> QED BY <2>1, Reads
<1>3. r[i - 1].mode = "code"
  BY DEF Clean
<1>4. r[i] = Reader(ModeOf(q), open)
  <2>1. CASE q = "quote"
    BY <1>1, <1>3, <2>1, ReadCode DEF ModeOf, WordOf
  <2>2. CASE q = "backquote"
    BY <1>1, <1>3, <2>2, ReadCode DEF ModeOf, WordOf
  <2> QED BY <2>1, <2>2
<1>5. open \in Seq(Codes) /\ Quoted(open, code)
  <2>1. WordOf(q) \in Words
    BY DEF WordOf, Words
  <2> QED BY <1>1, <2>1, QuotedAppended
<1>6. PICK g : Closings(g, t, q) /\ close = g[i + 1]
  BY QuoteClosing
<1>7. i + 1 \in 1 .. n + 1 /\ (i + 1) - 1 = i /\ i \in 1 .. n + 1
  BY <1>1
<1>8. \A p \in 1 .. n + 1 : Follows(r, t, g, q, code, p)
  <2> DEFINE T == {p \in 1 .. n + 1 : Follows(r, t, g, q, code, p)}
  <2> HIDE DEF code, open, last, close
  <2>1. ASSUME NEW p \in 1 .. n + 1, \A j \in p + 1 .. n + 1 : j \in T PROVE p \in T
    <3>1. \A j \in p + 1 .. n + 1 : Follows(r, t, g, q, code, j)
      BY <2>1
    <3> HIDE DEF q
    <3>2. q \in {"quote", "backquote"}
      BY DEF q
    <3>3. Follows(r, t, g, q, code, p)
      BY <1>1, <1>6, <3>1, <3>2, QuoteFollows
    <3> QED BY <3>3
  <2>2. n + 1 \in Nat /\ T \in SUBSET (1 .. n + 1)
    BY <1>1
  <2> HIDE DEF T
  <2>3. \A p \in 1 .. n + 1 : p \in T
    BY <2>1, <2>2, Backwards
  <2> QED BY <2>3 DEF T
<1>9. GoesOn(r, t, close, code)
  <2>1. Follows(r, t, g, q, code, i + 1)
    BY <1>7, <1>8
  <2> HIDE DEF code, open, last, close, q
  <2> QED BY <1>4, <1>5, <1>6, <1>7, <2>1 DEF Follows
<1>10. \A e \in BOOLEAN : f[i][e] = VerdictAt(f, t, i, e)
  BY <1>7 DEF Runs, Scanning
<1>11. At(t, i) \notin White \cup {"end", "nul"} /\ ~ LineComment(t, i) /\ ~ BlockComment(t, i)
       /\ q # ";"
  BY <1>1 DEF White, LineComment, BlockComment
<1>12. f[i][TRUE] = "two statements"
  BY <1>10, <1>11 DEF VerdictAt
<1>13. CASE close = Unclosed(t)
  <2>1. f[i][FALSE] = "open quote"
    BY <1>10, <1>11, <1>13 DEF VerdictAt
  <2>2. ~ Passed(r, t) /\ Extends(last, code)
    BY <1>9, <1>13 DEF GoesOn, Passed
  <2> QED BY <1>12, <2>1, <2>2 DEF Promises
<1>14. CASE close # Unclosed(t)
  <2>1. close \in i + 1 .. n + 1
    BY <1>14, QuoteEnds
  <2>2. f[i][FALSE] = f[close][FALSE]
    BY <1>10, <1>11, <1>14 DEF VerdictAt
  <2> HIDE DEF code, close
  <2>3. PICK d \in Seq(Codes) : Quoted(d, code) /\ r[close - 1] = Reader("code", d)
    BY <1>9, <1>14 DEF GoesOn
  <2>4. /\ LastOf(d) \in Words /\ Extends(d, code)
        /\ Terminated(code) => ~ Good(d)
        /\ Good(code) /\ ~ Terminated(code) => Good(d) /\ ~ Terminated(d)
    BY <1>1, <2>3, QuotedIs
  <2>5. Clean(r, t, close)
    <3>1. LastOf(d) \notin {"/", "-"}
      BY <2>4 DEF Words
    <3> QED BY <2>3, <3>1, CleanAfter
  <2>6. r[close - 1].code = d
    BY <2>3 DEF Reader
  <2>7. Promises(r, f, t, close, d)
    BY <2>1, <2>5, <2>6 DEF Agrees
  <2>8. Extends(last, d)
    BY <2>7 DEF Promises
  <2> HIDE DEF last
  <2>9. Extends(last, code) /\ (Good(last) => Good(d))
    BY <1>1, <1>2, <2>4, <2>8, ExtendsOn
  <2>10. Passed(r, t) => Good(d)
    BY <2>9 DEF Passed, last
  <2>11. Good(d) /\ ~ Terminated(d) => (Passed(r, t) <=> f[close][FALSE] = "ok")
    BY <2>7 DEF Promises
  <2> QED BY <1>12, <2>2, <2>4, <2>9, <2>10, <2>11 DEF Promises, code, last
<1> QED BY <1>13, <1>14

-----------------------------------------------------------------------------
(* All positions.                                                            *)

\* They agree at every position.
LEMMA AllAgree ==
    ASSUME NEW t \in Seq(Symbols), NEW r, NEW f, Runs(r, f, t)
    PROVE  \A i \in 1 .. Len(t) + 1 : Agrees(r, f, t, i)
<1> DEFINE n == Len(t)
           T == {i \in 1 .. n + 1 : Agrees(r, f, t, i)}
<1>1. n \in Nat
  BY TextSymbols
<1>2. ASSUME NEW i \in 1 .. n + 1, \A j \in i + 1 .. n + 1 : j \in T
      PROVE  Agrees(r, f, t, i)
  <2>1. \A j \in i + 1 .. n + 1 : Agrees(r, f, t, j)
    BY <1>2
  <2>2. CASE i = n + 1
    BY <2>2, AtTheEnd
  <2>3. CASE i # n + 1
    <3>1. i \in 1 .. n /\ i + 1 \in i + 1 .. n + 1
      BY <1>1, <2>3
    <3>2. Agrees(r, f, t, i + 1)
      BY <2>1, <3>1
    <3> SUFFICES ASSUME Clean(r, t, i) PROVE Promises(r, f, t, i, r[i - 1].code)
      BY DEF Agrees
    <3>3. CASE LineComment(t, i)
      BY <2>1, <3>1, <3>3, LineAgrees
    <3>4. CASE ~ LineComment(t, i) /\ BlockComment(t, i)
      BY <2>1, <3>1, <3>4, BlockAgrees
    <3>5. CASE t[i] \in {"quote", "backquote"}
      BY <2>1, <3>1, <3>5, QuoteAgrees
    <3>6. CASE ~ LineComment(t, i) /\ ~ BlockComment(t, i) /\ t[i] \notin {"quote", "backquote"}
      BY <3>1, <3>2, <3>6, SymbolAgrees
    <3> QED BY <3>3, <3>4, <3>5, <3>6
  <2> QED BY <2>2, <2>3
<1>3. ASSUME NEW i \in 1 .. n + 1, \A j \in i + 1 .. n + 1 : j \in T PROVE i \in T
  BY <1>2, <1>3
<1>4. n + 1 \in Nat /\ T \in SUBSET (1 .. n + 1)
  BY <1>1
<1>5. \A i \in 1 .. n + 1 : i \in T
  <2> HIDE DEF T
  <2> QED BY <1>3, <1>4, Backwards
<1> QED BY <1>5

\* So they agree on the text.
LEMMA ScannerIsReader ==
    ASSUME NEW t \in Seq(Symbols)
    PROVE  ScanStatement(t) <=> Complete(t)
<1>1. Len(t) \in Nat
  BY TextSymbols
<1>2. PICK r : /\ Readings(r, t)
               /\ \A k \in 0 .. Len(t) : r[k] \in States
               /\ Reading(t) = r[Len(t)]
  BY ReadingRuns
<1>3. PICK f : Scanning(f, t) /\ Verdict(t) = f[1][FALSE]
  BY VerdictScans
<1>4. Runs(r, f, t)
  BY <1>2, <1>3 DEF Runs
<1>5. Agrees(r, f, t, 1)
  <2>1. 1 \in 1 .. Len(t) + 1
    BY <1>1
  <2> QED BY <1>4, <2>1, AllAgree
<1>6. r[0] = Reader("code", <<>>)
  BY <1>2 DEF Readings
<1>7. r[1 - 1] = Reader("code", <<>>) /\ r[1 - 1].code = <<>>
  BY <1>6 DEF Reader
<1>8. LastOf(<<>>) = "end"
  BY DEF LastOf, At
<1>9. Good(<<>>) /\ ~ Terminated(<<>>)
  BY DEF Good, Terminated
<1>10. Clean(r, t, 1)
  BY <1>7, <1>8, CleanAfter
<1>11. Passed(r, t) <=> f[1][FALSE] = "ok"
  BY <1>5, <1>7, <1>9, <1>10 DEF Agrees, Promises
<1>12. Complete(t) <=> Passed(r, t)
  <2>1. r[Len(t)] \in States
    BY <1>1, <1>2
  <2>2. DOMAIN r[Len(t)].code = 1 .. Len(r[Len(t)].code)
    BY <2>1, ReaderIs, CodePositions
  <2> QED BY <1>2, <2>2 DEF Complete, Passed, Good
<1> QED BY <1>3, <1>11, <1>12 DEF ScanStatement

\* The texts of the specification are made of symbols.
LEMMA TextGrows ==
    TextSpec => [](text \in Seq(Symbols))
<1>1. TextInit => text \in Seq(Symbols)
  BY EmptySeq DEF TextInit
<1>2. text \in Seq(Symbols) /\ [TextNext]_textVars => (text \in Seq(Symbols))'
  <2> SUFFICES ASSUME text \in Seq(Symbols), [TextNext]_textVars PROVE text' \in Seq(Symbols)
    OBVIOUS
  <2>1. CASE \E piece \in Pieces : AddPiece(piece)
    <3>1. PICK piece \in Pieces : AddPiece(piece)
      BY <2>1
    <3>2. piece \in Seq(Symbols)
      BY SqlTextAssumption
    <3>3. text \o piece \in Seq(Symbols)
      BY <3>2, ConcatProperties
    <3> QED BY <3>1, <3>3 DEF AddPiece
  <2>2. CASE \E c \in DOMAIN Values : \E v \in Values[c] : NameColumn(c, v)
    BY <2>2 DEF NameColumn
  <2>3. CASE UNCHANGED textVars
    BY <2>3 DEF textVars
  <2> QED BY <2>1, <2>2, <2>3 DEF TextNext
<1> QED BY <1>1, <1>2, PTL DEF TextSpec

\* A text of any length passes the validator exactly when a reader that goes
\* one symbol at a time finds one whole statement.
THEOREM StatementsAreWhole ==
    TextSpec => []OneWholeStatement
<1>1. text \in Seq(Symbols) => OneWholeStatement
  BY ScannerIsReader DEF OneWholeStatement
<1> QED BY <1>1, TextGrows, PTL

\* What invalidates the ranking stays in the lane of the rows it announces.
THEOREM MarkersStayBehind ==
    TextSpec => []MarkersFollowTheirRows
<1>1. \A m : InvalidatesPoints(m) => LaneFor(m) = LaneForTable(<<"whaletracker_log_players">>)
  <2> TAKE m
  <2> HAVE InvalidatesPoints(m)
  <2>1. TargetTable(HeadTokens(m)) = <<"whaletracker_logs">>
    BY DEF InvalidatesPoints, InvalidatesTable
  <2>2. LaneForTable(<<"whaletracker_logs">>) = LaneForTable(<<"whaletracker_log_players">>)
    BY DEF LaneForTable
  <2> QED BY <2>1, <2>2 DEF LaneFor
<1>2. MarkersFollowTheirRows
  BY <1>1 DEF MarkersFollowTheirRows
<1> QED BY <1>2, PTL
=============================================================================

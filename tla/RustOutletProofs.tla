-------------------------- MODULE RustOutletProofs --------------------------
(* Theorems about RustOutlet, for every number of writes, sockets, lanes and  *)
(* failures: types, the barrier between the two paths to the database, that   *)
(* no write is forgotten, and the order in which writes take effect.          *)
EXTENDS RustOutlet, SelectionProofs

Query == [write : Writes, ran : BOOLEAN]

\* What is at the database thread, and the local path as a whole.
Submitted == [i \in 1 .. Len(executing) |-> executing[i].write]
Local == Submitted \o saveQueue

\* What the outlet owns, the batch in flight first.
Owned == inflight \o queue

-----------------------------------------------------------------------------
(* Sequences of writes.                                                      *)

LEMMA MinOfTwo ==
    \A a, b \in Int : Min({a, b}) \in {a, b} /\ Min({a, b}) <= a /\ Min({a, b}) <= b
<1> TAKE a, b \in Int
<1>1. \E x \in {a, b} : \A y \in {a, b} : x =< y
  <2>1. CASE a <= b BY <2>1
  <2>2. CASE b <= a BY <2>2
  <2> QED BY <2>1, <2>2
<1> QED BY <1>1 DEF Min

LEMMA Numbers ==
    ASSUME NEW s \in Seq(Writes), OutletAssumption
    PROVE  s \in Seq(Nat) /\ ToSet(s) \subseteq Writes /\ ToSet(s) \subseteq Nat
<1>1. Writes \subseteq Nat
  BY DEF Writes, OutletAssumption
<1>2. \A i \in 1 .. Len(s) : s[i] \in Writes
  BY ElementOfSeq
<1>3. s \in Seq(Nat)
  <2>1. s \in [1 .. Len(s) -> Nat] /\ Len(s) \in Nat
    BY <1>1, <1>2, LenProperties
  <2> QED BY <2>1, SeqDef
<1> QED BY <1>1, <1>3, Elements

-----------------------------------------------------------------------------
(* Channels.                                                                 *)

Served == {"no", "connecting", "idle", "waiting"}
Channel == [served : Served, up : Seq(Message), job : Message, down : Seq(Message)]

\* Batches on the way or at a handler, and answers that end a batch.
Carried(c) == {m \in ToSet(c.up) \cup {c.job} : m.kind = "batch"}
AcksOf(c) == {m \in ToSet(c.down) : m.kind = "ack"}

Good(c) ==
    /\ c \in Channel
    /\ \A m \in Carried(c) \cup AcksOf(c) : m.id \in BatchIds
    /\ c.served = "waiting" => c.job.kind = "batch"

\* c carries nothing that d does not.
NoMore(c, d) == Good(c) /\ Carried(c) \subseteq Carried(d) /\ AcksOf(c) \subseteq AcksOf(d)

LEMMA Messages ==
    /\ Hello \in Message /\ Hello.kind # "batch"
    /\ \A kind \in {"connected", "hello_ack", "ack", "error", "closed"},
          id \in BatchIds \cup {NoBatch} :
             Reply(kind, id) \in Message /\ Reply(kind, id).kind = kind /\ Reply(kind, id).id = id
    /\ \A id \in BatchIds, ws \in Seq(Writes) :
          Batch(id, ws) \in Message /\ Batch(id, ws).kind = "batch"
<1>1. <<>> \in Seq(Writes)
  BY EmptySeq
<1> QED BY <1>1 DEF Message, Hello, Reply, Batch

\* A channel put together from parts that carry no more than c.
LEMMA Assembled ==
    ASSUME NEW c, Good(c), NEW served \in Served, NEW up \in Seq(Message),
           NEW job \in Message, NEW down \in Seq(Message),
           \A m \in ToSet(up) \cup {job} : m.kind = "batch" => m \in Carried(c),
           \A m \in ToSet(down) : m.kind = "ack" => m \in AcksOf(c),
           served = "waiting" => job.kind = "batch"
    PROVE  NoMore([served |-> served, up |-> up, job |-> job, down |-> down], c)
<1> DEFINE d == [served |-> served, up |-> up, job |-> job, down |-> down]
<1>1. d \in Channel /\ d.up = up /\ d.job = job /\ d.down = down /\ d.served = served
  BY DEF Channel
<1> HIDE DEF d
<1>2. Carried(d) \subseteq Carried(c) /\ AcksOf(d) \subseteq AcksOf(c)
  <2>1. \A m \in Carried(d) : m \in Carried(c)
    <3> TAKE m \in Carried(d)
    <3>1. m \in ToSet(up) \cup {job} /\ m.kind = "batch"
      BY <1>1 DEF Carried
    <3> QED BY <3>1
  <2>2. \A m \in AcksOf(d) : m \in AcksOf(c)
    <3> TAKE m \in AcksOf(d)
    <3>1. m \in ToSet(down) /\ m.kind = "ack"
      BY <1>1 DEF AcksOf
    <3> QED BY <3>1
  <2> QED BY <2>1, <2>2
<1>3. \A m \in Carried(c) \cup AcksOf(c) : m.id \in BatchIds
  BY DEF Good
<1>4. NoMore(d, c)
  BY <1>1, <1>2, <1>3 DEF NoMore, Good
<1> QED BY <1>4 DEF d

\* The parts of a channel.
LEMMA Parts ==
    ASSUME NEW c, Good(c)
    PROVE  /\ c.served \in Served /\ c.up \in Seq(Message) /\ c.job \in Message
           /\ c.down \in Seq(Message)
           /\ c = [served |-> c.served, up |-> c.up, job |-> c.job, down |-> c.down]
  BY DEF Good, Channel

LEMMA Contents ==
    ASSUME NEW c, Good(c)
    PROVE  /\ \A m \in ToSet(c.up) \cup {c.job} : m.kind = "batch" => m \in Carried(c)
           /\ \A m \in ToSet(c.down) : m.kind = "ack" => m \in AcksOf(c)
           /\ c.served = "waiting" => c.job.kind = "batch" /\ c.job \in Carried(c)
  BY DEF Good, Carried, AcksOf

LEMMA FreeIsGood == Good(Free) /\ \A c : Good(c) => NoMore(Free, c)
<1>1. <<>> \in Seq(Message) /\ ToSet(<<>>) = {} /\ Hello \in Message /\ Hello.kind # "batch"
  BY EmptySeq, ElementsOfFew, Messages
<1>2. Free \in Channel /\ Free.up = <<>> /\ Free.down = <<>> /\ Free.job = Hello
      /\ Free.served = "no"
  BY <1>1 DEF Free, Channel, Served
<1>3. Carried(Free) = {} /\ AcksOf(Free) = {}
  BY <1>1, <1>2 DEF Carried, AcksOf
<1> QED BY <1>2, <1>3 DEF Good, NoMore

\* Reading an answer, opening a connection, sending the hello.
LEMMA PluginsEnd ==
    ASSUME NEW c, Good(c)
    PROVE  /\ c.down # <<>> => NoMore([c EXCEPT !.down = Tail(@)], c)
           /\ NoMore([c EXCEPT !.served = "connecting"], c)
           /\ NoMore(Sent(c, Hello), c)
           /\ NoMore(c, c)
<1> DEFINE served == c.served
           up == c.up
           job == c.job
           down == c.down
<1>1. /\ served \in Served /\ up \in Seq(Message) /\ job \in Message
      /\ down \in Seq(Message)
      /\ c = [served |-> served, up |-> up, job |-> job, down |-> down]
  BY Parts
<1>2. /\ \A m \in ToSet(up) \cup {job} : m.kind = "batch" => m \in Carried(c)
      /\ \A m \in ToSet(down) : m.kind = "ack" => m \in AcksOf(c)
      /\ served = "waiting" => job.kind = "batch"
  BY Contents
<1>3. NoMore(c, c)
  BY DEF NoMore
<1>4. Sent(c, Hello) = IF served = "no" THEN c ELSE [c EXCEPT !.up = Append(up, Hello)]
  BY DEF Sent
<1>5. [c EXCEPT !.down = Tail(@)] = [c EXCEPT !.down = Tail(down)]
  OBVIOUS
<1>6. (c.down # <<>>) <=> (down # <<>>)
  OBVIOUS
<1> HIDE DEF served, up, job, down
<1>7. ASSUME down # <<>>
      PROVE  NoMore([c EXCEPT !.down = Tail(@)], c)
  <2> DEFINE t == Tail(down)
  <2>1. t \in Seq(Message) /\ ToSet(down) = {Head(down)} \cup ToSet(t)
    BY <1>1, <1>7, HeadAndTail, Zenon
  <2>5. [c EXCEPT !.down = Tail(@)] = [c EXCEPT !.down = t]
    BY <1>5
  <2> HIDE DEF t
  <2>2. [c EXCEPT !.down = t] = [served |-> served, up |-> up, job |-> job, down |-> t]
    BY <1>1
  <2>3. \A m \in ToSet(t) : m.kind = "ack" => m \in AcksOf(c)
    BY <1>2, <2>1
  <2>4. NoMore([served |-> served, up |-> up, job |-> job, down |-> t], c)
    BY <1>1, <1>2, <2>1, <2>3, Assembled, Zenon
  <2> QED BY <2>2, <2>4, <2>5
<1>8. NoMore([c EXCEPT !.served = "connecting"], c)
  <2>1. [c EXCEPT !.served = "connecting"]
          = [served |-> "connecting", up |-> up, job |-> job, down |-> down]
    BY <1>1
  <2>2. "connecting" \in Served
    BY DEF Served
  <2>3. NoMore([served |-> "connecting", up |-> up, job |-> job, down |-> down], c)
    BY <1>1, <1>2, <2>2, Assembled
  <2> QED BY <2>1, <2>3
<1>9. NoMore(Sent(c, Hello), c)
  <2> DEFINE u == Append(up, Hello)
  <2>1. CASE served = "no"
    BY <2>1, <1>3, <1>4
  <2>2. CASE served # "no"
    <3>1. u \in Seq(Message) /\ ToSet(u) = ToSet(up) \cup {Hello}
      BY <1>1, Messages, Appended
    <3>2. Sent(c, Hello) = [served |-> served, up |-> u, job |-> job, down |-> down]
      BY <1>1, <1>4, <2>2
    <3> HIDE DEF u
    <3>3. \A m \in ToSet(u) \cup {job} : m.kind = "batch" => m \in Carried(c)
      BY <1>2, <3>1, Messages
    <3>4. NoMore([served |-> served, up |-> u, job |-> job, down |-> down], c)
      BY <1>1, <1>2, <3>1, <3>3, Assembled, Zenon
    <3> QED BY <3>2, <3>4
  <2> QED BY <2>1, <2>2
<1> QED BY <1>3, <1>6, <1>7, <1>8, <1>9

\* Sending a batch.
LEMMA Sending ==
    ASSUME NEW c, Good(c), NEW id \in BatchIds, NEW ws \in Seq(Writes)
    PROVE  /\ Good(Sent(c, Batch(id, ws)))
           /\ Carried(Sent(c, Batch(id, ws))) \subseteq Carried(c) \cup {Batch(id, ws)}
           /\ AcksOf(Sent(c, Batch(id, ws))) = AcksOf(c)
<1> DEFINE m == Batch(id, ws)
           d == [c EXCEPT !.up = Append(c.up, m)]
<1>1. CASE c.served = "no"
  BY <1>1 DEF Sent
<1>2. CASE c.served # "no"
  <2>1. Sent(c, m) = d
    BY <1>2 DEF Sent
  <2>2. m \in Message /\ m.id = id
    BY Messages DEF Batch
  <2> DEFINE u == Append(c.up, m)
  <2> HIDE DEF m
  <2>3. u \in Seq(Message) /\ ToSet(u) = ToSet(c.up) \cup {m}
    BY <2>2, Parts, Appended
  <2>4. d = [c EXCEPT !.up = u]
    OBVIOUS
  <2> HIDE DEF u, d
  <2>5. /\ d \in Channel /\ d.served = c.served /\ d.up = u /\ d.job = c.job
        /\ d.down = c.down
    BY <2>3, <2>4 DEF Good, Channel
  <2>6. Carried(d) \subseteq Carried(c) \cup {m} /\ AcksOf(d) = AcksOf(c)
    BY <2>3, <2>5 DEF Carried, AcksOf
  <2>7. Good(d)
    BY <2>2, <2>5, <2>6 DEF Good
  <2> QED BY <2>1, <2>6, <2>7 DEF m
<1> QED BY <1>1, <1>2

\* The end of a connection, whatever reaches the plugin of it.
LEMMA Ending ==
    ASSUME NEW c, Good(c), NEW replies \in {<<>>, c.down}
    PROVE  /\ NoMore(Closed(replies), c)
           /\ NoMore([Free EXCEPT !.down = replies], c)
           /\ \A id \in BatchIds \cup {NoBatch} :
                 NoMore(Closed(Append(c.down, Reply("error", id))), c)
<1>1. <<>> \in Seq(Message) /\ ToSet(<<>>) = {}
  BY EmptySeq, ElementsOfFew
<1>2. ASSUME NEW r \in Seq(Message), \A m \in ToSet(r) : m.kind = "ack" => m \in AcksOf(c)
      PROVE  NoMore([Free EXCEPT !.down = r], c)
  <2>1. [Free EXCEPT !.down = r] = [served |-> "no", up |-> <<>>, job |-> Hello, down |-> r]
    BY DEF Free
  <2>2. "no" \in Served /\ Hello \in Message /\ Hello.kind # "batch"
    BY Messages DEF Served
  <2> DEFINE e == <<>>
  <2>3. e \in Seq(Message) /\ \A m \in ToSet(e) \cup {Hello} : m.kind = "batch" => m \in Carried(c)
    BY <1>1, <2>2
  <2> HIDE DEF e
  <2>4. NoMore([served |-> "no", up |-> e, job |-> Hello, down |-> r], c)
    BY <1>2, <2>2, <2>3, Assembled
  <2> QED BY <2>1, <2>4 DEF e
<1>3. ASSUME NEW r \in Seq(Message), \A m \in ToSet(r) : m.kind = "ack" => m \in AcksOf(c)
      PROVE  NoMore(Closed(r), c)
  <2> DEFINE last == Reply("closed", NoBatch)
             q == Append(r, last)
  <2>1. last \in Message /\ last.kind = "closed"
    BY Messages
  <2> HIDE DEF last
  <2>2. q \in Seq(Message) /\ ToSet(q) = ToSet(r) \cup {last}
    BY <2>1, Appended
  <2>3. Closed(r) = [Free EXCEPT !.down = q]
    BY DEF Closed, last
  <2> HIDE DEF q
  <2>4. \A m \in ToSet(q) : m.kind = "ack" => m \in AcksOf(c)
    BY <1>3, <2>1, <2>2
  <2> QED BY <1>2, <2>2, <2>3, <2>4
<1>4. c.down \in Seq(Message) /\ \A m \in ToSet(c.down) : m.kind = "ack" => m \in AcksOf(c)
  BY Parts, Contents
<1>5. replies \in Seq(Message) /\ \A m \in ToSet(replies) : m.kind = "ack" => m \in AcksOf(c)
  BY <1>1, <1>4
<1>6. ASSUME NEW id \in BatchIds \cup {NoBatch}
      PROVE  NoMore(Closed(Append(c.down, Reply("error", id))), c)
  <2> DEFINE m0 == Reply("error", id)
             q == Append(c.down, m0)
  <2>1. m0 \in Message /\ m0.kind = "error"
    BY Messages
  <2> HIDE DEF m0
  <2>2. q \in Seq(Message) /\ ToSet(q) = ToSet(c.down) \cup {m0}
    BY <1>4, <2>1, Appended
  <2> HIDE DEF q
  <2>3. \A m \in ToSet(q) : m.kind = "ack" => m \in AcksOf(c)
    BY <1>4, <2>1, <2>2
  <2>4. NoMore(Closed(q), c)
    BY <1>3, <2>2, <2>3
  <2> QED BY <2>4 DEF q, m0
<1> QED BY <1>2, <1>3, <1>5, <1>6

\* What a handler thread does between two frames.
LEMMA HandlersEnd ==
    ASSUME NEW c, Good(c)
    PROVE  /\ NoMore([c EXCEPT !.served = "idle",
                               !.down = Append(@, Reply("connected", NoBatch))], c)
           /\ c.up # <<>> =>
                /\ NoMore([c EXCEPT !.up = Tail(@),
                                    !.down = Append(@, Reply("hello_ack", NoBatch))], c)
                /\ Head(c.up).kind = "batch" =>
                      NoMore([c EXCEPT !.up = Tail(@), !.served = "waiting",
                                       !.job = Head(c.up)], c)
<1> DEFINE served == c.served
           up == c.up
           job == c.job
           down == c.down
           t == Tail(up)
           h == Head(up)
           d1 == Append(down, Reply("connected", NoBatch))
           d2 == Append(down, Reply("hello_ack", NoBatch))
<1>1. /\ served \in Served /\ up \in Seq(Message) /\ job \in Message
      /\ down \in Seq(Message)
  BY Parts
<1>0. c = [served |-> served, up |-> up, job |-> job, down |-> down]
  BY Parts
<1>2. /\ \A m \in ToSet(up) \cup {job} : m.kind = "batch" => m \in Carried(c)
      /\ \A m \in ToSet(down) : m.kind = "ack" => m \in AcksOf(c)
      /\ served = "waiting" => job.kind = "batch"
  BY Contents
<1>3. /\ [c EXCEPT !.served = "idle", !.down = Append(@, Reply("connected", NoBatch))]
           = [c EXCEPT !.served = "idle", !.down = d1]
      /\ [c EXCEPT !.up = Tail(@), !.down = Append(@, Reply("hello_ack", NoBatch))]
           = [c EXCEPT !.up = t, !.down = d2]
      /\ [c EXCEPT !.up = Tail(@), !.served = "waiting", !.job = Head(c.up)]
           = [c EXCEPT !.up = t, !.served = "waiting", !.job = h]
      /\ Head(c.up) = h /\ c.up = up
  OBVIOUS
<1>4. up # <<>> => t \in Seq(Message) /\ h \in Message /\ ToSet(up) = {h} \cup ToSet(t)
  BY <1>1, HeadAndTail
<1>5. ASSUME NEW r \in {Reply("connected", NoBatch), Reply("hello_ack", NoBatch)}
      PROVE  /\ Append(down, r) \in Seq(Message)
             /\ \A m \in ToSet(Append(down, r)) : m.kind = "ack" => m \in AcksOf(c)
  <2>1. r \in Message /\ r.kind # "ack"
    BY <1>5, Messages
  <2> DEFINE q == Append(down, r)
  <2>2. q \in Seq(Message) /\ ToSet(q) = ToSet(down) \cup {r}
    BY <1>1, <2>1, Appended
  <2> HIDE DEF q, down
  <2>3. \A m \in ToSet(q) : m.kind = "ack" => m \in AcksOf(c)
    BY <1>2, <2>1, <2>2
  <2> QED BY <2>2, <2>3 DEF q
<1>6. /\ d1 \in Seq(Message) /\ \A m \in ToSet(d1) : m.kind = "ack" => m \in AcksOf(c)
      /\ d2 \in Seq(Message) /\ \A m \in ToSet(d2) : m.kind = "ack" => m \in AcksOf(c)
  BY <1>5
<1>7. "idle" \in Served /\ "waiting" \in Served
  BY DEF Served
<1> HIDE DEF served, up, job, down, t, h, d1, d2
<1>8. NoMore([c EXCEPT !.served = "idle", !.down = d1], c)
  <2>1. [c EXCEPT !.served = "idle", !.down = d1]
          = [served |-> "idle", up |-> up, job |-> job, down |-> d1]
    <3> DEFINE d == [c EXCEPT !.served = "idle", !.down = d1]
    <3>1. d \in Channel /\ d.served = "idle" /\ d.up = up /\ d.job = job /\ d.down = d1
      BY <1>0, <1>1, <1>6, <1>7 DEF Channel
    <3> HIDE DEF d
    <3>2. d = [served |-> d.served, up |-> d.up, job |-> d.job, down |-> d.down]
      BY <3>1 DEF Channel
    <3>3. d = [served |-> "idle", up |-> up, job |-> job, down |-> d1]
      BY <3>1, <3>2
    <3> QED BY <3>3 DEF d
  <2>2. NoMore([served |-> "idle", up |-> up, job |-> job, down |-> d1], c)
    BY <1>1, <1>2, <1>6, <1>7, Assembled
  <2> QED BY <2>1, <2>2
<1>9. ASSUME up # <<>>
      PROVE  NoMore([c EXCEPT !.up = t, !.down = d2], c)
  <2>1. [c EXCEPT !.up = t, !.down = d2]
          = [served |-> served, up |-> t, job |-> job, down |-> d2]
    <3> DEFINE d == [c EXCEPT !.up = t, !.down = d2]
    <3>1. d \in Channel /\ d.served = served /\ d.up = t /\ d.job = job /\ d.down = d2
      BY <1>0, <1>1, <1>4, <1>6, <1>9 DEF Channel
    <3> HIDE DEF d
    <3>2. d = [served |-> d.served, up |-> d.up, job |-> d.job, down |-> d.down]
      BY <3>1 DEF Channel
    <3>3. d = [served |-> served, up |-> t, job |-> job, down |-> d2]
      BY <3>1, <3>2
    <3> QED BY <3>3 DEF d
  <2>2. \A m \in ToSet(t) \cup {job} : m.kind = "batch" => m \in Carried(c)
    BY <1>2, <1>4, <1>9
  <2>3. NoMore([served |-> served, up |-> t, job |-> job, down |-> d2], c)
    BY <1>1, <1>2, <1>4, <1>6, <1>9, <2>2, Assembled
  <2> QED BY <2>1, <2>3
<1>10. ASSUME up # <<>>, h.kind = "batch"
       PROVE  NoMore([c EXCEPT !.up = t, !.served = "waiting", !.job = h], c)
  <2>1. [c EXCEPT !.up = t, !.served = "waiting", !.job = h]
          = [served |-> "waiting", up |-> t, job |-> h, down |-> down]
    <3> DEFINE d == [c EXCEPT !.up = t, !.served = "waiting", !.job = h]
    <3>1. d \in Channel /\ d.served = "waiting" /\ d.up = t /\ d.job = h /\ d.down = down
      BY <1>0, <1>1, <1>4, <1>7, <1>10 DEF Channel
    <3> HIDE DEF d
    <3>2. d = [served |-> d.served, up |-> d.up, job |-> d.job, down |-> d.down]
      BY <3>1 DEF Channel
    <3>3. d = [served |-> "waiting", up |-> t, job |-> h, down |-> down]
      BY <3>1, <3>2
    <3> QED BY <3>3 DEF d
  <2>2. \A m \in ToSet(t) \cup {h} : m.kind = "batch" => m \in Carried(c)
    BY <1>2, <1>4, <1>10
  <2>3. NoMore([served |-> "waiting", up |-> t, job |-> h, down |-> down], c)
    BY <1>1, <1>2, <1>4, <1>7, <1>10, <2>2, Assembled
  <2> QED BY <2>1, <2>3
<1> QED BY <1>3, <1>8, <1>9, <1>10

\* The answer to a batch.
LEMMA Answering ==
    ASSUME NEW c, Good(c), c.served = "waiting"
    PROVE  LET ack == Reply("ack", c.job.id)
               d == [c EXCEPT !.served = "idle", !.job = Hello, !.down = Append(@, ack)]
           IN  /\ c.job \in Carried(c)
               /\ Good(d) /\ Carried(d) \subseteq Carried(c)
               /\ AcksOf(d) \subseteq AcksOf(c) \cup {ack} /\ ack.id = c.job.id
<1> DEFINE ack == Reply("ack", c.job.id)
           q == Append(c.down, ack)
           d == [c EXCEPT !.served = "idle", !.job = Hello, !.down = Append(@, ack)]
<1>1. c.job \in Carried(c) /\ c.job.id \in BatchIds
  BY Contents DEF Good
<1>2. ack \in Message /\ ack.id = c.job.id
  BY <1>1, Messages
<1> HIDE DEF ack
<1>3. q \in Seq(Message) /\ ToSet(q) = ToSet(c.down) \cup {ack}
  BY <1>2, Parts, Appended
<1>4. d = [c EXCEPT !.served = "idle", !.job = Hello, !.down = q]
  OBVIOUS
<1> HIDE DEF q, d
<1>5. /\ d \in Channel /\ d.served = "idle" /\ d.up = c.up /\ d.job = Hello
      /\ d.down = q
  BY <1>3, <1>4, Messages DEF Good, Channel, Served
<1>6. Carried(d) \subseteq Carried(c)
  BY <1>5, Messages DEF Carried
<1>7. AcksOf(d) \subseteq AcksOf(c) \cup {ack}
  BY <1>3, <1>5 DEF AcksOf
<1>8. Good(d)
  BY <1>1, <1>2, <1>5, <1>6, <1>7 DEF Good
<1> QED BY <1>1, <1>2, <1>6, <1>7, <1>8 DEF d, ack

-----------------------------------------------------------------------------
(* All channels together.                                                    *)

ChannelsGood == chan \in [Sockets -> Channel] /\ \A s \in Sockets : Good(chan[s])

Under == UNION {Carried(chan[s]) : s \in Sockets}
Acks == UNION {AcksOf(chan[s]) : s \in Sockets}

\* Nothing new is on the way.
ChannelsQuiet == ChannelsGood' /\ Under' \subseteq Under /\ Acks' \subseteq Acks

LEMMA OneChannel ==
    ASSUME ChannelsGood, NEW s \in Sockets, NEW c, Good(c), chan' = [chan EXCEPT ![s] = c]
    PROVE  /\ ChannelsGood'
           /\ Under' \subseteq Under \cup Carried(c)
           /\ Acks' \subseteq Acks \cup AcksOf(c)
<1>1. /\ chan' \in [Sockets -> Channel]
      /\ \A r \in Sockets : chan'[r] = IF r = s THEN c ELSE chan[r]
  BY DEF ChannelsGood, Good
<1>2. ChannelsGood'
  BY <1>1 DEF ChannelsGood
<1>3. Under' \subseteq Under \cup Carried(c)
  <2> SUFFICES ASSUME NEW r \in Sockets, NEW m \in Carried(chan'[r])
               PROVE  m \in Under \cup Carried(c)
    BY DEF Under
  <2> QED BY <1>1 DEF Under
<1>4. Acks' \subseteq Acks \cup AcksOf(c)
  <2> SUFFICES ASSUME NEW r \in Sockets, NEW m \in AcksOf(chan'[r])
               PROVE  m \in Acks \cup AcksOf(c)
    BY DEF Acks
  <2> QED BY <1>1 DEF Acks
<1> QED BY <1>2, <1>3, <1>4

LEMMA OneQuiet ==
    ASSUME ChannelsGood, NEW s \in Sockets, NEW c, NoMore(c, chan[s]),
           chan' = [chan EXCEPT ![s] = c]
    PROVE  ChannelsQuiet
<1>1. Good(c) /\ Carried(c) \subseteq Under /\ AcksOf(c) \subseteq Acks
  BY DEF NoMore, Under, Acks
<1> QED BY <1>1, OneChannel DEF ChannelsQuiet

LEMMA NoneChanged == ASSUME ChannelsGood, UNCHANGED chan PROVE ChannelsQuiet
  BY DEF ChannelsQuiet, ChannelsGood, Under, Acks

\* The plugin's side of it, except for the sending of a batch.
LEMMA PluginQuiet ==
    ASSUME ChannelsGood, Plugin, ~FlushSqlBatch
    PROVE  ChannelsQuiet
<1>1. CASE Reconnect
  <2>1. ASSUME NEW s \in Sockets, chan' = [chan EXCEPT ![s].served = "connecting"]
        PROVE  ChannelsQuiet
    <3> DEFINE c == [chan[s] EXCEPT !.served = "connecting"]
    <3>1. NoMore(c, chan[s])
      BY PluginsEnd DEF ChannelsGood
    <3>2. chan' = [chan EXCEPT ![s] = c]
      BY <2>1
    <3> HIDE DEF c
    <3> QED BY <3>1, <3>2, OneQuiet
  <2> QED BY <1>1, <2>1, NoneChanged DEF Reconnect
<1>2. ASSUME NEW s \in Sockets, SocketCallback(s)
      PROVE  ChannelsQuiet
  <2> DEFINE c == [chan[s] EXCEPT !.down = Tail(@)]
  <2>1. NoMore(c, chan[s])
    BY <1>2, PluginsEnd DEF SocketCallback, ChannelsGood
  <2>2. CASE chan' = [chan EXCEPT ![s].down = Tail(@)]
    <3>1. chan' = [chan EXCEPT ![s] = c]
      BY <2>2
    <3> HIDE DEF c
    <3> QED BY <2>1, <3>1, OneQuiet
  <2>3. CASE Connected(s)
    <3>1. chan' = [chan EXCEPT ![s] = Sent(c, Hello)]
      BY <2>3 DEF Connected
    <3> HIDE DEF c
    <3>2. NoMore(Sent(c, Hello), c)
      BY <2>1, PluginsEnd DEF NoMore
    <3>3. NoMore(Sent(c, Hello), chan[s])
      BY <2>1, <3>2 DEF NoMore
    <3> QED BY <3>1, <3>3, OneQuiet
  <2> QED BY <1>2, <2>2, <2>3 DEF SocketCallback
<1>3. CASE UNCHANGED chan
  BY <1>3, NoneChanged
<1>4. \/ Reconnect \/ UNCHANGED chan \/ \E s \in Sockets : SocketCallback(s)
  BY DEF Plugin, HandOver, PumpTimer, SaveCallback, DatabaseReady, DatabaseLost, MapEnd,
         ConnectSocket, ReconnectTimer, Timeout, EndpointChanged, DrainCommand, PluginEnd,
         daemonVars
<1> QED BY <1>1, <1>2, <1>3, <1>4

\* The other side of it, except for the answer to a batch.
LEMMA DaemonQuiet ==
    ASSUME ChannelsGood, Daemon
    PROVE  ChannelsQuiet \/ \E s \in Sockets : AnswerBatch(s)
<1>1. ASSUME NEW s \in Sockets, Accept(s) \/ AnswerHello(s)
      PROVE  ChannelsQuiet
  <2> DEFINE c1 == [chan[s] EXCEPT !.served = "idle",
                                   !.down = Append(@, Reply("connected", NoBatch))]
             c2 == [chan[s] EXCEPT !.up = Tail(@),
                                   !.down = Append(@, Reply("hello_ack", NoBatch))]
  <2>1. Good(chan[s])
    BY DEF ChannelsGood
  <2>2. CASE Accept(s)
    <3>1. chan' = [chan EXCEPT ![s] = c1]
      BY <2>2 DEF Accept
    <3>2. NoMore(c1, chan[s])
      BY <2>1, HandlersEnd
    <3> HIDE DEF c1
    <3> QED BY <3>1, <3>2, OneQuiet
  <2>3. CASE AnswerHello(s)
    <3>1. chan' = [chan EXCEPT ![s] = c2] /\ chan[s].up # <<>>
      BY <2>3 DEF AnswerHello
    <3>2. NoMore(c2, chan[s])
      BY <2>1, <3>1, HandlersEnd
    <3> HIDE DEF c2
    <3> QED BY <3>1, <3>2, OneQuiet
  <2> QED BY <1>1, <2>2, <2>3
<1>2. ASSUME NEW s \in Sockets, NEW id \in BatchIds \cup {NoBatch},
             chan' = [chan EXCEPT ![s] = Closed(Append(@.down, Reply("error", id)))]
      PROVE  ChannelsQuiet
  <2> DEFINE c == Closed(Append(chan[s].down, Reply("error", id)))
  <2>1. chan' = [chan EXCEPT ![s] = c]
    BY <1>2
  <2>2. NoMore(c, chan[s])
    BY Ending DEF ChannelsGood
  <2> HIDE DEF c
  <2> QED BY <2>1, <2>2, OneQuiet
<1>3. ASSUME NEW s \in Sockets, AcceptBatch(s)
      PROVE  ChannelsQuiet
  <2> DEFINE b == Head(chan[s].up)
             c == [chan[s] EXCEPT !.up = Tail(@), !.served = "waiting", !.job = b]
  <2>1. Good(chan[s]) /\ chan[s].up # <<>> /\ b.kind = "batch"
    BY <1>3 DEF ChannelsGood, AcceptBatch
  <2>2. CASE chan' = [chan EXCEPT ![s].up = Tail(@), ![s].served = "waiting", ![s].job = b]
    <3>1. chan' = [chan EXCEPT ![s] = c]
      BY <2>2
    <3>2. NoMore(c, chan[s])
      BY <2>1, HandlersEnd
    <3> HIDE DEF c
    <3> QED BY <3>1, <3>2, OneQuiet
  <2>3. CASE chan' = [chan EXCEPT ![s] = Closed(Append(@.down, Reply("error", b.id)))]
    <3>1. b \in Message
      BY <2>1, Parts, HeadAndTail
    <3>2. b.id \in BatchIds \cup {NoBatch}
      BY <3>1 DEF Message
    <3> QED BY <1>2, <2>3, <3>2
  <2> QED BY <1>3, <2>2, <2>3 DEF AcceptBatch
<1>4. ASSUME NEW s \in Sockets, RefuseBatch(s) \/ GiveUp(s)
      PROVE  ChannelsQuiet
  <2>1. Good(chan[s])
    BY DEF ChannelsGood
  <2>2. CASE RefuseBatch(s)
    <3>1. Head(chan[s].up) \in Message
      BY <2>1, <2>2, Parts, HeadAndTail DEF RefuseBatch
    <3>2. Head(chan[s].up).id \in BatchIds \cup {NoBatch}
      BY <3>1 DEF Message
    <3>3. chan' = [chan EXCEPT ![s] = Closed(Append(@.down, Reply("error", Head(chan[s].up).id)))]
      BY <2>2 DEF RefuseBatch
    <3> QED BY <1>2, <3>2, <3>3
  <2>3. CASE GiveUp(s)
    <3>1. chan[s].job.id \in BatchIds \cup {NoBatch}
      BY <2>1 DEF Good, Channel, Message
    <3>2. chan' = [chan EXCEPT ![s] = Closed(Append(@.down, Reply("error", chan[s].job.id)))]
      BY <2>3 DEF GiveUp
    <3> QED BY <1>2, <3>1, <3>2
  <2> QED BY <1>4, <2>2, <2>3
<1>5. ASSUME NEW s \in Sockets, Break(s)
      PROVE  ChannelsQuiet
  <2>1. PICK replies \in {<<>>, chan[s].down} :
           \E end \in {Closed(replies), [Free EXCEPT !.down = replies]} :
              chan' = [chan EXCEPT ![s] = end]
    BY <1>5 DEF Break
  <2>2. PICK end \in {Closed(replies), [Free EXCEPT !.down = replies]} :
           chan' = [chan EXCEPT ![s] = end]
    BY <2>1
  <2>3. NoMore(end, chan[s])
    <3>1. Good(chan[s])
      BY DEF ChannelsGood
    <3>2. NoMore(Closed(replies), chan[s]) /\ NoMore([Free EXCEPT !.down = replies], chan[s])
      BY <3>1, Ending
    <3> QED BY <2>2, <3>2, Zenon
  <2> QED BY <2>2, <2>3, OneQuiet
<1>6. ASSUME NEW s \in Sockets, HandlerEnds(s)
      PROVE  ChannelsQuiet
  <2>1. NoMore(Free, chan[s]) /\ chan' = [chan EXCEPT ![s] = Free]
    BY <1>6, FreeIsGood DEF ChannelsGood, HandlerEnds
  <2> QED BY <2>1, OneQuiet
<1>7. CASE DaemonExecutes
  BY <1>7, NoneChanged DEF DaemonExecutes
<1> QED BY <1>1, <1>3, <1>4, <1>5, <1>6, <1>7 DEF Daemon

-----------------------------------------------------------------------------
(* Types.                                                                    *)

LocalTyped ==
    /\ handed \in 0 .. MaxWrites
    /\ saveQueue \in Seq(Writes)
    /\ executing \in Seq(Query) /\ Len(executing) <= MaxAsync
    /\ pump \in BOOLEAN /\ ready \in BOOLEAN

HistoryTyped ==
    /\ applied \in Seq(Writes)
    /\ dropped \subseteq Writes /\ remote \subseteq Writes /\ direct \subseteq Writes

OutletTyped ==
    /\ queue \in Seq(Writes) /\ inflight \in Seq(Writes)
    /\ batch \in BatchIds \cup {NoBatch}
    /\ sock \in Sockets \cup {NoSocket} /\ link \in Positions
    /\ armed \in BOOLEAN /\ retry \in BOOLEAN
    /\ batch = NoBatch <=> inflight = <<>>
    /\ batch # NoBatch => link = "ready"
    /\ sock = NoSocket <=> link = "down"
    /\ armed <=> (link \in {"connecting", "hello"} \/ batch # NoBatch)

RestTyped ==
    /\ enabled \in BOOLEAN /\ draining \in BOOLEAN /\ unloaded \in BOOLEAN
    /\ owed \in Seq(Writes) /\ done \subseteq Writes
    /\ faults \in 0 .. MaxFaults

Types == LocalTyped /\ HistoryTyped /\ OutletTyped /\ RestTyped /\ ChannelsGood

LEMMA TypesAreOK == Types => TypeOK
<1> SUFFICES ASSUME Types PROVE TypeOK
  OBVIOUS
<1>1. chan \in [Sockets -> Channel]
  BY DEF Types, ChannelsGood
<1> QED BY <1>1 DEF Types, LocalTyped, HistoryTyped, OutletTyped, RestTyped, TypeOK, Query,
                    Channel, Served

\* What the synchronous connection adds to the history.
LEMMA Synchronous ==
    ASSUME OutletAssumption, HistoryTyped, NEW ws \in Seq(Writes),
           NEW ok \in SUBSET ToSet(ws), ExecuteSync(ws, ok)
    PROVE  /\ HistoryTyped'
           /\ remote' = remote
           /\ dropped' = dropped \cup ((ToSet(ws) \ ToSet(applied)) \ ok)
           /\ \E ran \in Seq(Writes) :
                 /\ applied' = applied \o ran
                 /\ ToSet(ran) = ok \ ToSet(applied)
                 /\ Ascending(ws) => Ascending(ran)
                 /\ direct' = direct \cup ToSet(ran)
<1> DEFINE new == New(ws)
           ran == Among(new, ok)
<1>1. /\ applied' = applied \o ran
      /\ dropped' = dropped \cup (ToSet(new) \ ok)
      /\ direct' = direct \cup ToSet(ran)
      /\ remote' = remote
  BY DEF ExecuteSync
<1>2. ToSet(ws) \subseteq Writes
  BY Elements
<1>3. new \in Seq(Writes) /\ ToSet(new) = ToSet(ws) \ ToSet(applied)
  <2>1. Among(ws, Writes \ ToSet(applied)) \in Seq(Writes)
    BY AmongElements
  <2>2. ToSet(Among(ws, Writes \ ToSet(applied))) = ToSet(ws) \cap (Writes \ ToSet(applied))
    BY AmongElements
  <2> QED BY <1>2, <2>1, <2>2 DEF New
<1>4. Ascending(ws) => Ascending(new)
  BY Numbers, AmongAscending DEF New
<1> HIDE DEF new
<1>5. ran \in Seq(Writes) /\ ToSet(ran) = ToSet(new) \cap ok
  BY <1>3, AmongElements
<1>6. Ascending(new) => Ascending(ran)
  BY <1>3, Numbers, AmongAscending
<1> HIDE DEF ran
<1>7. ToSet(ran) = ok \ ToSet(applied)
  BY <1>3, <1>5
<1>8. applied' \in Seq(Writes)
  BY <1>1, <1>5, Joined DEF HistoryTyped
<1>9. HistoryTyped'
  BY <1>1, <1>2, <1>3, <1>5, <1>7, <1>8 DEF HistoryTyped
<1> QED BY <1>1, <1>3, <1>4, <1>5, <1>6, <1>7, <1>9

\* Writes whose local query has not run.
Unrun == {executing[i].write : i \in {j \in 1 .. Len(executing) : ~executing[j].ran}}

\* Moving local writes to the database thread changes neither their order nor
\* which of them have not run, keeps to the slots, and moves nothing while remote
\* writes are pending.
LEMMA Pumping ==
    ASSUME OutletAssumption, LocalTyped, PumpSaveQueue
    PROVE  /\ saveQueue' \in Seq(Writes)
           /\ executing' \in Seq(Query) /\ Len(executing') <= MaxAsync
           /\ HasPendingWrites => executing' = executing /\ saveQueue' = saveQueue
           /\ Local' = Local
           /\ ToSet(saveQueue') \cup Unrun' = ToSet(saveQueue) \cup Unrun
           /\ \A i \in 1 .. Len(executing') :
                 executing'[i].ran => i \in 1 .. Len(executing) /\ executing'[i] = executing[i]
<1> DEFINE n == IF CanPumpLocal THEN Min({MaxAsync - Len(executing), Len(saveQueue)}) ELSE 0
           new == [i \in 1 .. n |-> [write |-> saveQueue[i], ran |-> FALSE]]
           cut == SubSeq(saveQueue, 1, n)
           rest == SubSeq(saveQueue, n + 1, Len(saveQueue))
           k == Len(executing)
<1>1. executing' = executing \o new /\ saveQueue' = rest
  BY DEF PumpSaveQueue
<1>2. n \in 0 .. Len(saveQueue) /\ n <= MaxAsync - k /\ n \in Nat
  <2> DEFINE free == MaxAsync - Len(executing)
             l == Len(saveQueue)
             m == Min({free, l})
  <2>1. free \in Nat /\ l \in Nat
    BY LenProperties DEF LocalTyped, OutletAssumption
  <2>2. m \in {free, l} /\ m <= free /\ m <= l
    <3> HIDE DEF free, l
    <3>1. free \in Int /\ l \in Int
      BY <2>1
    <3> QED BY <3>1, MinOfTwo, Zenon
  <2>3. n = IF CanPumpLocal THEN m ELSE 0
    OBVIOUS
  <2> HIDE DEF m, n
  <2> QED BY <2>1, <2>2, <2>3
<1>3. /\ cut \in Seq(Writes) /\ rest \in Seq(Writes) /\ cut \o rest = saveQueue
      /\ Len(cut) = n /\ \A i \in 1 .. n : cut[i] = saveQueue[i]
  <2>1. \A i \in 1 .. n : cut[i] = saveQueue[i]
    <3>1. Len(saveQueue) \in Nat
      BY LenProperties DEF LocalTyped
    <3> HIDE DEF n
    <3> QED BY <1>2, <3>1
  <2> HIDE DEF n
  <2> QED BY <1>2, <2>1, Cut DEF LocalTyped
<1>4. new \in Seq(Query) /\ Len(new) = n
  <2>1. \A i \in 1 .. n : saveQueue[i] \in Writes
    BY <1>2, ElementOfSeq DEF LocalTyped
  <2> HIDE DEF n
  <2>2. new \in [1 .. n -> Query]
    BY <2>1 DEF Query
  <2> HIDE DEF new
  <2>3. new \in Seq(Query)
    BY <1>2, <2>2, SeqDef
  <2> QED BY <1>2, <2>2, <2>3, LenProperties
<1>5. \A i \in 1 .. n : new[i].write = cut[i] /\ new[i].ran = FALSE
  BY <1>3
<1>6. n = 0 \/ ~HasPendingWrites
  BY DEF CanPumpLocal
<1>7. ASSUME n = 0 PROVE rest = saveQueue
  <2>1. SubSeq(saveQueue, 1, Len(saveQueue)) = saveQueue
    BY SubSeqFull DEF LocalTyped
  <2> HIDE DEF n
  <2> QED BY <1>7, <2>1
<1> HIDE DEF n, new, cut, rest
<1>8. /\ executing' \in Seq(Query) /\ Len(executing') = k + n /\ k \in Nat
      /\ \A i \in 1 .. k + n : executing'[i] = IF i <= k THEN executing[i] ELSE new[i - k]
  BY <1>1, <1>4, ConcatProperties, LenProperties DEF LocalTyped
<1>9. Len(executing') <= MaxAsync
  BY <1>2, <1>8 DEF LocalTyped, OutletAssumption
<1>10. n = 0 => executing' = executing
  <2>1. n = 0 => new = <<>>
    BY <1>4, EmptySeq
  <2> QED BY <1>1, <2>1, ConcatEmptySeq DEF LocalTyped
<1>11. \A i \in 1 .. k : i \in 1 .. k + n /\ executing'[i] = executing[i]
  BY <1>2, <1>8
<1>12. \A i \in 1 .. n : i + k \in 1 .. k + n /\ executing'[i + k] = new[i]
  <2> TAKE i \in 1 .. n
  <2>1. i + k \in 1 .. k + n /\ ~(i + k <= k) /\ (i + k) - k = i
    BY <1>2, <1>8
  <2> QED BY <1>8, <2>1
<1>13. \A i \in 1 .. k + n : i \in 1 .. k \/ (~(i <= k) /\ i - k \in 1 .. n)
  BY <1>2, <1>8
<1>14. \A i \in 1 .. Len(executing') :
          executing'[i].ran => i \in 1 .. Len(executing) /\ executing'[i] = executing[i]
  <2> SUFFICES ASSUME NEW i \in 1 .. k + n, executing'[i].ran
               PROVE  i \in 1 .. k
    BY <1>8, <1>11
  <2>1. CASE ~(i <= k) /\ i - k \in 1 .. n
    BY <1>5, <1>8, <2>1
  <2> QED BY <1>13, <2>1
<1>15. Unrun' = Unrun \cup ToSet(cut)
  <2>1. \A w : w \in ToSet(cut) <=> \E i \in 1 .. n : cut[i] = w
    BY <1>3, Elements
  <2>2. \A w : w \in Unrun <=> \E i \in 1 .. k : ~executing[i].ran /\ executing[i].write = w
    BY DEF Unrun
  <2>3. \A w : w \in Unrun' <=> \E i \in 1 .. k + n : ~executing'[i].ran /\ executing'[i].write = w
    BY <1>8 DEF Unrun
  <2>4. ASSUME NEW w \in Unrun' PROVE w \in Unrun \cup ToSet(cut)
    <3>1. PICK i \in 1 .. k + n : ~executing'[i].ran /\ executing'[i].write = w
      BY <2>3
    <3>2. CASE i \in 1 .. k
      BY <1>11, <2>2, <3>1, <3>2
    <3>3. CASE ~(i <= k) /\ i - k \in 1 .. n
      BY <1>5, <1>8, <2>1, <3>1, <3>3
    <3> QED BY <1>13, <3>2, <3>3
  <2>5. ASSUME NEW w \in Unrun PROVE w \in Unrun'
    BY <1>11, <2>2, <2>3
  <2>6. ASSUME NEW w \in ToSet(cut) PROVE w \in Unrun'
    BY <1>5, <1>12, <2>1, <2>3
  <2> QED BY <2>4, <2>5, <2>6
<1>16. ToSet(saveQueue) = ToSet(cut) \cup ToSet(rest)
  <2>1. cut \in Seq(Writes) /\ rest \in Seq(Writes)
    BY <1>3
  <2>2. ToSet(cut \o rest) = ToSet(cut) \cup ToSet(rest)
    BY <2>1, Joined
  <2> QED BY <1>3, <2>2, Zenon
<1>17. Submitted' = Submitted \o cut /\ Submitted \in Seq(Writes)
  <2>1. \A i \in 1 .. k : executing[i].write \in Writes
    <3>1. \A i \in 1 .. k : executing[i] \in Query
      BY ElementOfSeq DEF LocalTyped
    <3> QED BY <3>1 DEF Query
  <2>2. Submitted \in Seq(Writes) /\ Len(Submitted) = k
    <3>1. Submitted \in [1 .. k -> Writes]
      BY <2>1 DEF Submitted
    <3>2. Submitted \in Seq(Writes)
      BY <1>8, <3>1, SeqDef
    <3> QED BY <1>8, <3>1, <3>2, LenProperties
  <2>3. /\ Submitted \o cut \in Seq(Writes) /\ Len(Submitted \o cut) = k + n
        /\ \A i \in 1 .. k + n :
              (Submitted \o cut)[i] = IF i <= k THEN Submitted[i] ELSE cut[i - k]
    <3> DEFINE a == Submitted
    <3>1. a \in Seq(Writes) /\ cut \in Seq(Writes) /\ Len(a) = k /\ Len(cut) = n
      BY <1>3, <2>2
    <3> HIDE DEF a, k
    <3>2. /\ a \o cut \in Seq(Writes) /\ Len(a \o cut) = Len(a) + Len(cut)
          /\ \A i \in 1 .. Len(a) + Len(cut) :
                (a \o cut)[i] = IF i <= Len(a) THEN a[i] ELSE cut[i - Len(a)]
      BY <3>1, ConcatProperties
    <3> QED BY <3>1, <3>2 DEF a
  <2> DEFINE s == Submitted \o cut
  <2>4. Submitted' = [i \in 1 .. k + n |-> executing'[i].write]
    BY <1>8 DEF Submitted
  <2>5. \A i \in 1 .. k : Submitted[i] = executing[i].write
    BY DEF Submitted
  <2> HIDE DEF s
  <2>6. \A i \in 1 .. k + n : executing'[i].write = s[i]
    <3> TAKE i \in 1 .. k + n
    <3>1. CASE i \in 1 .. k
      <4>1. s[i] = Submitted[i]
        BY <1>8, <2>3, <3>1 DEF s
      <4> QED BY <1>11, <2>5, <3>1, <4>1
    <3>2. CASE ~(i <= k) /\ i - k \in 1 .. n
      <4>1. s[i] = cut[i - k]
        BY <2>3, <3>2 DEF s
      <4> QED BY <1>5, <1>8, <3>2, <4>1
    <3> QED BY <1>13, <3>1, <3>2
  <2>7. s = [i \in 1 .. k + n |-> s[i]]
    <3>1. s \in Seq(Writes) /\ Len(s) = k + n
      BY <2>3 DEF s
    <3> QED BY <3>1, LenProperties
  <2>8. Submitted' = s
    BY <2>4, <2>6, <2>7
  <2> QED BY <2>2, <2>8 DEF s
<1>18. Local' = Local
  <2>1. (Submitted \o cut) \o rest = Submitted \o (cut \o rest)
    <3>1. Submitted \in Seq(Writes) /\ cut \in Seq(Writes) /\ rest \in Seq(Writes)
      BY <1>3, <1>17
    <3> QED BY <3>1, ConcatAssociative
  <2> QED BY <1>1, <1>3, <1>17, <2>1 DEF Local
<1>19. ToSet(saveQueue') \cup Unrun' = ToSet(saveQueue) \cup Unrun
  BY <1>1, <1>15, <1>16
<1> QED BY <1>1, <1>3, <1>6, <1>7, <1>8, <1>9, <1>10, <1>14, <1>18, <1>19

\* The plugin's part of the session and of the queues of the outlet.
LEMMA Disconnecting ==
    ASSUME OutletTyped, DisconnectSocket, retry' \in BOOLEAN
    PROVE  OutletTyped'
<1>1. queue' \in Seq(Writes) /\ inflight' = <<>> /\ inflight' \in Seq(Writes)
  BY Joined, EmptySeq DEF DisconnectSocket, RequeueInflight, OutletTyped
<1> QED BY <1>1 DEF OutletTyped, DisconnectSocket, RequeueInflight, Positions

LEMMA Reconnecting ==
    ASSUME OutletAssumption, OutletTyped, Reconnect
    PROVE  OutletTyped'
<1>1. CASE DisconnectSocket /\ retry' = TRUE
  BY <1>1, Disconnecting
<1>2. ASSUME NEW s \in Sockets, RequeueInflight,
             sock' = s, link' = "connecting", armed' = TRUE, retry' = FALSE
      PROVE  OutletTyped'
  <2>1. /\ queue' \in Seq(Writes) /\ inflight' = <<>> /\ inflight' \in Seq(Writes)
        /\ batch' = NoBatch
    BY <1>2, Joined, EmptySeq DEF RequeueInflight, OutletTyped
  <2> QED BY <1>2, <2>1 DEF OutletTyped, OutletAssumption, Positions
<1> QED BY <1>1, <1>2 DEF Reconnect

LEMMA Flushing ==
    ASSUME OutletAssumption, OutletTyped, FlushSqlBatch
    PROVE  /\ OutletTyped'
           /\ inflight' \o queue' = Owned /\ inflight' # <<>> /\ inflight = <<>>
           /\ batch = NoBatch /\ batch' \in BatchIds \ IdsUnderWay
           /\ chan' = [chan EXCEPT ![sock] = Sent(@, Batch(batch', inflight'))]
           /\ sock \in Sockets
           /\ \E n \in 1 .. Len(queue) : inflight' = SubSeq(queue, 1, n)
<1>1. PICK n \in 1 .. Min({BatchMax, Len(queue)}), id \in BatchIds \ IdsUnderWay :
        /\ inflight' = SubSeq(queue, 1, n)
        /\ queue' = SubSeq(queue, n + 1, Len(queue))
        /\ batch' = id
        /\ chan' = [chan EXCEPT ![sock] = Sent(@, Batch(id, SubSeq(queue, 1, n)))]
  BY DEF FlushSqlBatch
<1>2. n \in 0 .. Len(queue) /\ n \in 1 .. Len(queue)
  <2> DEFINE l == Len(queue)
             m == Min({BatchMax, l})
  <2>1. BatchMax \in Int /\ l \in Nat
    BY LenProperties DEF OutletAssumption, OutletTyped
  <2>2. m \in {BatchMax, l} /\ m <= l
    <3>1. BatchMax \in Int /\ l \in Int
      BY <2>1
    <3> HIDE DEF l
    <3> QED BY <3>1, MinOfTwo, Zenon
  <2>3. n \in 1 .. m
    BY <1>1
  <2> HIDE DEF m, l
  <2>4. n \in 0 .. l /\ n \in 1 .. l
    BY <2>1, <2>2, <2>3
  <2> QED BY <2>4 DEF l
<1>3. /\ inflight' \in Seq(Writes) /\ queue' \in Seq(Writes)
      /\ inflight' \o queue' = queue /\ Len(inflight') = n
  BY <1>1, <1>2, Cut DEF OutletTyped
<1>4. inflight' # <<>>
  <2>1. n # 0
    BY <1>2
  <2> QED BY <1>3, <2>1
<1>5. batch = NoBatch /\ inflight = <<>> /\ link = "ready" /\ sock \in Sockets
  BY DEF FlushSqlBatch, OutletTyped
<1>6. Owned = queue
  BY <1>5, ConcatEmptySeq DEF Owned, OutletTyped
<1>7. batch' \in BatchIds /\ batch' # NoBatch
  BY <1>1 DEF OutletAssumption
<1>8. OutletTyped'
  <2>1. armed' = TRUE /\ UNCHANGED <<sock, link, retry>>
    BY DEF FlushSqlBatch
  <2> QED BY <1>3, <1>4, <1>5, <1>7, <2>1 DEF OutletTyped
<1> QED BY <1>1, <1>2, <1>3, <1>4, <1>5, <1>6, <1>8

\* What a callback may do: nothing to the writes, a fault, or the ACK of the
\* batch in flight.
LEMMA Calling ==
    ASSUME OutletAssumption, OutletTyped, ChannelsGood,
           NEW s \in Sockets, SocketCallback(s)
    PROVE  /\ OutletTyped'
           /\ \/ UNCHANGED <<queue, inflight, batch, localVars>>
              \/ RequeueInflight /\ UNCHANGED localVars
              \/ /\ BatchAcknowledged
                 /\ batch # NoBatch
                 /\ \E m \in Acks : m.id = batch
<1> DEFINE m == Head(chan[s].down)
<1>1. /\ chan[s].down # <<>>
      /\ \/ UNCHANGED <<outletVars, localVars>>
         \/ Connected(s) /\ ~Ignored(s, m)
         \/ Received(m) /\ ~Ignored(s, m)
  BY DEF SocketCallback
<1>2. m.kind = "ack" => m \in Acks /\ m.id \in BatchIds
  <2>1. Good(chan[s])
    BY DEF ChannelsGood
  <2>2. m \in ToSet(chan[s].down)
    BY <1>1, <2>1, Parts, HeadAndTail
  <2> HIDE DEF m
  <2>3. m.kind = "ack" => m \in AcksOf(chan[s])
    BY <2>1, <2>2, Contents
  <2> QED BY <2>1, <2>3 DEF Acks, Good
<1> HIDE DEF m
<1>3. CASE UNCHANGED <<outletVars, localVars>>
  BY <1>3 DEF OutletTyped, outletVars
<1>4. CASE Connected(s)
  BY <1>4 DEF Connected, OutletTyped, Positions
<1>5. CASE m.kind = "hello_ack" /\ HelloAcknowledged
  <2>1. CASE link = "hello"
    BY <1>5, <2>1 DEF HelloAcknowledged, OutletTyped, Positions
  <2>2. CASE link # "hello"
    BY <1>5, <2>2 DEF HelloAcknowledged, OutletTyped, outletVars
  <2> QED BY <2>1, <2>2
<1>6. CASE m.kind = "ack" /\ BatchAcknowledged /\ ~Ignored(s, m)
  <2>1. m.id = batch /\ batch # NoBatch /\ m \in Acks
    BY <1>2, <1>6 DEF Ignored, OutletAssumption
  <2>2. OutletTyped'
    <3>1. inflight' = <<>> /\ inflight' \in Seq(Writes)
      BY <1>6, EmptySeq DEF BatchAcknowledged
    <3> QED BY <1>6, <2>1, <3>1 DEF BatchAcknowledged, OutletTyped, OutletAssumption
  <2> QED BY <1>6, <2>1, <2>2
<1>7. CASE Fault /\ UNCHANGED localVars
  <2>1. retry' \in BOOLEAN
    BY <1>7 DEF Fault, OutletTyped
  <2> QED BY <1>7, <2>1, Disconnecting DEF Fault, DisconnectSocket
<1> QED BY <1>1, <1>3, <1>4, <1>5, <1>6, <1>7 DEF Received

\* A new write is taken by the outlet, kept for the database thread, or executed.
Taken ==
    /\ ~HasLocalWork
    /\ queue' = Append(queue, handed') /\ remote' = remote \cup {handed'}
    /\ UNCHANGED <<saveQueue, ready, pump, applied, dropped, direct>>
Kept ==
    /\ queue' = queue /\ saveQueue' = Append(saveQueue, handed')
    /\ pump' = TRUE /\ UNCHANGED <<ready, applied, dropped, remote, direct>>
AtOnce ==
    /\ ~HasPendingWrites
    /\ queue' = queue /\ UNCHANGED <<saveQueue, pump>> /\ ready' \in BOOLEAN
    /\ \E ok \in SUBSET {handed'} : ExecuteSync(<<handed'>>, ok)

LEMMA HandingOver ==
    ASSUME OutletAssumption, LocalTyped, HistoryTyped, OutletTyped,
           NEW forceSync \in BOOLEAN, HandOver(forceSync)
    PROVE  /\ handed' = handed + 1 /\ handed' \in Writes
           /\ UNCHANGED <<inflight, batch, sock, link, armed, retry, executing, adminVars,
                          daemonVars, faults>>
           /\ Taken \/ Kept \/ AtOnce
           /\ LocalTyped' /\ HistoryTyped' /\ OutletTyped'
<1>1. handed' = handed + 1 /\ handed' \in Writes /\ handed' \in 0 .. MaxWrites
  BY DEF HandOver, Writes, LocalTyped, OutletAssumption
<1>2. UNCHANGED <<inflight, batch, sock, link, armed, retry, executing, adminVars,
                  daemonVars, faults>>
  BY DEF HandOver, localVars, QueueLocalSaveQuery
<1>3. Taken \/ Kept \/ AtOnce
  <2>1. CASE TakenByOutlet(forceSync)
    BY <2>1 DEF HandOver, Taken, TakenByOutlet, localVars
  <2>2. CASE ~TakenByOutlet(forceSync) /\ forceSync /\ CanPumpLocal
    <3>1. queue' = queue /\ RunSaveQuerySync(<<handed'>>) /\ UNCHANGED <<saveQueue, pump>>
      BY <2>2 DEF HandOver, QueueLocalSaveQuery
    <3>2. ToSet(<<handed'>>) = {handed'}
      BY ElementsOfFew
    <3>3. PICK ok \in SUBSET {handed'} :
             ExecuteSync(<<handed'>>, ok) /\ (ready' = ready \/ ready' = FALSE)
      BY <3>1, <3>2 DEF RunSaveQuerySync
    <3>4. ~HasPendingWrites /\ ready' \in BOOLEAN
      BY <2>2, <3>3 DEF CanPumpLocal, LocalTyped
    <3> QED BY <3>1, <3>3, <3>4 DEF AtOnce
  <2>3. CASE ~TakenByOutlet(forceSync) /\ ~(forceSync /\ CanPumpLocal)
    BY <2>3 DEF HandOver, QueueLocalSaveQuery, Kept, history
  <2> QED BY <2>1, <2>2, <2>3
<1>4. CASE Taken
  <2>1. queue' \in Seq(Writes)
    BY <1>1, <1>4, Appended DEF Taken, OutletTyped
  <2> QED BY <1>1, <1>2, <1>3, <1>4, <2>1 DEF Taken, LocalTyped, HistoryTyped, OutletTyped
<1>5. CASE Kept
  <2>1. saveQueue' \in Seq(Writes)
    BY <1>1, <1>5, Appended DEF Kept, LocalTyped
  <2> QED BY <1>1, <1>2, <1>3, <1>5, <2>1 DEF Kept, LocalTyped, HistoryTyped, OutletTyped
<1>6. CASE AtOnce
  <2>1. PICK ok \in SUBSET {handed'} : ExecuteSync(<<handed'>>, ok)
    BY <1>6 DEF AtOnce
  <2>2. <<handed'>> \in Seq(Writes) /\ ToSet(<<handed'>>) = {handed'}
    BY <1>1, ElementsOfFew
  <2>3. HistoryTyped'
    <3> DEFINE ws == <<handed'>>
    <3>1. ws \in Seq(Writes) /\ ok \in SUBSET ToSet(ws) /\ ExecuteSync(ws, ok)
      BY <2>1, <2>2
    <3> HIDE DEF ws
    <3> QED BY <3>1, Synchronous
  <2> QED BY <1>1, <1>2, <1>3, <1>6, <2>3 DEF AtOnce, LocalTyped, OutletTyped
<1> QED BY <1>1, <1>2, <1>3, <1>4, <1>5, <1>6

\* The database thread runs the first query that has not run.
LEMMA Running ==
    ASSUME LocalTyped, HistoryTyped, NEW ok \in BOOLEAN, RunAsync(ok)
    PROVE  /\ LocalTyped' /\ HistoryTyped'
           /\ Submitted' = Submitted /\ Len(executing') = Len(executing)
           /\ \A j \in 1 .. Len(executing) : executing'[j].write = executing[j].write
           /\ \E i \in 1 .. Len(executing) :
                /\ ~executing[i].ran /\ \A j \in 1 .. i - 1 : executing[j].ran
                /\ executing[i].write \in Writes
                /\ \A j \in 1 .. Len(executing) :
                      executing'[j].ran <=> (executing[j].ran \/ j = i)
                /\ IF ok THEN /\ applied' = applied \o <<executing[i].write>>
                              /\ dropped' = dropped
                         ELSE /\ applied' = applied
                              /\ dropped' = dropped \cup {executing[i].write}
<1>1. PICK i \in 1 .. Len(executing) :
        /\ ~executing[i].ran
        /\ \A j \in 1 .. i - 1 : executing[j].ran
        /\ executing' = [executing EXCEPT ![i].ran = TRUE]
        /\ IF ok
           THEN applied' = Append(applied, executing[i].write) /\ UNCHANGED dropped
           ELSE dropped' = dropped \cup {executing[i].write} /\ UNCHANGED applied
  <2>1. DOMAIN executing = 1 .. Len(executing)
    BY LenProperties DEF LocalTyped
  <2> QED BY <2>1 DEF RunAsync
<1>2. UNCHANGED <<handed, saveQueue, pump, ready, remote, direct>>
  BY DEF RunAsync
<1> DEFINE q == [executing[i] EXCEPT !.ran = TRUE]
<1>3. /\ executing[i] \in Query /\ q \in Query /\ executing[i].write \in Writes
      /\ q.write = executing[i].write /\ q.ran = TRUE
  <2>1. executing[i] \in Query
    BY ElementOfSeq DEF LocalTyped
  <2> QED BY <2>1 DEF Query
<1>4. executing' = [executing EXCEPT ![i] = q]
  BY <1>1
<1> HIDE DEF q
<1>5. /\ executing' \in Seq(Query) /\ Len(executing') = Len(executing)
      /\ \A j \in 1 .. Len(executing) : executing'[j] = IF j = i THEN q ELSE executing[j]
  BY <1>3, <1>4, ExceptSeq DEF LocalTyped
<1>6. LocalTyped'
  BY <1>2, <1>5 DEF LocalTyped
<1>7. applied' \in Seq(Writes)
  <2> DEFINE w == executing[i].write
  <2>1. w \in Writes /\ applied \in Seq(Writes) /\ applied' \in {applied, Append(applied, w)}
    BY <1>1, <1>3 DEF HistoryTyped
  <2> HIDE DEF w
  <2> QED BY <2>1, AppendProperties
<1>8. HistoryTyped'
  BY <1>1, <1>2, <1>3, <1>7 DEF HistoryTyped
<1>9. /\ \A j \in 1 .. Len(executing) : executing'[j].write = executing[j].write
      /\ Submitted' = Submitted
  <2>1. \A j \in 1 .. Len(executing) : executing'[j].write = executing[j].write
    BY <1>3, <1>5
  <2> QED BY <1>5, <2>1 DEF Submitted
<1>10. \A j \in 1 .. Len(executing) : executing'[j].ran <=> (executing[j].ran \/ j = i)
  BY <1>3, <1>5
<1>11. applied \o <<executing[i].write>> = Append(applied, executing[i].write)
  BY <1>3, AppendIsConcat DEF HistoryTyped
<1> QED BY <1>1, <1>3, <1>5, <1>6, <1>8, <1>9, <1>10, <1>11

\* The result of the first query goes back to the plugin.
LEMMA CallingBack ==
    ASSUME LocalTyped, SaveCallback
    PROVE  /\ LocalTyped'
           /\ executing # <<>> /\ executing[1].ran
           /\ Len(executing') = Len(executing) - 1 /\ Len(executing) \in Nat
           /\ \A i \in 1 .. Len(executing') :
                 i + 1 \in 1 .. Len(executing) /\ executing'[i] = executing[i + 1]
           /\ Submitted' \in Seq(Writes)
           /\ Submitted = <<executing[1].write>> \o Submitted'
           /\ executing[1].write \in Writes
<1>1. /\ executing # <<>> /\ executing[1].ran /\ executing' = Tail(executing)
      /\ UNCHANGED <<handed, saveQueue>> /\ pump' = TRUE
      /\ ready' = ready \/ ready' = FALSE
  <2>1. executing # <<>> => Head(executing) = executing[1]
    BY DEF LocalTyped
  <2> QED BY <2>1 DEF SaveCallback
<1>2. /\ executing' \in Seq(Query) /\ Len(executing') = Len(executing) - 1
      /\ \A i \in 1 .. Len(executing') : executing'[i] = executing[i + 1]
  BY <1>1, HeadTailProperties DEF LocalTyped
<1>3. Len(executing) \in Nat /\ Len(executing) >= 1
  BY <1>1, EmptySeq, LenProperties DEF LocalTyped
<1>4. \A i \in 1 .. Len(executing') : i + 1 \in 1 .. Len(executing)
  BY <1>2, <1>3
<1>5. LocalTyped'
  <2>1. Len(executing') <= MaxAsync
    BY <1>2, <1>3, OutletAssumption DEF LocalTyped, OutletAssumption
  <2> QED BY <1>1, <1>2, <2>1 DEF LocalTyped
<1>6. \A i \in 1 .. Len(executing) : executing[i].write \in Writes
  <2>1. \A i \in 1 .. Len(executing) : executing[i] \in Query
    BY ElementOfSeq DEF LocalTyped
  <2> QED BY <2>1 DEF Query
<1>7. /\ Submitted' \in Seq(Writes)
      /\ Submitted = <<executing[1].write>> \o Submitted'
  <2> DEFINE s == Submitted
  <2>1. s \in [1 .. Len(executing) -> Writes]
    BY <1>6 DEF Submitted
  <2>2. s \in Seq(Writes) /\ Len(s) = Len(executing)
    <3> HIDE DEF s
    <3>1. s \in Seq(Writes)
      BY <1>3, <2>1, SeqDef
    <3> QED BY <1>3, <2>1, <3>1, LenProperties
  <2>3. s[1] = executing[1].write /\ s # <<>>
    <3>1. s[1] = executing[1].write
      BY <1>3 DEF Submitted
    <3> HIDE DEF s
    <3> QED BY <1>3, <2>2, <3>1
  <2>4. Submitted' = Tail(s)
    <3>1. /\ Tail(s) \in Seq(Writes) /\ Len(Tail(s)) = Len(executing')
          /\ \A i \in 1 .. Len(executing') : Tail(s)[i] = s[i + 1]
      <4> HIDE DEF s
      <4> QED BY <1>2, <2>2, <2>3, HeadTailProperties
    <3> DEFINE t == Tail(s)
    <3>2. \A i \in 1 .. Len(executing') : executing'[i].write = t[i]
      <4> TAKE i \in 1 .. Len(executing')
      <4>1. t[i] = s[i + 1] /\ i + 1 \in 1 .. Len(executing)
        BY <1>4, <3>1
      <4>2. s[i + 1] = executing[i + 1].write
        BY <4>1 DEF Submitted
      <4> HIDE DEF t, s
      <4> QED BY <1>2, <4>1, <4>2
    <3> HIDE DEF t
    <3>3. t = [i \in 1 .. Len(executing') |-> t[i]]
      BY <3>1, LenProperties DEF t
    <3>4. Submitted' = [i \in 1 .. Len(executing') |-> executing'[i].write]
      BY DEF Submitted
    <3> QED BY <3>2, <3>3, <3>4 DEF t
  <2>5. Head(s) = s[1]
    BY <2>2, <2>3
  <2> HIDE DEF s
  <2>6. s = <<Head(s)>> \o Tail(s) /\ Tail(s) \in Seq(Writes)
    BY <2>2, <2>3, HeadJoinsTail, HeadTailProperties
  <2> QED BY <2>3, <2>4, <2>5, <2>6 DEF s
<1> QED BY <1>1, <1>2, <1>3, <1>4, <1>5, <1>6, <1>7

-----------------------------------------------------------------------------
(* The daemon.                                                               *)

\* It takes the writes of a batch it has not executed, in their order.
LEMMA Accepting ==
    ASSUME OutletAssumption, RestTyped, ChannelsGood, NEW s \in Sockets, AcceptBatch(s)
    PROVE  /\ owed' \in Seq(Writes)
           /\ \/ UNCHANGED owed
              \/ \E b \in Under, fresh \in Seq(Writes) :
                    /\ owed' = owed \o fresh /\ b.writes \in Seq(Writes)
                    /\ ToSet(fresh) = ToSet(b.writes) \ done
                    /\ ToSet(fresh) \cap ToSet(owed) = {}
                    /\ Ascending(b.writes) => Ascending(fresh)
<1> DEFINE b == Head(chan[s].up)
           fresh == Among(b.writes, Writes \ done)
<1>1. /\ chan[s].up # <<>> /\ b.kind = "batch"
      /\ \/ owed' = owed \o fresh /\ ToSet(fresh) \cap ToSet(owed) = {}
         \/ UNCHANGED owed
  BY DEF AcceptBatch
<1>2. b \in Under /\ b.writes \in Seq(Writes)
  <2>1. Good(chan[s])
    BY DEF ChannelsGood
  <2>2. b \in ToSet(chan[s].up) /\ b \in Message
    BY <1>1, <2>1, Parts, HeadAndTail
  <2> HIDE DEF b
  <2>3. b \in Carried(chan[s])
    BY <1>1, <2>1, <2>2, Contents
  <2> QED BY <2>2, <2>3 DEF Under, Message
<1> HIDE DEF b
<1> DEFINE ws == b.writes
<1>3. /\ fresh \in Seq(Writes) /\ ToSet(fresh) = ToSet(ws) \ done
      /\ Ascending(ws) => Ascending(fresh)
  <2>1. ws \in Seq(Writes)
    BY <1>2
  <2> HIDE DEF ws
  <2> DEFINE a == Among(ws, Writes \ done)
  <2>2. a \in Seq(Writes) /\ ToSet(a) = ToSet(ws) \cap (Writes \ done)
    BY <2>1, AmongElements
  <2>3. Ascending(ws) => Ascending(a)
    BY <2>1, Numbers, AmongAscending
  <2>4. ToSet(ws) \subseteq Writes
    BY <2>1, Elements
  <2>5. fresh = a
    BY DEF ws
  <2> HIDE DEF a, fresh
  <2> QED BY <2>2, <2>3, <2>4, <2>5
<1> HIDE DEF fresh
<1>4. owed \in Seq(Writes) /\ owed \o fresh \in Seq(Writes)
  BY <1>3, Joined DEF RestTyped
<1> QED BY <1>1, <1>2, <1>3, <1>4

\* It executes the first write of some lane.
LEMMA Executing ==
    ASSUME OutletAssumption, HistoryTyped, RestTyped, DaemonExecutes
    PROVE  \E w \in Writes :
             /\ \E before, after \in Seq(Writes) :
                   /\ owed = (before \o <<w>>) \o after /\ owed' = before \o after
                   /\ \A x \in ToSet(before) : LaneOf[x] # LaneOf[w]
             /\ done' = done \cup {w}
             /\ \E ran \in Seq(Writes) :
                   /\ applied' = applied \o ran
                   /\ ToSet(ran) = {w} \ ToSet(applied) /\ Ascending(ran)
<1>1. PICK i \in 1 .. Len(owed) :
        /\ \A j \in 1 .. i - 1 : LaneOf[owed[j]] # LaneOf[owed[i]]
        /\ owed' = SubSeq(owed, 1, i - 1) \o SubSeq(owed, i + 1, Len(owed))
        /\ done' = done \cup {owed[i]}
        /\ applied' = applied \o New(<<owed[i]>>)
  <2>1. DOMAIN owed = 1 .. Len(owed)
    BY LenProperties DEF RestTyped
  <2> QED BY <2>1 DEF DaemonExecutes
<1> DEFINE n == Len(owed)
           w == owed[i]
           before == SubSeq(owed, 1, i - 1)
           after == SubSeq(owed, i + 1, n)
           ran == New(<<w>>)
<1>2. owed \in Seq(Writes) /\ n \in Nat /\ w \in Writes /\ \A j \in 1 .. n : owed[j] \in Writes
  BY ElementOfSeq, LenProperties DEF RestTyped
<1>3. /\ after \in Seq(Writes) /\ SubSeq(owed, 1, i) \o after = owed
      /\ before \in Seq(Writes) /\ Len(before) = i - 1
  <2>1. i \in 0 .. n /\ i - 1 \in 0 .. n
    BY <1>2
  <2> DEFINE k == i - 1
  <2>2. SubSeq(owed, 1, k) \in Seq(Writes) /\ Len(SubSeq(owed, 1, k)) = k
    <3>1. k \in 0 .. Len(owed)
      BY <2>1
    <3> HIDE DEF k
    <3> QED BY <1>2, <3>1, Cut
  <2> QED BY <1>2, <2>1, <2>2, Cut
<1>4. SubSeq(owed, 1, i) = before \o <<w>>
  <2>1. 1 \in 1 .. n /\ i \in 1 .. n
    BY <1>2
  <2> QED BY <1>2, <2>1, SubSeqRecursiveSecond
<1>5. \A x \in ToSet(before) : LaneOf[x] # LaneOf[w]
  <2> TAKE x \in ToSet(before)
  <2>1. PICK j \in 1 .. i - 1 : before[j] = x
    <3> HIDE DEF before
    <3> QED BY <1>3, Elements
  <2>2. x = owed[j]
    <3>1. \A k \in 1 .. (i - 1) - 1 + 1 : before[k] = owed[1 + k - 1]
      <4>1. \A k \in 1 .. i - 1 : owed[k] \in Writes
        BY <1>2
      <4>2. 1 \in Int /\ i - 1 \in Int
        BY <1>2
      <4> QED BY <4>1, <4>2, SubSeqProperties
    <3>2. j \in 1 .. (i - 1) - 1 + 1 /\ 1 + j - 1 = j
      BY <1>2
    <3> HIDE DEF before
    <3> QED BY <2>1, <3>1, <3>2
  <2> QED BY <1>1, <2>2
<1>6. ran \in Seq(Writes) /\ ToSet(ran) = {w} \ ToSet(applied) /\ Ascending(ran)
  <2> HIDE DEF w
  <2> DEFINE one == <<w>>
             a == Among(one, Writes \ ToSet(applied))
  <2>1. one \in Seq(Writes) /\ ToSet(one) = {w} /\ Ascending(one)
    BY <1>2, ElementsOfFew
  <2>2. ran = a
    BY DEF New
  <2> HIDE DEF one, ran
  <2>3. a \in Seq(Writes) /\ ToSet(a) = {w} \cap (Writes \ ToSet(applied)) /\ Ascending(a)
    BY <2>1, AmongElements, AmongAscending, Numbers
  <2> QED BY <1>2, <2>2, <2>3
<1>7. /\ owed' = before \o after /\ owed = (before \o <<w>>) \o after
      /\ done' = done \cup {w} /\ applied' = applied \o ran
  BY <1>1, <1>3, <1>4
<1> HIDE DEF w, before, after, ran
<1> QED BY <1>2, <1>3, <1>5, <1>6, <1>7

LEMMA ExecutingTypes ==
    ASSUME OutletAssumption, HistoryTyped, RestTyped, DaemonExecutes
    PROVE  owed' \in Seq(Writes) /\ done' \subseteq Writes /\ applied' \in Seq(Writes)
<1>1. PICK w \in Writes :
        /\ \E before, after \in Seq(Writes) : owed' = before \o after
        /\ done' = done \cup {w}
        /\ \E ran \in Seq(Writes) : applied' = applied \o ran
  BY Executing
<1> QED BY <1>1, Joined DEF HistoryTyped, RestTyped

-----------------------------------------------------------------------------
(* Types, step by step.                                                      *)

LEMMA RestKept ==
    ASSUME OutletAssumption, Types, Next
    PROVE  RestTyped'
<1>1. ASSUME Plugin
      PROVE  /\ enabled' \in BOOLEAN /\ draining' \in BOOLEAN /\ unloaded' \in BOOLEAN
             /\ owed' = owed /\ done' = done
             /\ Fails \/ UNCHANGED faults
  <2>1. ASSUME NEW forceSync \in BOOLEAN, HandOver(forceSync)
        PROVE  UNCHANGED <<adminVars, owed, done, faults>>
    BY <2>1 DEF HandOver, daemonVars
  <2>2. CASE PumpTimer \/ SaveCallback \/ DatabaseReady \/ DatabaseLost \/ MapEnd
    BY <2>2 DEF PumpTimer, SaveCallback, DatabaseReady, DatabaseLost, MapEnd, Types,
                RestTyped, adminVars, daemonVars
  <2>3. CASE ConnectSocket \/ ReconnectTimer \/ Timeout \/ FlushSqlBatch
    BY <2>3 DEF ConnectSocket, ReconnectTimer, Timeout, FlushSqlBatch, Reconnect, Types,
                RestTyped, adminVars, daemonVars
  <2>4. ASSUME NEW s \in Sockets, SocketCallback(s)
        PROVE  UNCHANGED <<adminVars, owed, done, faults>>
    BY <2>4 DEF SocketCallback
  <2>5. CASE EndpointChanged \/ DrainCommand \/ PluginEnd
    BY <2>5 DEF EndpointChanged, DrainCommand, PluginEnd, Reconnect, Types,
                RestTyped, adminVars, daemonVars
  <2> QED BY <1>1, <2>1, <2>2, <2>3, <2>4, <2>5 DEF Plugin, Types, RestTyped, adminVars
<1>2. ASSUME ExecuteAsync \/ ExecuteAsyncFails
      PROVE  UNCHANGED <<adminVars, owed, done>> /\ (Fails \/ UNCHANGED faults)
  BY <1>2 DEF ExecuteAsync, ExecuteAsyncFails, RunAsync, daemonVars
<1>3. ASSUME Daemon
      PROVE  /\ UNCHANGED adminVars /\ owed' \in Seq(Writes) /\ done' \subseteq Writes
             /\ Fails \/ UNCHANGED faults
  <2>1. ASSUME NEW s \in Sockets,
               \/ Accept(s) \/ AnswerHello(s) \/ RefuseBatch(s) \/ AnswerBatch(s)
               \/ GiveUp(s) \/ Break(s) \/ HandlerEnds(s)
        PROVE  UNCHANGED <<adminVars, owed, done>> /\ (Fails \/ UNCHANGED faults)
    BY <2>1 DEF Accept, AnswerHello, RefuseBatch, AnswerBatch, GiveUp, Break,
                HandlerEnds, far
  <2>2. ASSUME NEW s \in Sockets, AcceptBatch(s)
        PROVE  UNCHANGED <<adminVars, done, faults>> /\ owed' \in Seq(Writes)
    <3>1. owed' \in Seq(Writes)
      BY <2>2, Accepting DEF Types
    <3> QED BY <2>2, <3>1 DEF AcceptBatch, far
  <2>3. CASE DaemonExecutes
    BY <2>3, ExecutingTypes DEF DaemonExecutes, far, Types
  <2> QED BY <1>3, <2>1, <2>2, <2>3 DEF Daemon, Types, RestTyped
<1>4. Fails \/ UNCHANGED faults
  BY <1>1, <1>2, <1>3 DEF Next
<1>5. faults' \in 0 .. MaxFaults
  BY <1>4 DEF Fails, Types, RestTyped, OutletAssumption
<1> QED BY <1>1, <1>2, <1>3, <1>5 DEF Next, Types, RestTyped, adminVars

\* What is on the way after a step.
LEMMA BatchSent ==
    ASSUME OutletAssumption, Types, FlushSqlBatch
    PROVE  /\ ChannelsGood'
           /\ Under' \subseteq Under \cup {Batch(batch', inflight')} /\ Acks' \subseteq Acks
           /\ \A m \in Under \cup Acks : m.id # batch'
<1> DEFINE c == Sent(chan[sock], Batch(batch', inflight'))
<1>1. /\ batch' \in BatchIds \ IdsUnderWay /\ inflight' \in Seq(Writes) /\ sock \in Sockets
      /\ chan' = [chan EXCEPT ![sock] = c]
  BY Flushing DEF Types, OutletTyped
<1>2. Good(chan[sock])
  BY <1>1 DEF Types, ChannelsGood
<1>3. /\ Good(c) /\ Carried(c) \subseteq Carried(chan[sock]) \cup {Batch(batch', inflight')}
      /\ AcksOf(c) = AcksOf(chan[sock])
  BY <1>1, <1>2, Sending
<1> HIDE DEF c
<1>4. /\ ChannelsGood' /\ Under' \subseteq Under \cup Carried(c)
      /\ Acks' \subseteq Acks \cup AcksOf(c)
  BY <1>1, <1>3, OneChannel DEF Types
<1>5. Carried(chan[sock]) \subseteq Under /\ AcksOf(chan[sock]) \subseteq Acks
  BY <1>1 DEF Under, Acks
<1>6. \A m \in Under \cup Acks : m.id # batch'
  <2>1. ASSUME NEW s \in Sockets, NEW m \in Carried(chan[s]) \cup AcksOf(chan[s])
        PROVE  m.id \in IdsUnderWay
    <3>1. chan[s].up \in Seq(Message) /\ chan[s].down \in Seq(Message)
      BY Parts DEF Types, ChannelsGood
    <3>2. ToSet(chan[s].up \o chan[s].down) = ToSet(chan[s].up) \cup ToSet(chan[s].down)
      BY <3>1, Joined
    <3>3. m \in ToSet(chan[s].up \o chan[s].down) \cup {chan[s].job}
      BY <2>1, <3>2 DEF Carried, AcksOf
    <3> QED BY <3>3 DEF IdsUnderWay
  <2> QED BY <1>1, <2>1 DEF Under, Acks
<1> QED BY <1>3, <1>4, <1>5, <1>6

LEMMA ChannelsKept ==
    ASSUME OutletAssumption, Types, Next
    PROVE  ChannelsGood'
<1>1. ASSUME NEW s \in Sockets, AnswerBatch(s)
      PROVE  ChannelsGood'
  <2> DEFINE c == [chan[s] EXCEPT !.served = "idle", !.job = Hello,
                                  !.down = Append(@, Reply("ack", chan[s].job.id))]
  <2>1. chan' = [chan EXCEPT ![s] = c] /\ chan[s].served = "waiting" /\ Good(chan[s])
    BY <1>1 DEF AnswerBatch, Types, ChannelsGood
  <2>2. Good(c)
    BY <2>1, Answering
  <2> HIDE DEF c
  <2> QED BY <2>1, <2>2, OneChannel DEF Types
<1>2. CASE ExecuteAsync \/ ExecuteAsyncFails
  BY <1>2, NoneChanged DEF ExecuteAsync, ExecuteAsyncFails, RunAsync, daemonVars, Types,
                           ChannelsQuiet
<1>3. CASE FlushSqlBatch
  BY <1>3, BatchSent
<1>4. CASE Plugin /\ ~FlushSqlBatch
  BY <1>4, PluginQuiet DEF Types, ChannelsQuiet
<1>5. CASE Daemon
  BY <1>1, <1>5, DaemonQuiet DEF Types, ChannelsQuiet
<1> QED BY <1>2, <1>3, <1>4, <1>5 DEF Next

LEMMA Emptying ==
    ASSUME OutletAssumption, Types, MapEnd
    PROVE  /\ LocalTyped' /\ HistoryTyped' /\ saveQueue' = <<>> /\ ~HasPendingWrites
           /\ UNCHANGED <<handed, outletVars, adminVars, executing, pump, daemonVars, faults>>
           /\ \E ok \in SUBSET ToSet(saveQueue) : ExecuteSync(saveQueue, ok)
<1>1. /\ saveQueue' = <<>> /\ ~HasPendingWrites
      /\ UNCHANGED <<handed, outletVars, adminVars, executing, pump, daemonVars, faults>>
  BY DEF MapEnd, CanPumpLocal
<1>2. PICK ok \in SUBSET ToSet(saveQueue) :
         ExecuteSync(saveQueue, ok) /\ (ready' = ready \/ ready' = FALSE)
  BY DEF MapEnd, RunSaveQuerySync
<1>3. HistoryTyped'
  BY <1>2, Synchronous DEF Types, LocalTyped
<1>4. saveQueue' \in Seq(Writes)
  BY <1>1, EmptySeq
<1> QED BY <1>1, <1>2, <1>3, <1>4 DEF Types, LocalTyped

LEMMA Unloading ==
    ASSUME OutletAssumption, Types, PluginEnd
    PROVE  /\ LocalTyped' /\ HistoryTyped' /\ OutletTyped'
           /\ unloaded' = TRUE
           /\ queue' = <<>> /\ inflight' = <<>> /\ batch' = NoBatch /\ saveQueue' = <<>>
           /\ UNCHANGED <<handed, executing, daemonVars>>
           /\ Owned \o saveQueue \in Seq(Writes)
           /\ ToSet(Owned \o saveQueue) = ToSet(Owned) \cup ToSet(saveQueue)
           /\ \E ok \in SUBSET ToSet(Owned \o saveQueue) : ExecuteSync(Owned \o saveQueue, ok)
<1> DEFINE all == Owned \o saveQueue
<1>1. all \in Seq(Writes) /\ ToSet(all) = ToSet(Owned) \cup ToSet(saveQueue)
  <2>1. Owned \in Seq(Writes) /\ saveQueue \in Seq(Writes)
    BY Joined DEF Owned, Types, OutletTyped, LocalTyped
  <2> QED BY <2>1, Joined
<1>2. PICK ok \in SUBSET ToSet(all) : ExecuteSync(all, ok)
  BY DEF PluginEnd, Owned
<1>3. /\ unloaded' = TRUE
      /\ queue' = <<>> /\ inflight' = <<>> /\ batch' = NoBatch /\ saveQueue' = <<>>
      /\ sock' = NoSocket /\ link' = "down" /\ armed' = FALSE /\ retry' = FALSE
      /\ pump' = FALSE /\ ready' = FALSE
      /\ UNCHANGED <<handed, executing, daemonVars>>
  BY DEF PluginEnd
<1> HIDE DEF all
<1>4. HistoryTyped'
  BY <1>1, <1>2, Synchronous DEF Types
<1>5. saveQueue' \in Seq(Writes) /\ queue' \in Seq(Writes) /\ inflight' \in Seq(Writes)
  BY <1>3, EmptySeq
<1>6. LocalTyped' /\ OutletTyped'
  BY <1>3, <1>5 DEF Types, LocalTyped, OutletTyped, Positions
<1> QED BY <1>1, <1>2, <1>3, <1>4, <1>6 DEF all

LEMMA TypesKept ==
    ASSUME OutletAssumption, Types, [Next]_vars
    PROVE  Types'
<1>1. CASE UNCHANGED vars
  <2>1. LocalTyped' /\ HistoryTyped' /\ OutletTyped' /\ RestTyped'
    BY <1>1 DEF Types, LocalTyped, HistoryTyped, OutletTyped, RestTyped, vars, outletVars,
                adminVars, localVars, daemonVars, history
  <2>2. ChannelsGood'
    BY <1>1 DEF Types, ChannelsGood, vars, daemonVars
  <2> QED BY <2>1, <2>2 DEF Types
<1>2. ASSUME Next, LocalTyped', HistoryTyped', OutletTyped'
      PROVE  Types'
  BY <1>2, RestKept, ChannelsKept DEF Types
<1>3. ASSUME UNCHANGED outletVars
      PROVE  OutletTyped'
  BY <1>3 DEF Types, OutletTyped, outletVars
<1>4. ASSUME UNCHANGED <<handed, localVars>>
      PROVE  LocalTyped'
  BY <1>4 DEF Types, LocalTyped, localVars
<1>5. ASSUME UNCHANGED history
      PROVE  HistoryTyped'
  BY <1>5 DEF Types, HistoryTyped, history
<1>6. ASSUME NEW forceSync \in BOOLEAN, HandOver(forceSync)
      PROVE  LocalTyped' /\ HistoryTyped' /\ OutletTyped'
  BY <1>6, HandingOver DEF Types
<1>7. ASSUME PumpTimer \/ DatabaseReady
      PROVE  LocalTyped' /\ HistoryTyped' /\ OutletTyped'
  <2>1. /\ UNCHANGED <<handed, outletVars, history>> /\ pump' \in BOOLEAN /\ ready' \in BOOLEAN
        /\ PumpSaveQueue \/ UNCHANGED <<saveQueue, executing>>
    BY <1>7 DEF PumpTimer, DatabaseReady, Types, LocalTyped
  <2>2. saveQueue' \in Seq(Writes) /\ executing' \in Seq(Query) /\ Len(executing') <= MaxAsync
    BY <2>1, Pumping DEF Types, LocalTyped
  <2>3. LocalTyped'
    BY <2>1, <2>2 DEF Types, LocalTyped
  <2> QED BY <1>3, <1>5, <2>1, <2>3
<1>8. ASSUME SaveCallback
      PROVE  LocalTyped' /\ HistoryTyped' /\ OutletTyped'
  <2>1. UNCHANGED <<outletVars, history>>
    BY <1>8 DEF SaveCallback
  <2> QED BY <1>3, <1>5, <1>8, <2>1, CallingBack DEF Types
<1>9. ASSUME DatabaseLost
      PROVE  LocalTyped' /\ HistoryTyped' /\ OutletTyped'
  <2>1. UNCHANGED <<outletVars, history, handed, saveQueue, executing, pump>> /\ ready' = FALSE
    BY <1>9 DEF DatabaseLost
  <2> QED BY <1>3, <1>5, <2>1 DEF Types, LocalTyped
<1>10. ASSUME MapEnd
       PROVE  LocalTyped' /\ HistoryTyped' /\ OutletTyped'
  BY <1>3, <1>10, Emptying
<1>11. ASSUME ConnectSocket \/ ReconnectTimer \/ Timeout \/ EndpointChanged
       PROVE  LocalTyped' /\ HistoryTyped' /\ OutletTyped'
  <2>1. UNCHANGED <<handed, localVars, history>>
    BY <1>11 DEF ConnectSocket, ReconnectTimer, Timeout, EndpointChanged
  <2>2. \/ Reconnect
        \/ retry' \in BOOLEAN /\ DisconnectSocket
        \/ retry' = FALSE /\ UNCHANGED <<queue, inflight, batch, sock, link, armed>>
    BY <1>11 DEF ConnectSocket, ReconnectTimer, Timeout, EndpointChanged, Fault, Types,
                 OutletTyped, RestTyped
  <2>3. OutletTyped'
    <3>1. CASE retry' = FALSE /\ UNCHANGED <<queue, inflight, batch, sock, link, armed>>
      BY <3>1 DEF Types, OutletTyped
    <3> QED BY <2>2, <3>1, Reconnecting, Disconnecting DEF Types
  <2> QED BY <1>4, <1>5, <2>1, <2>3
<1>12. ASSUME FlushSqlBatch
       PROVE  LocalTyped' /\ HistoryTyped' /\ OutletTyped'
  <2>1. UNCHANGED <<handed, localVars, history>>
    BY <1>12 DEF FlushSqlBatch
  <2> QED BY <1>4, <1>5, <1>12, <2>1, Flushing DEF Types
<1>13. ASSUME NEW s \in Sockets, SocketCallback(s)
       PROVE  LocalTyped' /\ HistoryTyped' /\ OutletTyped'
  <2>1. UNCHANGED <<handed, history>>
    BY <1>13 DEF SocketCallback
  <2>2. OutletTyped' /\ (UNCHANGED localVars \/ BatchAcknowledged)
    BY <1>13, Calling DEF Types
  <2>3. LocalTyped'
    BY <2>1, <2>2 DEF BatchAcknowledged, Types, LocalTyped, localVars
  <2> QED BY <1>5, <2>1, <2>2, <2>3
<1>14. ASSUME DrainCommand
       PROVE  LocalTyped' /\ HistoryTyped' /\ OutletTyped'
  <2>1. UNCHANGED <<handed, outletVars, localVars, history>>
    BY <1>14 DEF DrainCommand
  <2> QED BY <1>3, <1>4, <1>5, <2>1
<1>15. ASSUME PluginEnd
       PROVE  LocalTyped' /\ HistoryTyped' /\ OutletTyped'
  BY <1>15, Unloading
<1>16. ASSUME ExecuteAsync \/ ExecuteAsyncFails
       PROVE  LocalTyped' /\ HistoryTyped' /\ OutletTyped'
  <2>1. PICK ok \in BOOLEAN : RunAsync(ok)
    BY <1>16 DEF ExecuteAsync, ExecuteAsyncFails
  <2>2. UNCHANGED outletVars
    BY <2>1 DEF RunAsync
  <2> QED BY <1>3, <2>1, <2>2, Running DEF Types
<1>17. ASSUME Daemon
       PROVE  LocalTyped' /\ HistoryTyped' /\ OutletTyped'
  <2>1. /\ UNCHANGED <<handed, outletVars, localVars, dropped, remote, direct>>
        /\ UNCHANGED applied \/ DaemonExecutes
    BY <1>17 DEF Daemon, Accept, AnswerHello, AcceptBatch, RefuseBatch, AnswerBatch,
                 GiveUp, Break, HandlerEnds, DaemonExecutes, far
  <2>2. HistoryTyped'
    BY <2>1, ExecutingTypes DEF Types, HistoryTyped
  <2> QED BY <1>3, <1>4, <2>1, <2>2
<1>18. ASSUME Plugin
       PROVE  LocalTyped' /\ HistoryTyped' /\ OutletTyped'
  BY <1>6, <1>7, <1>8, <1>9, <1>10, <1>11, <1>12, <1>13, <1>14, <1>15, <1>18 DEF Plugin
<1> QED BY <1>1, <1>2, <1>16, <1>17, <1>18 DEF Next

LEMMA TypesAtStart == Init => Types
<1> SUFFICES ASSUME Init PROVE Types
  OBVIOUS
<1>1. <<>> \in Seq(Writes) /\ <<>> \in Seq(Query) /\ Len(<<>>) = 0
  BY EmptySeq
<1>2. LocalTyped /\ HistoryTyped /\ OutletTyped /\ RestTyped
  <2>1. LocalTyped
    <3>1. executing \in Seq(Query) /\ saveQueue \in Seq(Writes)
      BY <1>1, Zenon DEF Init
    <3>2. Len(executing) <= MaxAsync
      BY <1>1, OutletAssumption DEF Init, OutletAssumption
    <3>3. handed = 0 /\ MaxWrites \in Nat
      BY OutletAssumption DEF Init, OutletAssumption
    <3>4. handed \in 0 .. MaxWrites
      BY <3>3
    <3>5. pump \in BOOLEAN /\ ready \in BOOLEAN
      BY DEF Init
    <3> QED BY <3>1, <3>2, <3>4, <3>5 DEF LocalTyped
  <2>2. HistoryTyped
    BY <1>1 DEF Init, HistoryTyped
  <2>3. OutletTyped
    BY <1>1 DEF Init, OutletTyped, Positions
  <2>4. RestTyped
    <3>1. owed \in Seq(Writes) /\ done \subseteq Writes
      BY <1>1 DEF Init
    <3>2. faults \in 0 .. MaxFaults
      BY OutletAssumption DEF Init, OutletAssumption
    <3>3. enabled \in BOOLEAN /\ draining \in BOOLEAN /\ unloaded \in BOOLEAN
      BY DEF Init
    <3> QED BY <3>1, <3>2, <3>3 DEF RestTyped
  <2> QED BY <2>1, <2>2, <2>3, <2>4
<1>3. ChannelsGood
  <2>1. Good(Free) /\ Free \in Channel
    BY FreeIsGood DEF Good
  <2> QED BY <2>1 DEF Init, ChannelsGood
<1> QED BY <1>2, <1>3 DEF Types

LEMMA AlwaysTyped == Spec => []Types
<1>1. Types /\ [Next]_vars => Types'
  BY TypesKept, OutletAssumption
<1> QED BY <1>1, TypesAtStart, PTL DEF Spec

\* The variables of plugin, channels and daemon keep their types, and the flags of
\* the outlet go together: writes are in flight exactly when a batch is awaited,
\* then the session is open, and every wait has a deadline.
THEOREM WellTyped == Spec => []TypeOK
  BY AlwaysTyped, TypesAreOK, PTL

-----------------------------------------------------------------------------
(* Ownership.                                                                *)

\* The outlet and the local path own different writes, each numbered upwards.
Numbered ==
    /\ Ascending(Owned) /\ ToSet(Owned) \subseteq remote
    /\ Ascending(Local) /\ ToSet(Local) \subseteq (1 .. handed) \ remote
    /\ remote \subseteq 1 .. handed

\* Every write has an owner or an end.
Ended ==
    /\ \A i \in 1 .. Len(executing) :
          executing[i].ran => executing[i].write \in ToSet(applied) \cup dropped
    /\ done \subseteq ToSet(applied)
    /\ 1 .. handed \subseteq ToSet(Owned) \cup ToSet(Local) \cup ToSet(applied) \cup dropped
    /\ dropped \subseteq 1 .. handed
    /\ dropped \cap remote # {} => unloaded

\* What is on the way under the id of the batch in flight is that batch.
Matched ==
    batch # NoBatch =>
       /\ \A b \in Under : b.id = batch => b.writes = inflight
       /\ \A m \in Acks : m.id = batch => ToSet(inflight) \subseteq done

Ownership == BarrierHolds /\ Numbered /\ Ended

LEMMA Holdings ==
    ASSUME OutletAssumption, Types
    PROVE  /\ Submitted \in Seq(Writes) /\ Len(Submitted) = Len(executing)
           /\ \A i \in 1 .. Len(executing) : Submitted[i] = executing[i].write
           /\ saveQueue \in Seq(Writes) /\ Local \in Seq(Writes)
           /\ ToSet(Local) = ToSet(Submitted) \cup ToSet(saveQueue)
           /\ inflight \in Seq(Writes) /\ queue \in Seq(Writes) /\ Owned \in Seq(Writes)
           /\ ToSet(Owned) = ToSet(inflight) \cup ToSet(queue)
           /\ handed \in Nat /\ Writes \subseteq Nat
<1>1. /\ saveQueue \in Seq(Writes) /\ inflight \in Seq(Writes) /\ queue \in Seq(Writes)
      /\ handed \in Nat /\ executing \in Seq(Query)
  BY DEF Types, LocalTyped, OutletTyped, OutletAssumption
<1>2. /\ Submitted \in Seq(Writes) /\ Len(Submitted) = Len(executing)
      /\ \A i \in 1 .. Len(executing) : Submitted[i] = executing[i].write
  <2> DEFINE n == Len(executing)
             s == Submitted
  <2>1. n \in Nat /\ \A i \in 1 .. n : executing[i] \in Query
    BY <1>1, ElementOfSeq, LenProperties
  <2>2. \A i \in 1 .. n : executing[i].write \in Writes
    BY <2>1 DEF Query
  <2>3. s \in [1 .. n -> Writes] /\ \A i \in 1 .. n : s[i] = executing[i].write
    BY <2>2 DEF Submitted
  <2> HIDE DEF s, n
  <2>4. s \in Seq(Writes)
    BY <2>1, <2>3, SeqDef
  <2>5. Len(s) = n
    BY <2>1, <2>3, <2>4, LenProperties
  <2> QED BY <2>3, <2>4, <2>5 DEF s, n
<1>3. Local \in Seq(Writes) /\ ToSet(Local) = ToSet(Submitted) \cup ToSet(saveQueue)
  BY <1>1, <1>2, Joined DEF Local
<1>4. Owned \in Seq(Writes) /\ ToSet(Owned) = ToSet(inflight) \cup ToSet(queue)
  BY <1>1, Joined DEF Owned
<1>5. Writes \subseteq Nat
  BY DEF Writes
<1> QED BY <1>1, <1>2, <1>3, <1>4, <1>5

\* Going back to the queue keeps order and ownership.
LEMMA Requeueing ==
    ASSUME Types, RequeueInflight
    PROVE  Owned' = Owned /\ (HasPendingWrites' <=> HasPendingWrites)
<1>1. queue' = inflight \o queue /\ inflight' = <<>>
  BY DEF RequeueInflight
<1>2. inflight \in Seq(Writes) /\ queue \in Seq(Writes) /\ queue' \in Seq(Writes)
  BY <1>1, Joined DEF Types, OutletTyped
<1>3. Owned' = Owned
  BY <1>1, <1>2, ConcatEmptySeq DEF Owned
<1>4. inflight \o queue = <<>> <=> (inflight = <<>> /\ queue = <<>>)
  BY <1>2, ConcatEqualIffEmpty
<1> QED BY <1>1, <1>3, <1>4 DEF HasPendingWrites

\* Steps that move, start and end no write.
SameWrites ==
    /\ UNCHANGED <<handed, saveQueue, executing, applied, dropped, remote, done>>
    /\ RequeueInflight \/ UNCHANGED <<queue, inflight>>
    /\ unloaded => unloaded'

LEMMA SameWritesKept ==
    ASSUME Types, Ownership, SameWrites
    PROVE  Ownership' /\ Owned' = Owned /\ Local' = Local
<1>1. UNCHANGED <<handed, saveQueue, executing, applied, dropped, remote, done>>
      /\ (unloaded => unloaded')
  BY DEF SameWrites
<1>2. Owned' = Owned /\ (HasPendingWrites' <=> HasPendingWrites)
  BY Requeueing DEF SameWrites, Owned, HasPendingWrites
<1>3. Local' = Local
  BY <1>1 DEF Local, Submitted
<1>4. BarrierHolds'
  BY <1>1, <1>2 DEF Ownership, BarrierHolds
<1>5. Numbered'
  <2> DEFINE o == Owned
             l == Local
  <2>1. /\ Ascending(o) /\ ToSet(o) \subseteq remote
        /\ Ascending(l) /\ ToSet(l) \subseteq (1 .. handed) \ remote
        /\ remote \subseteq 1 .. handed
    BY DEF Ownership, Numbered
  <2>2. Owned' = o /\ Local' = l
    BY <1>2, <1>3
  <2> HIDE DEF o, l
  <2> QED BY <1>1, <2>1, <2>2 DEF Numbered
<1>6. Ended'
  BY <1>1, <1>2, <1>3 DEF Ownership, Ended
<1> QED BY <1>2, <1>3, <1>4, <1>5, <1>6 DEF Ownership

LEMMA SessionSteps ==
    ASSUME OutletAssumption, Types,
           \/ ConnectSocket \/ ReconnectTimer \/ Timeout \/ EndpointChanged
           \/ DrainCommand \/ DatabaseLost
    PROVE  /\ SameWrites /\ direct' = direct /\ unloaded' = unloaded
           /\ UNCHANGED <<owed, done>>
           /\ batch' = NoBatch \/ UNCHANGED <<batch, inflight>>
<1>1. CASE ConnectSocket \/ ReconnectTimer \/ Timeout \/ EndpointChanged
  <2>1. /\ UNCHANGED <<handed, unloaded, localVars, owed, done, history>>
        /\ \/ RequeueInflight
           \/ UNCHANGED <<queue, inflight, batch>>
    BY <1>1 DEF ConnectSocket, ReconnectTimer, Timeout, EndpointChanged, Reconnect,
                Fault, DisconnectSocket, adminVars, daemonVars
  <2> QED BY <2>1 DEF SameWrites, localVars, history, RequeueInflight
<1>2. CASE DrainCommand \/ DatabaseLost
  BY <1>2 DEF DrainCommand, DatabaseLost, SameWrites, outletVars, adminVars, localVars,
              daemonVars, history
<1> QED BY <1>1, <1>2

LEMMA CallbackSteps ==
    ASSUME OutletAssumption, Types, NEW s \in Sockets, SocketCallback(s)
    PROVE  /\ UNCHANGED <<handed, unloaded, owed, done, history, saveQueue, executing>>
           /\ \/ SameWrites /\ (batch' = NoBatch \/ UNCHANGED <<batch, inflight>>)
              \/ /\ queue' = queue /\ inflight' = <<>> /\ batch' = NoBatch
                 /\ batch # NoBatch /\ \E m \in Acks : m.id = batch
<1>1. UNCHANGED <<handed, adminVars, owed, done, history>>
  BY DEF SocketCallback
<1>2. \/ UNCHANGED <<queue, inflight, batch, localVars>>
      \/ RequeueInflight /\ UNCHANGED localVars
      \/ BatchAcknowledged /\ batch # NoBatch /\ \E m \in Acks : m.id = batch
  BY Calling DEF Types
<1> QED BY <1>1, <1>2
        DEF SameWrites, BatchAcknowledged, RequeueInflight, adminVars, localVars, history

LEMMA DaemonSteps ==
    ASSUME Daemon
    PROVE  /\ UNCHANGED <<handed, outletVars, adminVars, localVars, dropped, remote, direct>>
           /\ DaemonExecutes \/ (SameWrites /\ UNCHANGED done)
<1>1. ASSUME NEW s \in Sockets,
             \/ Accept(s) \/ AnswerHello(s) \/ RefuseBatch(s) \/ AnswerBatch(s)
             \/ GiveUp(s) \/ Break(s) \/ HandlerEnds(s) \/ AcceptBatch(s)
      PROVE  UNCHANGED <<far, done, applied>>
  BY <1>1 DEF Accept, AnswerHello, RefuseBatch, AnswerBatch, GiveUp, Break,
              HandlerEnds, AcceptBatch
<1>2. UNCHANGED far /\ (DaemonExecutes \/ UNCHANGED <<done, applied>>)
  BY <1>1 DEF Daemon, DaemonExecutes
<1> QED BY <1>2 DEF far, SameWrites, outletVars, adminVars, localVars

\* A write handed over goes behind all that its owner has.
LEMMA HandOverMoves ==
    ASSUME OutletAssumption, Types, NEW forceSync \in BOOLEAN, HandOver(forceSync)
    PROVE  /\ Taken => Owned' = Owned \o <<handed'>> /\ Local' = Local
           /\ Kept => Owned' = Owned /\ Local' = Local \o <<handed'>>
           /\ AtOnce => Owned' = Owned /\ Local' = Local
<1> DEFINE h == handed'
           one == <<h>>
           o == Owned
           l == Local
<1>1. h \in Writes /\ UNCHANGED <<inflight, executing>>
  BY HandingOver DEF Types
<1>2. Submitted' = Submitted
  BY <1>1 DEF Submitted
<1> HIDE DEF h, one
<1>3. ASSUME Taken
      PROVE  Owned' = o \o one /\ Local' = l
  <2>1. Owned' = inflight \o Append(queue, h)
    BY <1>1, <1>3 DEF Owned, Taken, h
  <2>2. inflight \o Append(queue, h) = (inflight \o queue) \o one
    <3>1. inflight \in Seq(Writes) /\ queue \in Seq(Writes) /\ h \in Writes
      BY <1>1, Holdings
    <3> QED BY <3>1, JoinedAppended DEF one
  <2>3. (inflight \o queue) \o one = o \o one
    BY DEF Owned
  <2>4. Local' = l
    BY <1>2, <1>3 DEF Taken, Local
  <2> HIDE DEF o, l
  <2> QED BY <2>1, <2>2, <2>3, <2>4
<1>4. ASSUME Kept
      PROVE  Owned' = o /\ Local' = l \o one
  <2>1. Local' = Submitted \o Append(saveQueue, h)
    BY <1>2, <1>4 DEF Local, Kept, h
  <2>2. Submitted \o Append(saveQueue, h) = (Submitted \o saveQueue) \o one
    <3>1. Submitted \in Seq(Writes) /\ saveQueue \in Seq(Writes) /\ h \in Writes
      BY <1>1, Holdings
    <3> QED BY <3>1, JoinedAppended DEF one
  <2>3. (Submitted \o saveQueue) \o one = l \o one
    BY DEF Local
  <2>4. Owned' = o
    BY <1>1, <1>4 DEF Kept, Owned
  <2> HIDE DEF o, l
  <2> QED BY <2>1, <2>2, <2>3, <2>4
<1>5. AtOnce => Owned' = o /\ Local' = l
  BY <1>1, <1>2 DEF AtOnce, Owned, Local
<1> HIDE DEF o, l
<1>6. (Taken => Owned' = o \o one /\ Local' = l) /\ (Kept => Owned' = o /\ Local' = l \o one)
  BY <1>3, <1>4
<1> QED BY <1>5, <1>6 DEF h, one, o, l

\* A write is handed over.
LEMMA HandOverKeeps ==
    ASSUME OutletAssumption, Types, Ownership, NEW forceSync \in BOOLEAN,
           HandOver(forceSync)
    PROVE  Ownership'
<1> DEFINE h == handed'
           one == <<h>>
<1>1. /\ h = handed + 1 /\ h \in Writes /\ h \in Nat
      /\ UNCHANGED <<inflight, executing, unloaded, done>>
      /\ Taken \/ Kept \/ AtOnce
  <2>1. Writes \subseteq Nat
    BY DEF Writes
  <2> QED BY <2>1, HandingOver DEF Types, adminVars, daemonVars
<1>2. one \in Seq(Writes) /\ ToSet(one) = {h} /\ Ascending(one)
  BY <1>1, ElementsOfFew
<1>3. \A x \in 1 .. handed : x < h /\ x \in 1 .. h
  BY <1>1, Holdings
<1>4. h \in 1 .. h /\ h \notin 1 .. handed
  BY <1>1, Holdings
<1> DEFINE o == Owned
           l == Local
<1>6. /\ Ascending(o) /\ ToSet(o) \subseteq remote
      /\ Ascending(l) /\ ToSet(l) \subseteq (1 .. handed) \ remote
      /\ remote \subseteq 1 .. handed
      /\ o \in Seq(Writes) /\ l \in Seq(Writes)
      /\ o \in Seq(Nat) /\ l \in Seq(Nat) /\ one \in Seq(Nat)
  <2>1. o \in Seq(Writes) /\ l \in Seq(Writes)
    BY Holdings
  <2> QED BY <1>2, <2>1, Numbers DEF Ownership, Numbered
<1>7. /\ \A i \in 1 .. Len(executing) :
            executing[i].ran => executing[i].write \in ToSet(applied) \cup dropped
      /\ done \subseteq ToSet(applied)
      /\ 1 .. handed \subseteq ToSet(o) \cup ToSet(l) \cup ToSet(applied) \cup dropped
      /\ dropped \subseteq 1 .. handed
      /\ dropped \cap remote # {} => unloaded
  BY DEF Ownership, Ended
<1>8. 1 .. h \subseteq 1 .. handed \cup {h}
  BY <1>1, Holdings
<1> HIDE DEF h, one
<1>9. CASE Taken
  <2>1. Owned' = o \o one /\ Local' = l /\ remote' = remote \cup {h}
        /\ UNCHANGED <<applied, dropped>>
    BY <1>9, HandOverMoves DEF Taken, h, one
  <2> HIDE DEF o, l
  <2>2. executing = <<>>
    BY <1>9 DEF Taken, HasLocalWork
  <2>3. BarrierHolds'
    BY <1>1, <2>2 DEF BarrierHolds
  <2>4. ToSet(o \o one) = ToSet(o) \cup {h} /\ Ascending(o \o one)
    <3>1. ToSet(o \o one) = ToSet(o) \cup {h}
      BY <1>2, <1>6, Joined
    <3>2. \A x \in ToSet(o), y \in ToSet(one) : x < y
      BY <1>2, <1>3, <1>6
    <3> QED BY <1>2, <1>6, <3>1, <3>2, JoinedAscending
  <2>5. Numbered'
    <3>1. ToSet(l) \subseteq (1 .. h) \ (remote \cup {h}) /\ remote \cup {h} \subseteq 1 .. h
      BY <1>3, <1>4, <1>6
    <3> QED BY <1>6, <2>1, <2>4, <3>1 DEF Numbered, h
  <2>6. Ended'
    <3>1. 1 .. h \subseteq (ToSet(o) \cup {h}) \cup ToSet(l) \cup ToSet(applied) \cup dropped
      BY <1>7, <1>8
    <3>2. dropped \cap (remote \cup {h}) # {} => unloaded
      <4>1. h \notin dropped
        BY <1>4, <1>7
      <4> QED BY <1>7, <4>1
    <3>3. dropped \subseteq 1 .. h
      BY <1>3, <1>7
    <3> QED BY <1>1, <1>7, <2>1, <2>4, <3>1, <3>2, <3>3 DEF Ended, h
  <2> QED BY <2>3, <2>5, <2>6 DEF Ownership
<1>10. CASE Kept
  <2>1. Owned' = o /\ Local' = l \o one /\ UNCHANGED <<applied, dropped, remote>>
    BY <1>10, HandOverMoves DEF Kept, h, one
  <2>2. BarrierHolds'
    BY <1>1, <1>10 DEF Ownership, BarrierHolds, HasPendingWrites, Kept
  <2> HIDE DEF o, l
  <2>3. ToSet(l \o one) = ToSet(l) \cup {h} /\ Ascending(l \o one)
    <3>1. ToSet(l \o one) = ToSet(l) \cup {h}
      BY <1>2, <1>6, Joined
    <3>2. \A x \in ToSet(l), y \in ToSet(one) : x < y
      BY <1>2, <1>3, <1>6
    <3> QED BY <1>2, <1>6, <3>1, <3>2, JoinedAscending
  <2>4. Numbered'
    <3>1. ToSet(l) \cup {h} \subseteq (1 .. h) \ remote /\ remote \subseteq 1 .. h
      BY <1>3, <1>4, <1>6
    <3> QED BY <1>6, <2>1, <2>3, <3>1 DEF Numbered, h
  <2>5. Ended'
    <3>1. 1 .. h \subseteq ToSet(o) \cup (ToSet(l) \cup {h}) \cup ToSet(applied) \cup dropped
      BY <1>7, <1>8
    <3>2. dropped \subseteq 1 .. h
      BY <1>3, <1>7
    <3> QED BY <1>1, <1>7, <2>1, <2>3, <3>1, <3>2 DEF Ended, h
  <2> QED BY <2>2, <2>4, <2>5 DEF Ownership
<1>11. CASE AtOnce
  <2>1. Owned' = o /\ Local' = l
    BY <1>11, HandOverMoves
  <2>2. PICK ok \in SUBSET {h} : ExecuteSync(one, ok)
    BY <1>11 DEF AtOnce, h, one
  <2>3. PICK ran \in Seq(Writes) :
          /\ applied' = applied \o ran /\ ToSet(ran) = ok \ ToSet(applied)
          /\ remote' = remote /\ dropped' = dropped \cup (({h} \ ToSet(applied)) \ ok)
    BY <1>2, <2>2, Synchronous DEF Types
  <2>4. ToSet(applied') = ToSet(applied) \cup (ok \ ToSet(applied))
    BY <2>3, Joined DEF Types, HistoryTyped
  <2>5. /\ ToSet(applied) \cup dropped \cup {h} \subseteq ToSet(applied') \cup dropped'
        /\ ToSet(applied) \subseteq ToSet(applied') /\ dropped' \subseteq dropped \cup {h}
    BY <2>2, <2>3, <2>4
  <2>6. BarrierHolds'
    BY <1>1, <1>11 DEF Ownership, BarrierHolds, HasPendingWrites, AtOnce
  <2> HIDE DEF o, l
  <2>7. Numbered'
    <3>1. ToSet(l) \subseteq (1 .. h) \ remote /\ remote \subseteq 1 .. h
      BY <1>3, <1>6
    <3> QED BY <1>6, <2>1, <2>3, <3>1 DEF Numbered, h
  <2>8. Ended'
    <3>1. 1 .. h \subseteq ToSet(o) \cup ToSet(l) \cup ToSet(applied') \cup dropped'
      BY <1>7, <1>8, <2>5
    <3>2. dropped' \subseteq 1 .. h
      BY <1>3, <1>4, <1>7, <2>5
    <3>3. dropped' \cap remote # {} => unloaded
      BY <1>4, <1>6, <1>7, <2>5
    <3>4. \A i \in 1 .. Len(executing) :
             executing[i].ran => executing[i].write \in ToSet(applied') \cup dropped'
      BY <1>7, <2>5
    <3>5. done \subseteq ToSet(applied')
      BY <1>7, <2>5
    <3> QED BY <1>1, <2>1, <2>3, <3>1, <3>2, <3>3, <3>4, <3>5 DEF Ended, h
  <2> QED BY <2>6, <2>7, <2>8 DEF Ownership
<1> QED BY <1>1, <1>9, <1>10, <1>11

\* Local writes go to the database thread.
LEMMA PumpKeeps ==
    ASSUME OutletAssumption, Types, Ownership, PumpSaveQueue,
           UNCHANGED <<handed, outletVars, unloaded, done, history>>
    PROVE  Ownership'
<1>1. /\ HasPendingWrites => executing' = executing
      /\ Local' = Local
      /\ \A i \in 1 .. Len(executing') :
            executing'[i].ran => i \in 1 .. Len(executing) /\ executing'[i] = executing[i]
  BY Pumping DEF Types
<1>2. Owned' = Owned /\ UNCHANGED <<queue, inflight>>
  BY DEF Owned, outletVars
<1>3. UNCHANGED <<handed, unloaded, done, applied, dropped, remote>>
  BY DEF history
<1>4. BarrierHolds'
  BY <1>1, <1>2 DEF Ownership, BarrierHolds, HasPendingWrites
<1> DEFINE o == Owned
           l == Local
<1>5. /\ Ascending(o) /\ ToSet(o) \subseteq remote
      /\ Ascending(l) /\ ToSet(l) \subseteq (1 .. handed) \ remote
      /\ remote \subseteq 1 .. handed /\ Owned' = o /\ Local' = l
  BY <1>1, <1>2 DEF Ownership, Numbered
<1>6. 1 .. handed \subseteq ToSet(o) \cup ToSet(l) \cup ToSet(applied) \cup dropped
  BY DEF Ownership, Ended
<1> HIDE DEF o, l
<1>7. Numbered'
  BY <1>3, <1>5 DEF Numbered
<1>8. Ended'
  <2>1. \A i \in 1 .. Len(executing') :
           executing'[i].ran => executing'[i].write \in ToSet(applied) \cup dropped
    BY <1>1 DEF Ownership, Ended
  <2> QED BY <1>3, <1>5, <1>6, <2>1 DEF Ownership, Ended
<1> QED BY <1>4, <1>7, <1>8 DEF Ownership

\* A query that has run leaves the database thread.
LEMMA CallbackKeeps ==
    ASSUME OutletAssumption, Types, Ownership, SaveCallback
    PROVE  /\ Ownership'
           /\ Local = <<executing[1].write>> \o Local' /\ Local' \in Seq(Writes)
<1> DEFINE w == executing[1].write
           one == <<w>>
           k == Local'
           o == Owned
           l == Local
<1>1. /\ executing # <<>> /\ executing[1].ran
      /\ Len(executing') = Len(executing) - 1 /\ Len(executing) \in Nat
      /\ \A i \in 1 .. Len(executing') :
            i + 1 \in 1 .. Len(executing) /\ executing'[i] = executing[i + 1]
      /\ Submitted' \in Seq(Writes) /\ Submitted = one \o Submitted'
      /\ w \in Writes
  BY CallingBack DEF Types
<1>2. /\ UNCHANGED <<handed, queue, inflight, unloaded, done, saveQueue>>
      /\ UNCHANGED <<applied, dropped, remote>>
  BY DEF SaveCallback, outletVars, adminVars, daemonVars, history
<1>3. l = one \o k /\ k \in Seq(Writes)
  <2> DEFINE t == Submitted'
  <2>1. Local' = t \o saveQueue /\ Local = (one \o t) \o saveQueue
    BY <1>1, <1>2 DEF Local
  <2>2. t \in Seq(Writes) /\ saveQueue \in Seq(Writes) /\ one \in Seq(Writes)
    BY <1>1, Holdings
  <2> HIDE DEF t, one
  <2>3. (one \o t) \o saveQueue = one \o (t \o saveQueue)
    BY <2>2, ConcatAssociative
  <2>4. t \o saveQueue \in Seq(Writes)
    BY <2>2, ConcatProperties
  <2> QED BY <2>1, <2>3, <2>4
<1>4. one \in Seq(Writes) /\ ToSet(one) = {w}
  BY <1>1, ElementsOfFew
<1>5. executing = <<>> \/ ~HasPendingWrites
  BY DEF Ownership, BarrierHolds
<1>6. BarrierHolds'
  BY <1>1, <1>2, <1>5 DEF BarrierHolds, HasPendingWrites
<1>7. w \in ToSet(applied) \cup dropped
  <2>1. 1 \in 1 .. Len(executing)
    BY <1>1, EmptySeq DEF Types, LocalTyped
  <2> QED BY <1>1, <2>1 DEF Ownership, Ended
<1>8. /\ Ascending(o) /\ ToSet(o) \subseteq remote
      /\ Ascending(l) /\ ToSet(l) \subseteq (1 .. handed) \ remote
      /\ remote \subseteq 1 .. handed
      /\ 1 .. handed \subseteq ToSet(o) \cup ToSet(l) \cup ToSet(applied) \cup dropped
      /\ Owned' = o
  BY <1>2 DEF Ownership, Numbered, Ended, Owned
<1>9. \A i \in 1 .. Len(executing') :
         executing'[i].ran => executing'[i].write \in ToSet(applied) \cup dropped
  BY <1>1 DEF Ownership, Ended
<1> HIDE DEF w, one, k, o, l
<1>10. ToSet(l) = {w} \cup ToSet(k) /\ Ascending(k)
  <2>1. ToSet(l) = {w} \cup ToSet(k)
    BY <1>3, <1>4, Joined
  <2>2. one \in Seq(Nat) /\ k \in Seq(Nat)
    BY <1>3, <1>4, Numbers
  <2> QED BY <1>3, <1>8, <2>1, <2>2, JoinedAscending
<1>11. Numbered'
  <2>1. Ascending(k) /\ ToSet(k) \subseteq (1 .. handed) \ remote
    BY <1>8, <1>10
  <2> QED BY <1>2, <1>8, <2>1 DEF Numbered, k
<1>12. Ended'
  <2>1. 1 .. handed \subseteq ToSet(o) \cup ToSet(k) \cup ToSet(applied) \cup dropped
    BY <1>7, <1>8, <1>10
  <2> QED BY <1>2, <1>8, <1>9, <2>1 DEF Ownership, Ended, k
<1> QED BY <1>3, <1>6, <1>11, <1>12 DEF Ownership, w, one, k, l

\* A query runs.
LEMMA RunKeeps ==
    ASSUME OutletAssumption, Types, Ownership, NEW ok \in BOOLEAN, RunAsync(ok)
    PROVE  Ownership'
<1> DEFINE o == Owned
           l == Local
<1>1. UNCHANGED <<handed, queue, inflight, unloaded, saveQueue, done, remote>>
  BY DEF RunAsync, outletVars, adminVars, daemonVars
<1>2. PICK i \in 1 .. Len(executing) :
        /\ executing[i].write \in Writes
        /\ \A j \in 1 .. Len(executing) :
              executing'[j].ran <=> (executing[j].ran \/ j = i)
        /\ IF ok THEN /\ applied' = applied \o <<executing[i].write>>
                      /\ dropped' = dropped
                 ELSE /\ applied' = applied
                      /\ dropped' = dropped \cup {executing[i].write}
  BY Running DEF Types
<1>3. /\ Submitted' = Submitted /\ Len(executing') = Len(executing)
      /\ \A j \in 1 .. Len(executing) : executing'[j].write = executing[j].write
  BY Running DEF Types
<1> DEFINE w == executing[i].write
<1>4. Owned' = o /\ Local' = l /\ (HasPendingWrites' <=> HasPendingWrites)
  BY <1>1, <1>3 DEF Owned, Local, HasPendingWrites
<1>5. w \in ToSet(l)
  <2>1. Submitted[i] = w /\ i \in 1 .. Len(Submitted) /\ Submitted \in Seq(Writes)
    BY Holdings
  <2>2. w \in ToSet(Submitted)
    BY <2>1, Elements
  <2> QED BY <2>2, Holdings
<1>6. /\ ToSet(applied') \cup dropped' = ToSet(applied) \cup dropped \cup {w}
      /\ ToSet(applied) \subseteq ToSet(applied') /\ dropped' \subseteq dropped \cup {w}
  <2>1. ToSet(applied \o <<w>>) = ToSet(applied) \cup {w}
    <3>1. w \in Writes /\ applied \in Seq(Writes)
      BY <1>2 DEF Types, HistoryTyped
    <3> HIDE DEF w
    <3> DEFINE one == <<w>>
    <3>2. one \in Seq(Writes) /\ ToSet(one) = {w}
      BY <3>1, ElementsOfFew
    <3> HIDE DEF one
    <3>3. ToSet(applied \o one) = ToSet(applied) \cup ToSet(one)
      BY <3>1, <3>2, Joined
    <3> QED BY <3>2, <3>3 DEF one
  <2> QED BY <1>2, <2>1
<1>7. BarrierHolds'
  <2>1. ~HasPendingWrites
    <3>1. executing # <<>>
      BY <1>2, EmptySeq
    <3> QED BY <3>1 DEF Ownership, BarrierHolds
  <2> QED BY <1>4, <2>1 DEF BarrierHolds
<1>8. /\ Ascending(o) /\ ToSet(o) \subseteq remote
      /\ Ascending(l) /\ ToSet(l) \subseteq (1 .. handed) \ remote
      /\ remote \subseteq 1 .. handed
      /\ 1 .. handed \subseteq ToSet(o) \cup ToSet(l) \cup ToSet(applied) \cup dropped
      /\ done \subseteq ToSet(applied) /\ dropped \subseteq 1 .. handed
      /\ dropped \cap remote # {} => unloaded
      /\ \A j \in 1 .. Len(executing) :
            executing[j].ran => executing[j].write \in ToSet(applied) \cup dropped
  BY DEF Ownership, Numbered, Ended
<1>9. \A j \in 1 .. Len(executing') :
         executing'[j].ran => executing'[j].write \in ToSet(applied') \cup dropped'
  BY <1>2, <1>3, <1>6, <1>8
<1> HIDE DEF o, l, w
<1>10. Numbered'
  BY <1>1, <1>4, <1>8 DEF Numbered
<1>11. Ended'
  <2>1. 1 .. handed \subseteq ToSet(o) \cup ToSet(l) \cup ToSet(applied') \cup dropped'
    BY <1>6, <1>8
  <2>2. done \subseteq ToSet(applied') /\ dropped' \subseteq 1 .. handed
    BY <1>5, <1>6, <1>8
  <2>3. dropped' \cap remote # {} => unloaded
    BY <1>5, <1>6, <1>8
  <2> QED BY <1>1, <1>4, <1>9, <2>1, <2>2, <2>3 DEF Ended
<1> QED BY <1>7, <1>10, <1>11 DEF Ownership

\* Writes ws that had an owner are executed on the synchronous connection, and
\* each of them ends.
LEMMA EndedAtOnce ==
    ASSUME OutletAssumption, Types, Ownership, NEW ws \in Seq(Writes),
           NEW ok \in SUBSET ToSet(ws), ExecuteSync(ws, ok)
    PROVE  /\ ToSet(applied') \cup dropped' = ToSet(applied) \cup dropped \cup ToSet(ws)
           /\ ToSet(applied) \subseteq ToSet(applied')
           /\ dropped \subseteq dropped' /\ dropped' \subseteq dropped \cup ToSet(ws)
           /\ remote' = remote
<1>1. PICK ran \in Seq(Writes) :
        /\ applied' = applied \o ran /\ ToSet(ran) = ok \ ToSet(applied)
        /\ remote' = remote /\ dropped' = dropped \cup ((ToSet(ws) \ ToSet(applied)) \ ok)
  BY Synchronous DEF Types
<1>2. ToSet(applied') = ToSet(applied) \cup (ok \ ToSet(applied))
  BY <1>1, Joined DEF Types, HistoryTyped
<1> QED BY <1>1, <1>2

\* The flush of the local queue at map end.
LEMMA MapEndKeeps ==
    ASSUME OutletAssumption, Types, Ownership, MapEnd
    PROVE  Ownership' /\ Local' = Submitted
<1> DEFINE o == Owned
           l == Local
           sub == Submitted
           q == saveQueue
<1>1. /\ saveQueue' = <<>> /\ ~HasPendingWrites
      /\ UNCHANGED <<handed, queue, inflight, unloaded, executing, done>>
  BY Emptying DEF outletVars, adminVars, daemonVars
<1>2. PICK ok \in SUBSET ToSet(q) : ExecuteSync(q, ok)
  BY Emptying
<1>3. /\ ToSet(applied') \cup dropped' = ToSet(applied) \cup dropped \cup ToSet(q)
      /\ ToSet(applied) \subseteq ToSet(applied')
      /\ dropped' \subseteq dropped \cup ToSet(q) /\ remote' = remote
  BY <1>2, EndedAtOnce, Holdings
<1>4. Owned' = o /\ Local' = sub /\ BarrierHolds'
  <2>1. Submitted' = Submitted
    BY <1>1 DEF Submitted
  <2>2. Submitted \o <<>> = Submitted
    BY Holdings, ConcatEmptySeq
  <2> QED BY <1>1, <2>1, <2>2 DEF Owned, Local, BarrierHolds, HasPendingWrites
<1>5. /\ Ascending(o) /\ ToSet(o) \subseteq remote
      /\ Ascending(l) /\ ToSet(l) \subseteq (1 .. handed) \ remote
      /\ remote \subseteq 1 .. handed
      /\ 1 .. handed \subseteq ToSet(o) \cup ToSet(l) \cup ToSet(applied) \cup dropped
      /\ done \subseteq ToSet(applied) /\ dropped \subseteq 1 .. handed
      /\ dropped \cap remote # {} => unloaded
      /\ \A j \in 1 .. Len(executing) :
            executing[j].ran => executing[j].write \in ToSet(applied) \cup dropped
  BY DEF Ownership, Numbered, Ended
<1>6. ToSet(l) = ToSet(sub) \cup ToSet(q) /\ Ascending(sub)
  <2>1. l = sub \o q /\ ToSet(l) = ToSet(sub) \cup ToSet(q)
    BY Holdings DEF Local
  <2>2. sub \in Seq(Nat) /\ q \in Seq(Nat)
    BY Holdings, Numbers
  <2> HIDE DEF sub, q, l
  <2> QED BY <1>5, <2>1, <2>2, JoinedAscending
<1>7. \A j \in 1 .. Len(executing') :
         executing'[j].ran => executing'[j].write \in ToSet(applied') \cup dropped'
  BY <1>1, <1>3, <1>5
<1> HIDE DEF o, l, sub, q
<1>8. Numbered'
  <2>1. ToSet(sub) \subseteq (1 .. handed) \ remote
    BY <1>5, <1>6
  <2> QED BY <1>1, <1>3, <1>4, <1>5, <1>6, <2>1 DEF Numbered
<1>9. Ended'
  <2>1. 1 .. handed \subseteq ToSet(o) \cup ToSet(sub) \cup ToSet(applied') \cup dropped'
    BY <1>3, <1>5, <1>6
  <2>2. done \subseteq ToSet(applied') /\ dropped' \subseteq 1 .. handed
    BY <1>3, <1>5, <1>6
  <2>3. dropped' \cap remote # {} => unloaded
    BY <1>3, <1>5, <1>6
  <2> QED BY <1>1, <1>3, <1>4, <1>7, <2>1, <2>2, <2>3 DEF Ended
<1> QED BY <1>4, <1>8, <1>9 DEF Ownership, sub

\* A batch is sent.
LEMMA FlushKeeps ==
    ASSUME OutletAssumption, Types, Ownership, FlushSqlBatch
    PROVE  Ownership' /\ Owned' = Owned /\ Local' = Local
<1> DEFINE o == Owned
           l == Local
<1>1. Owned' = o /\ inflight' # <<>>
  BY Flushing DEF Types, Owned
<1>2. /\ UNCHANGED <<handed, unloaded, saveQueue, executing, done, applied, dropped, remote>>
      /\ HasPendingWrites
  <2>1. queue # <<>>
    <3>1. PICK n \in 1 .. Len(queue) : inflight' = SubSeq(queue, 1, n)
      BY Flushing DEF Types
    <3> QED BY <3>1, EmptySeq
  <2> QED BY <2>1 DEF FlushSqlBatch, HasPendingWrites, adminVars, localVars, history
<1>3. Local' = l
  BY <1>2 DEF Local, Submitted
<1>4. BarrierHolds'
  BY <1>2 DEF Ownership, BarrierHolds
<1>5. /\ Ascending(o) /\ ToSet(o) \subseteq remote
      /\ Ascending(l) /\ ToSet(l) \subseteq (1 .. handed) \ remote
      /\ remote \subseteq 1 .. handed
      /\ 1 .. handed \subseteq ToSet(o) \cup ToSet(l) \cup ToSet(applied) \cup dropped
  BY DEF Ownership, Numbered, Ended
<1>6. \A j \in 1 .. Len(executing') :
         executing'[j].ran => executing'[j].write \in ToSet(applied') \cup dropped'
  BY <1>2 DEF Ownership, Ended
<1> HIDE DEF o, l
<1>7. Numbered'
  BY <1>1, <1>2, <1>3, <1>5 DEF Numbered
<1>8. Ended'
  BY <1>1, <1>2, <1>3, <1>5, <1>6 DEF Ownership, Ended
<1> QED BY <1>1, <1>3, <1>4, <1>7, <1>8 DEF Ownership, o, l

\* The ACK of the batch in flight ends it.
LEMMA AcknowledgedKeeps ==
    ASSUME OutletAssumption, Types, Ownership, Matched,
           NEW s \in Sockets, SocketCallback(s),
           queue' = queue, inflight' = <<>>, batch' = NoBatch, batch # NoBatch,
           \E m \in Acks : m.id = batch
    PROVE  Ownership' /\ Owned' = queue /\ Local' = Local /\ ToSet(inflight) \subseteq done
<1> DEFINE o == Owned
           l == Local
           f == inflight
           q == queue
<1>1. UNCHANGED <<handed, unloaded, done, applied, dropped, remote, saveQueue, executing>>
  BY CallbackSteps DEF history
<1>2. ToSet(f) \subseteq done
  BY DEF Matched
<1>3. Owned' = q /\ Local' = l
  <2>1. <<>> \o queue = queue
    BY Holdings, ConcatEmptySeq
  <2> QED BY <1>1, <2>1 DEF Owned, Local, Submitted
<1>4. BarrierHolds'
  <2>1. inflight # <<>>
    BY DEF Types, OutletTyped
  <2> QED BY <1>1, <2>1 DEF Ownership, BarrierHolds, HasPendingWrites
<1>5. /\ Ascending(o) /\ ToSet(o) \subseteq remote
      /\ Ascending(l) /\ ToSet(l) \subseteq (1 .. handed) \ remote
      /\ remote \subseteq 1 .. handed /\ done \subseteq ToSet(applied)
      /\ 1 .. handed \subseteq ToSet(o) \cup ToSet(l) \cup ToSet(applied) \cup dropped
  BY DEF Ownership, Numbered, Ended
<1>6. o = f \o q /\ f \in Seq(Writes) /\ q \in Seq(Writes) /\ ToSet(o) = ToSet(f) \cup ToSet(q)
  BY Holdings DEF Owned
<1>7. \A j \in 1 .. Len(executing') :
         executing'[j].ran => executing'[j].write \in ToSet(applied') \cup dropped'
  BY <1>1 DEF Ownership, Ended
<1> HIDE DEF o, l, f, q
<1>8. Ascending(q)
  <2>1. f \in Seq(Nat) /\ q \in Seq(Nat)
    BY <1>6, Numbers
  <2> QED BY <1>5, <1>6, <2>1, JoinedAscending
<1>9. Numbered'
  <2>1. ToSet(q) \subseteq remote
    BY <1>5, <1>6
  <2> QED BY <1>1, <1>3, <1>5, <1>8, <2>1 DEF Numbered
<1>10. Ended'
  <2>1. 1 .. handed \subseteq ToSet(q) \cup ToSet(l) \cup ToSet(applied) \cup dropped
    BY <1>2, <1>5, <1>6
  <2> QED BY <1>1, <1>3, <1>7, <2>1 DEF Ownership, Ended
<1> QED BY <1>2, <1>3, <1>4, <1>9, <1>10 DEF Ownership, f, q, l

\* Unloading executes or reports whatever the plugin owns.
LEMMA UnloadKeeps ==
    ASSUME OutletAssumption, Types, Ownership, PluginEnd
    PROVE  Ownership'
<1> DEFINE o == Owned
           l == Local
           sub == Submitted
           q == saveQueue
           all == Owned \o saveQueue
<1>1. /\ queue' = <<>> /\ inflight' = <<>> /\ saveQueue' = <<>> /\ unloaded' = TRUE
      /\ UNCHANGED <<handed, executing, done>>
      /\ all \in Seq(Writes) /\ ToSet(all) = ToSet(o) \cup ToSet(q)
  BY Unloading DEF daemonVars
<1>2. PICK ok \in SUBSET ToSet(all) : ExecuteSync(all, ok)
  BY Unloading
<1>3. /\ Owned' = <<>> /\ ToSet(<<>>) = {} /\ Ascending(<<>>)
      /\ Local' = sub /\ BarrierHolds'
  <2>1. Submitted' = Submitted
    BY <1>1 DEF Submitted
  <2>2. Submitted \o <<>> = Submitted
    BY Holdings, ConcatEmptySeq
  <2>3. <<>> \o <<>> = <<>>
    BY EmptySeq, ConcatEmptySeq
  <2> QED BY <1>1, <2>1, <2>2, <2>3, ElementsOfFew
          DEF Owned, Local, BarrierHolds, HasPendingWrites
<1>4. /\ Ascending(l)
      /\ ToSet(o) \subseteq remote /\ ToSet(l) \subseteq (1 .. handed) \ remote
      /\ remote \subseteq 1 .. handed
      /\ 1 .. handed \subseteq ToSet(o) \cup ToSet(l) \cup ToSet(applied) \cup dropped
      /\ done \subseteq ToSet(applied) /\ dropped \subseteq 1 .. handed
      /\ \A j \in 1 .. Len(executing) :
            executing[j].ran => executing[j].write \in ToSet(applied) \cup dropped
  BY DEF Ownership, Numbered, Ended
<1>5. ToSet(l) = ToSet(sub) \cup ToSet(q) /\ Ascending(sub)
  <2>1. l = sub \o q /\ ToSet(l) = ToSet(sub) \cup ToSet(q)
    BY Holdings DEF Local
  <2>2. sub \in Seq(Nat) /\ q \in Seq(Nat)
    BY Holdings, Numbers
  <2> HIDE DEF sub, q, l
  <2> QED BY <1>4, <2>1, <2>2, JoinedAscending
<1> HIDE DEF o, l, sub, q, all
<1>6. /\ ToSet(applied') \cup dropped' = ToSet(applied) \cup dropped \cup ToSet(all)
      /\ ToSet(applied) \subseteq ToSet(applied')
      /\ dropped' \subseteq dropped \cup ToSet(all) /\ remote' = remote
  BY <1>1, <1>2, EndedAtOnce
<1>7. \A j \in 1 .. Len(executing') :
         executing'[j].ran => executing'[j].write \in ToSet(applied') \cup dropped'
  BY <1>1, <1>4, <1>6
<1>8. Numbered'
  <2>1. ToSet(sub) \subseteq (1 .. handed) \ remote
    BY <1>4, <1>5
  <2> QED BY <1>1, <1>3, <1>4, <1>5, <1>6, <2>1 DEF Numbered
<1>9. Ended'
  <2>1. 1 .. handed \subseteq {} \cup ToSet(sub) \cup ToSet(applied') \cup dropped'
    BY <1>1, <1>4, <1>5, <1>6
  <2>2. done \subseteq ToSet(applied') /\ dropped' \subseteq 1 .. handed
    BY <1>1, <1>4, <1>5, <1>6
  <2> QED BY <1>1, <1>3, <1>6, <1>7, <2>1, <2>2 DEF Ended
<1> QED BY <1>3, <1>8, <1>9 DEF Ownership

\* The daemon executes a write.
LEMMA ExecuteKeeps ==
    ASSUME OutletAssumption, Types, Ownership, DaemonExecutes
    PROVE  Ownership' /\ Owned' = Owned /\ Local' = Local
<1> DEFINE o == Owned
           l == Local
<1>1. UNCHANGED <<handed, queue, inflight, unloaded, saveQueue, executing, dropped, remote>>
  BY DEF DaemonExecutes, far, outletVars, adminVars, localVars
<1>2. PICK w \in Writes :
        /\ done' = done \cup {w}
        /\ \E ran \in Seq(Writes) :
              applied' = applied \o ran /\ ToSet(ran) = {w} \ ToSet(applied)
  <2>1. RestTyped /\ HistoryTyped
    BY DEF Types
  <2> QED BY <2>1, Executing
<1>3. ToSet(applied') = ToSet(applied) \cup {w}
  BY <1>2, Joined DEF Types, HistoryTyped
<1>4. Owned' = o /\ Local' = l /\ BarrierHolds'
  BY <1>1 DEF Owned, Local, Submitted, Ownership, BarrierHolds, HasPendingWrites
<1>5. /\ Ascending(o) /\ ToSet(o) \subseteq remote
      /\ Ascending(l) /\ ToSet(l) \subseteq (1 .. handed) \ remote
      /\ remote \subseteq 1 .. handed
      /\ 1 .. handed \subseteq ToSet(o) \cup ToSet(l) \cup ToSet(applied) \cup dropped
      /\ done \subseteq ToSet(applied) /\ dropped \subseteq 1 .. handed
      /\ dropped \cap remote # {} => unloaded
      /\ \A j \in 1 .. Len(executing) :
            executing[j].ran => executing[j].write \in ToSet(applied) \cup dropped
  BY DEF Ownership, Numbered, Ended
<1> HIDE DEF o, l
<1>6. Numbered'
  BY <1>1, <1>4, <1>5 DEF Numbered
<1>7. Ended'
  <2>1. 1 .. handed \subseteq ToSet(o) \cup ToSet(l) \cup ToSet(applied') \cup dropped
    BY <1>3, <1>5
  <2>2. done' \subseteq ToSet(applied')
    BY <1>2, <1>3, <1>5
  <2>3. \A j \in 1 .. Len(executing) :
            executing[j].ran => executing[j].write \in ToSet(applied') \cup dropped
    BY <1>3, <1>5
  <2> QED BY <1>1, <1>4, <1>5, <2>1, <2>2, <2>3 DEF Ended
<1> QED BY <1>4, <1>6, <1>7 DEF Ownership, o, l

\* Ids tell the batches under way apart, and the daemon never forgets what it has
\* executed, so that an ACK for the batch in flight is one for its writes.
LEMMA MatchedKept ==
    ASSUME OutletAssumption, Types, Matched, Next
    PROVE  Matched'
<1>1. CASE FlushSqlBatch
  <2> DEFINE sent == Batch(batch', inflight')
  <2>1. /\ Under' \subseteq Under \cup {sent} /\ Acks' \subseteq Acks
        /\ \A m \in Under \cup Acks : m.id # batch'
    BY <1>1, BatchSent
  <2>2. sent.writes = inflight'
    BY DEF Batch
  <2> HIDE DEF sent
  <2> QED BY <2>1, <2>2 DEF Matched
<1>2. ASSUME batch' = NoBatch \/ UNCHANGED <<batch, inflight>>, done \subseteq done',
             ChannelsQuiet
      PROVE  Matched'
  BY <1>2 DEF Matched, ChannelsQuiet
<1>3. ASSUME NEW s \in Sockets, AnswerBatch(s)
      PROVE  Matched'
  <2> DEFINE c == [chan[s] EXCEPT !.served = "idle", !.job = Hello,
                                  !.down = Append(@, Reply("ack", chan[s].job.id))]
             b == chan[s].job
             ack == Reply("ack", chan[s].job.id)
  <2>1. /\ chan' = [chan EXCEPT ![s] = c] /\ chan[s].served = "waiting" /\ Good(chan[s])
        /\ ToSet(b.writes) \subseteq done /\ UNCHANGED <<batch, inflight, done>>
    BY <1>3 DEF AnswerBatch, Types, ChannelsGood, far, outletVars
  <2>2. /\ b \in Carried(chan[s]) /\ Good(c) /\ Carried(c) \subseteq Carried(chan[s])
        /\ AcksOf(c) \subseteq AcksOf(chan[s]) \cup {ack} /\ ack.id = b.id
    BY <2>1, Answering
  <2> HIDE DEF c, b, ack
  <2>3. Under' \subseteq Under /\ Acks' \subseteq Acks \cup {ack} /\ b \in Under
    <3>1. Under' \subseteq Under \cup Carried(c) /\ Acks' \subseteq Acks \cup AcksOf(c)
      BY <2>1, <2>2, OneChannel DEF Types
    <3>2. Carried(chan[s]) \subseteq Under /\ AcksOf(chan[s]) \subseteq Acks
      BY DEF Under, Acks
    <3> QED BY <2>2, <3>1, <3>2
  <2> QED BY <2>1, <2>2, <2>3 DEF Matched
<1>4. CASE Plugin /\ ~FlushSqlBatch
  <2>1. ChannelsQuiet
    BY <1>4, PluginQuiet DEF Types
  <2>2. ASSUME NEW s \in Sockets, SocketCallback(s)
        PROVE  batch' = NoBatch \/ UNCHANGED <<batch, inflight>>
    BY <2>2, CallbackSteps
  <2>3. CASE \/ ConnectSocket \/ ReconnectTimer \/ Timeout \/ EndpointChanged
             \/ DrainCommand \/ DatabaseLost
    <3>1. UNCHANGED done /\ (batch' = NoBatch \/ UNCHANGED <<batch, inflight>>)
      BY <2>3, SessionSteps
    <3> QED BY <1>2, <2>1, <3>1
  <2>4. CASE \/ PumpTimer \/ SaveCallback \/ DatabaseReady \/ MapEnd \/ PluginEnd
             \/ \E forceSync \in BOOLEAN : HandOver(forceSync)
    <3>1. UNCHANGED done /\ (batch' = NoBatch \/ UNCHANGED <<batch, inflight>>)
      BY <2>4 DEF PumpTimer, SaveCallback, DatabaseReady, MapEnd, PluginEnd, HandOver,
                  outletVars, daemonVars
    <3> QED BY <1>2, <2>1, <3>1
  <2>5. CASE \E s \in Sockets : SocketCallback(s)
    <3>1. done' = done
      BY <2>5 DEF SocketCallback
    <3> QED BY <1>2, <2>1, <2>2, <2>5, <3>1
  <2> QED BY <1>4, <2>3, <2>4, <2>5 DEF Plugin
<1>5. CASE ExecuteAsync \/ ExecuteAsyncFails
  <2>1. ChannelsQuiet /\ UNCHANGED <<batch, inflight, done>>
    BY <1>5, NoneChanged
       DEF ExecuteAsync, ExecuteAsyncFails, RunAsync, daemonVars, outletVars, Types
  <2> QED BY <1>2, <2>1
<1>6. CASE Daemon /\ ~\E s \in Sockets : AnswerBatch(s)
  <2>1. ChannelsQuiet
    BY <1>6, DaemonQuiet DEF Types
  <2>2. UNCHANGED <<batch, inflight>> /\ done \subseteq done'
    BY <1>6, DaemonSteps DEF DaemonExecutes, outletVars
  <2> QED BY <1>2, <2>1, <2>2
<1> QED BY <1>1, <1>3, <1>4, <1>5, <1>6 DEF Next

IInv == Types /\ Ownership /\ Matched

LEMMA OwnershipKept ==
    ASSUME OutletAssumption, IInv, Next
    PROVE  Ownership'
<1>1. ASSUME NEW forceSync \in BOOLEAN, HandOver(forceSync)
      PROVE  Ownership'
  BY <1>1, HandOverKeeps DEF IInv
<1>2. CASE PumpTimer \/ DatabaseReady
  <2>1. /\ UNCHANGED <<handed, outletVars, unloaded, done, history>>
        /\ PumpSaveQueue \/ UNCHANGED <<saveQueue, executing>>
    BY <1>2 DEF PumpTimer, DatabaseReady, adminVars, daemonVars
  <2>2. CASE UNCHANGED <<saveQueue, executing>>
    <3>1. SameWrites
      BY <2>1, <2>2 DEF SameWrites, outletVars, history
    <3> QED BY <3>1, SameWritesKept DEF IInv
  <2> QED BY <2>1, <2>2, PumpKeeps DEF IInv
<1>3. CASE SaveCallback
  BY <1>3, CallbackKeeps DEF IInv
<1>4. CASE MapEnd
  BY <1>4, MapEndKeeps DEF IInv
<1>5. CASE \/ ConnectSocket \/ ReconnectTimer \/ Timeout \/ EndpointChanged
           \/ DrainCommand \/ DatabaseLost
  BY <1>5, SessionSteps, SameWritesKept DEF IInv
<1>6. CASE FlushSqlBatch
  BY <1>6, FlushKeeps DEF IInv
<1>7. ASSUME NEW s \in Sockets, SocketCallback(s)
      PROVE  Ownership'
  BY <1>7, CallbackSteps, SameWritesKept, AcknowledgedKeeps DEF IInv
<1>8. CASE PluginEnd
  BY <1>8, UnloadKeeps DEF IInv
<1>9. CASE ExecuteAsync \/ ExecuteAsyncFails
  <2>1. PICK ok \in BOOLEAN : RunAsync(ok)
    BY <1>9 DEF ExecuteAsync, ExecuteAsyncFails
  <2> QED BY <2>1, RunKeeps DEF IInv
<1>10. CASE Daemon
  BY <1>10, DaemonSteps, ExecuteKeeps, SameWritesKept DEF IInv
<1> QED BY <1>1, <1>2, <1>3, <1>4, <1>5, <1>6, <1>7, <1>8, <1>9, <1>10 DEF Next, Plugin

LEMMA Inductive ==
    ASSUME OutletAssumption, IInv, [Next]_vars
    PROVE  IInv'
<1>1. Types'
  BY TypesKept DEF IInv
<1>2. CASE Next
  BY <1>1, <1>2, OwnershipKept, MatchedKept DEF IInv
<1>3. CASE UNCHANGED vars
  <2>1. SameWrites
    BY <1>3 DEF vars, SameWrites, outletVars, adminVars, localVars, daemonVars, history
  <2>2. Matched'
    BY <1>3 DEF IInv, Matched, Under, Acks, vars, outletVars, daemonVars
  <2> QED BY <1>1, <2>1, <2>2, SameWritesKept DEF IInv
<1> QED BY <1>2, <1>3

LEMMA Initially == Init => IInv
<1> SUFFICES ASSUME Init PROVE IInv
  OBVIOUS
<1>1. /\ handed = 0 /\ queue = <<>> /\ inflight = <<>> /\ batch = NoBatch
      /\ saveQueue = <<>> /\ executing = <<>> /\ applied = <<>>
      /\ done = {} /\ dropped = {} /\ remote = {}
  BY DEF Init
<1>2. Types
  BY TypesAtStart
<1>3. Owned = <<>> /\ Local = <<>> /\ ToSet(<<>>) = {} /\ Ascending(<<>>)
  <2>1. <<>> \o <<>> = <<>>
    BY EmptySeq, ConcatEmptySeq
  <2>2. Submitted = <<>>
    <3>1. Len(Submitted) = 0 /\ Submitted \in Seq(Writes)
      BY <1>1, <1>2, OutletAssumption, Holdings
    <3> QED BY <3>1, EmptySeq
  <2> QED BY <1>1, <2>1, <2>2, ElementsOfFew DEF Owned, Local
<1>4. Numbered
  BY <1>1, <1>3 DEF Numbered
<1>5. Ended
  BY <1>1, <1>3 DEF Ended
<1>6. BarrierHolds /\ Matched
  BY <1>1 DEF BarrierHolds, Matched
<1> QED BY <1>2, <1>4, <1>5, <1>6 DEF IInv, Ownership

LEMMA Always == Spec => []IInv
<1>1. IInv /\ [Next]_vars => IInv'
  BY Inductive, OutletAssumption
<1> QED BY <1>1, Initially, PTL DEF Spec

-----------------------------------------------------------------------------
(* Order.                                                                    *)

\* A write may take effect after a newer one.
Excused(w, newer, R, D) ==
    \/ {w, newer} \subseteq R /\ LaneOf[w] # LaneOf[newer]
    \/ newer \in D /\ w \notin R

InEffect(s, R, D) ==
    \A i, j \in 1 .. Len(s) : (i < j /\ s[j] < s[i]) => Excused(s[j], s[i], R, D)

\* S holds every remote write that is older than one of its own, unless it has
\* been executed.
NoGap(S, D, R) == \A w \in S : w \in R /\ \A r \in R : r < w => r \in D \cup S

\* Batches under way and the daemon's queues keep the order of the outlet.
Accepted ==
    /\ \A b \in Under : Ascending(b.writes) /\ NoGap(ToSet(b.writes), done, remote)
    /\ Ascending(owed) /\ NoGap(ToSet(owed) \cup done, done, remote)

\* The outlet holds on to what is not executed.
Reach == remote \subseteq done \cup ToSet(Owned)

\* Local writes are newer than remote ones.
Behind == \A w \in ToSet(Local), r \in remote : r < w

\* Writes that may still take effect.
Pending == ToSet(saveQueue) \cup Unrun \cup (remote \ ToSet(applied))

Effects ==
    /\ ToSet(applied) \subseteq 1 .. handed
    /\ InEffect(applied, remote, direct)
    /\ \A w \in Pending, a \in ToSet(applied) : w < a => Excused(w, a, remote, direct)

OrderInv == unloaded \/ (Accepted /\ Reach /\ Behind /\ Effects)

LEMMA Grown ==
    ASSUME NEW s \in Seq(Nat), NEW t \in Seq(Nat), NEW R, NEW D,
           InEffect(s, R, D), Ascending(t),
           \A w \in ToSet(t), a \in ToSet(s) : w < a => Excused(w, a, R, D)
    PROVE  InEffect(s \o t, R, D)
<1> DEFINE u == s \o t
           m == Len(s)
           n == Len(t)
<1>1. /\ Len(u) = m + n /\ m \in Nat /\ n \in Nat
      /\ \A i \in 1 .. m + n : u[i] = IF i <= m THEN s[i] ELSE t[i - m]
  BY ConcatProperties, LenProperties
<1>2. /\ \A i \in 1 .. m : s[i] \in ToSet(s) /\ s[i] \in Nat
      /\ \A i \in 1 .. n : t[i] \in ToSet(t) /\ t[i] \in Nat
  BY Elements, ElementOfSeq
<1>3. \A i, j \in 1 .. n : i < j => t[i] < t[j]
  BY DEF Ascending
<1>4. \A i, j \in 1 .. m : (i < j /\ s[j] < s[i]) => Excused(s[j], s[i], R, D)
  BY DEF InEffect
<1> HIDE DEF u, m, n
<1>5. ASSUME NEW i \in 1 .. Len(u), NEW j \in 1 .. Len(u), i < j, u[j] < u[i]
      PROVE  Excused(u[j], u[i], R, D)
  <2>1. i \in 1 .. m + n /\ j \in 1 .. m + n
    BY <1>1
  <2>2. CASE j <= m
    <3>1. i \in 1 .. m /\ j \in 1 .. m /\ u[i] = s[i] /\ u[j] = s[j]
      BY <1>1, <1>5, <2>1, <2>2
    <3> QED BY <1>4, <1>5, <3>1
  <2>3. CASE j > m /\ i <= m
    <3>1. i \in 1 .. m /\ j - m \in 1 .. n /\ u[i] = s[i] /\ u[j] = t[j - m]
      BY <1>1, <1>5, <2>1, <2>3
    <3> QED BY <1>2, <1>5, <3>1
  <2>4. CASE i > m
    <3> DEFINE x == i - m
               y == j - m
    <3>1. x \in 1 .. n /\ y \in 1 .. n /\ u[i] = t[x] /\ u[j] = t[y] /\ x < y
      BY <1>1, <1>5, <2>1, <2>4
    <3> HIDE DEF x, y
    <3>2. t[x] < t[y] /\ t[x] \in Nat /\ t[y] \in Nat
      BY <1>2, <1>3, <3>1
    <3>3. ~(t[y] < t[x])
      BY <3>2
    <3> QED BY <1>5, <3>1, <3>3
  <2> QED BY <1>1, <2>1, <2>2, <2>3, <2>4
<1> QED BY <1>5 DEF InEffect, u

LEMMA NoGapGrows ==
    ASSUME NEW S, NEW D, NEW R, NEW E, D \subseteq E, NoGap(S, D, R)
    PROVE  NoGap(S, E, R)
  BY DEF NoGap

\* What a step other than a hand-over moves.
LEMMA OtherMoves ==
    ASSUME OutletAssumption, IInv, Next, ~unloaded',
           \A forceSync \in BOOLEAN : ~HandOver(forceSync)
    PROVE  /\ UNCHANGED <<remote, handed>> /\ ToSet(Local') \subseteq ToSet(Local)
           /\ ToSet(Owned) \subseteq ToSet(Owned') \cup done' /\ done \subseteq done'
<1>1. CASE PumpTimer \/ DatabaseReady
  <2>1. /\ UNCHANGED <<handed, inflight, queue, remote, done>>
        /\ PumpSaveQueue \/ UNCHANGED <<saveQueue, executing>>
    BY <1>1 DEF PumpTimer, DatabaseReady, outletVars, daemonVars, history
  <2>2. Local' = Local
    BY <2>1, Pumping DEF IInv, Types, Local, Submitted
  <2>3. Owned' = Owned
    BY <2>1 DEF Owned
  <2> QED BY <2>1, <2>2, <2>3
<1>2. CASE SaveCallback
  <2>1. UNCHANGED <<handed, inflight, queue, remote, done>>
    BY <1>2 DEF SaveCallback, outletVars, daemonVars, history
  <2> DEFINE w == executing[1].write
             k == Local'
             l == Local
             one == <<w>>
  <2>2. l = one \o k /\ k \in Seq(Writes) /\ w \in Writes
    BY <1>2, CallbackKeeps, CallingBack DEF IInv, Types
  <2> HIDE DEF k, l, w
  <2>3. one \in Seq(Writes)
    BY <2>2, ElementsOfFew
  <2> HIDE DEF one
  <2>4. ToSet(k) \subseteq ToSet(l)
    BY <2>2, <2>3, Joined
  <2>5. Owned' = Owned
    BY <2>1 DEF Owned
  <2> QED BY <2>1, <2>4, <2>5 DEF k, l
<1>3. CASE MapEnd
  <2>1. UNCHANGED <<handed, inflight, queue, done>> /\ Local' = Submitted
    BY <1>3, Emptying, MapEndKeeps DEF IInv, outletVars, daemonVars
  <2>2. remote' = remote
    BY <1>3, Emptying, EndedAtOnce, Holdings DEF IInv
  <2>3. ToSet(Submitted) \subseteq ToSet(Local)
    BY Holdings DEF IInv
  <2>4. Owned' = Owned
    BY <2>1 DEF Owned
  <2> QED BY <2>1, <2>2, <2>3, <2>4
<1>4. ASSUME SameWrites
      PROVE  /\ UNCHANGED <<remote, handed, done>> /\ Owned' = Owned /\ Local' = Local
  BY <1>4, SameWritesKept DEF IInv, SameWrites
<1>5. CASE \/ ConnectSocket \/ ReconnectTimer \/ Timeout \/ EndpointChanged
           \/ DrainCommand \/ DatabaseLost
  BY <1>4, <1>5, SessionSteps DEF IInv
<1>6. CASE FlushSqlBatch
  BY <1>6, FlushKeeps DEF IInv, FlushSqlBatch, history
<1>7. ASSUME NEW s \in Sockets, SocketCallback(s)
      PROVE  /\ UNCHANGED <<remote, handed>> /\ ToSet(Local') \subseteq ToSet(Local)
             /\ ToSet(Owned) \subseteq ToSet(Owned') \cup done' /\ done \subseteq done'
  <2>1. CASE SameWrites
    BY <1>4, <2>1
  <2>2. CASE /\ queue' = queue /\ inflight' = <<>> /\ batch' = NoBatch
             /\ batch # NoBatch /\ \E m \in Acks : m.id = batch
    <3>1. UNCHANGED <<handed, done, remote>>
      BY <1>7, CallbackSteps DEF history, IInv
    <3>2. Owned' = queue /\ Local' = Local /\ ToSet(inflight) \subseteq done
      BY <1>7, <2>2, AcknowledgedKeeps DEF IInv
    <3>3. ToSet(Owned) = ToSet(inflight) \cup ToSet(queue)
      BY Holdings DEF IInv
    <3> QED BY <3>1, <3>2, <3>3
  <2> QED BY <1>7, <2>1, <2>2, CallbackSteps DEF IInv
<1>8. CASE ExecuteAsync \/ ExecuteAsyncFails
  <2>1. PICK ok \in BOOLEAN : RunAsync(ok)
    BY <1>8 DEF ExecuteAsync, ExecuteAsyncFails
  <2>2. UNCHANGED <<handed, inflight, queue, remote, done, saveQueue>> /\ Submitted' = Submitted
    BY <2>1, Running DEF IInv, Types, RunAsync, outletVars, daemonVars
  <2> QED BY <2>2 DEF Owned, Local
<1>9. CASE Daemon
  <2>1. CASE DaemonExecutes
    <3>1. Owned' = Owned /\ Local' = Local
      BY <2>1, ExecuteKeeps DEF IInv
    <3> QED BY <2>1, <3>1 DEF DaemonExecutes, far
  <2> QED BY <1>4, <1>9, <2>1, DaemonSteps
<1>10. ~PluginEnd
  BY DEF PluginEnd
<1> QED BY <1>1, <1>2, <1>3, <1>5, <1>6, <1>7, <1>8, <1>9, <1>10 DEF Next, Plugin

\* Only a batch that is sent is new on the way.
LEMMA NothingNewUnder ==
    ASSUME OutletAssumption, Types, Next, ~FlushSqlBatch
    PROVE  Under' \subseteq Under
<1>1. ASSUME NEW s \in Sockets, AnswerBatch(s)
      PROVE  Under' \subseteq Under
  <2> DEFINE c == [chan[s] EXCEPT !.served = "idle", !.job = Hello,
                                  !.down = Append(@, Reply("ack", chan[s].job.id))]
  <2>1. chan' = [chan EXCEPT ![s] = c] /\ chan[s].served = "waiting" /\ Good(chan[s])
    BY <1>1 DEF AnswerBatch, Types, ChannelsGood
  <2>2. Good(c) /\ Carried(c) \subseteq Carried(chan[s])
    BY <2>1, Answering
  <2> HIDE DEF c
  <2>3. Under' \subseteq Under \cup Carried(c)
    BY <2>1, <2>2, OneChannel DEF Types
  <2> QED BY <2>2, <2>3 DEF Under
<1>2. CASE ExecuteAsync \/ ExecuteAsyncFails
  BY <1>2, NoneChanged DEF ExecuteAsync, ExecuteAsyncFails, RunAsync, daemonVars, Types,
                           ChannelsQuiet
<1>3. CASE Plugin
  BY <1>3, PluginQuiet DEF Types, ChannelsQuiet
<1>4. CASE Daemon
  BY <1>1, <1>4, DaemonQuiet DEF Types, ChannelsQuiet
<1> QED BY <1>2, <1>3, <1>4 DEF Next

\* What a hand-over moves.
LEMMA HandOverGrows ==
    ASSUME OutletAssumption, IInv, NEW forceSync \in BOOLEAN, HandOver(forceSync)
    PROVE  /\ handed' = handed + 1 /\ handed' \in Nat /\ done' = done
           /\ \A x \in 1 .. handed : x < handed'
           /\ \/ /\ remote' = remote \cup {handed'} /\ ToSet(Local') = {}
                 /\ ToSet(Owned') = ToSet(Owned) \cup {handed'}
              \/ /\ remote' = remote /\ ToSet(Local') \subseteq ToSet(Local) \cup {handed'}
                 /\ ToSet(Owned') = ToSet(Owned)
<1> DEFINE h == handed'
           one == <<h>>
           o == Owned
           l == Local
<1>1. /\ h = handed + 1 /\ h \in Writes /\ UNCHANGED daemonVars
      /\ Taken \/ Kept \/ AtOnce
  BY HandingOver DEF IInv, Types
<1>2. handed \in Nat /\ h \in Nat /\ done' = done /\ \A x \in 1 .. handed : x < h
  BY <1>1, Holdings DEF IInv, daemonVars
<1>3. o \in Seq(Writes) /\ l \in Seq(Writes)
  BY Holdings DEF IInv
<1>4. /\ Taken => Owned' = o \o one /\ Local' = l
      /\ Kept => Owned' = o /\ Local' = l \o one
      /\ AtOnce => Owned' = o /\ Local' = l
  BY HandOverMoves DEF IInv
<1>5. Taken => l = <<>> /\ remote' = remote \cup {h}
  <2>1. Taken => executing = <<>> /\ saveQueue = <<>>
    BY DEF Taken, HasLocalWork
  <2>2. executing = <<>> /\ saveQueue = <<>> => Local = <<>>
    <3> SUFFICES ASSUME executing = <<>>, saveQueue = <<>> PROVE Local = <<>>
      OBVIOUS
    <3>1. Submitted = <<>>
      <4>1. Len(Submitted) = 0 /\ Submitted \in Seq(Writes)
        BY Holdings DEF IInv
      <4> QED BY <4>1, EmptySeq
    <3>2. <<>> \o <<>> = <<>>
      BY EmptySeq, ConcatEmptySeq
    <3> QED BY <3>1, <3>2 DEF Local
  <2> QED BY <2>1, <2>2 DEF Taken
<1>6. Kept => remote' = remote
  BY DEF Kept
<1>7. AtOnce => remote' = remote
  BY DEF AtOnce, ExecuteSync
<1> HIDE DEF h, o, l
<1>8. one \in Seq(Writes) /\ ToSet(one) = {h}
  BY <1>1, ElementsOfFew
<1> HIDE DEF one
<1>9. /\ ToSet(o \o one) = ToSet(o) \cup {h} /\ ToSet(l \o one) = ToSet(l) \cup {h}
      /\ l = <<>> => ToSet(l) = {}
  BY <1>3, <1>8, Joined, ElementsOfFew
<1> QED BY <1>1, <1>2, <1>4, <1>5, <1>6, <1>7, <1>9 DEF h, o, l

LEMMA ReachKept ==
    ASSUME OutletAssumption, IInv, Reach, Next, ~unloaded'
    PROVE  Reach'
<1>1. ASSUME NEW forceSync \in BOOLEAN, HandOver(forceSync)
      PROVE  Reach'
  BY <1>1, HandOverGrows DEF Reach
<1>2. CASE \A forceSync \in BOOLEAN : ~HandOver(forceSync)
  BY <1>2, OtherMoves DEF Reach
<1> QED BY <1>1, <1>2

LEMMA BehindKept ==
    ASSUME OutletAssumption, IInv, Behind, Next, ~unloaded'
    PROVE  Behind'
<1>1. ASSUME NEW forceSync \in BOOLEAN, HandOver(forceSync)
      PROVE  Behind'
  <2>1. \A r \in remote : r < handed'
    BY <1>1, HandOverGrows DEF IInv, Ownership, Numbered
  <2> QED BY <1>1, <2>1, HandOverGrows DEF Behind
<1>2. CASE \A forceSync \in BOOLEAN : ~HandOver(forceSync)
  BY <1>2, OtherMoves DEF Behind
<1> QED BY <1>1, <1>2

LEMMA AcceptedKept ==
    ASSUME OutletAssumption, IInv, Accepted, Reach, Next, ~unloaded'
    PROVE  Accepted'
<1>1. /\ \A b \in Under : Ascending(b.writes) /\ NoGap(ToSet(b.writes), done, remote)
      /\ Ascending(owed) /\ NoGap(ToSet(owed) \cup done, done, remote)
  BY DEF Accepted
<1>2. CASE FlushSqlBatch
  <2> DEFINE sent == Batch(batch', inflight')
             f == inflight'
             q == queue'
  <2>1. Under' \subseteq Under \cup {sent} /\ UNCHANGED <<owed, done, remote>>
    BY <1>2, BatchSent DEF IInv, FlushSqlBatch, history
  <2>2. sent.writes = f
    BY DEF Batch
  <2>3. f \o q = Owned /\ f \in Seq(Writes) /\ q \in Seq(Writes)
    BY <1>2, Flushing DEF IInv, Types, OutletTyped
  <2>4. Ascending(Owned) /\ ToSet(Owned) \subseteq remote
    BY DEF IInv, Ownership, Numbered
  <2> HIDE DEF sent, f, q
  <2>5. /\ ToSet(Owned) = ToSet(f) \cup ToSet(q) /\ Ascending(f)
        /\ \A x \in ToSet(f), y \in ToSet(q) : x < y
        /\ ToSet(f) \subseteq Nat /\ ToSet(q) \subseteq Nat
    <3>1. f \in Seq(Nat) /\ q \in Seq(Nat) /\ ToSet(f) \subseteq Nat /\ ToSet(q) \subseteq Nat
      BY <2>3, Numbers
    <3>2. ToSet(f \o q) = ToSet(f) \cup ToSet(q)
      <4>1. f \in Seq(Writes) /\ q \in Seq(Writes)
        BY <2>3
      <4> QED BY <4>1, Joined
    <3>3. Ascending(f) /\ \A x \in ToSet(f), y \in ToSet(q) : x < y
      <4>1. Ascending(f \o q)
        BY <2>3, <2>4
      <4> QED BY <3>1, <4>1, JoinedAscending
    <3> QED BY <2>3, <3>1, <3>2, <3>3
  <2>6. NoGap(ToSet(f), done, remote)
    <3>1. ASSUME NEW w \in ToSet(f), NEW r \in remote, r < w, r \notin done
          PROVE  r \in ToSet(f)
      <4>1. r \in ToSet(Owned)
        BY <3>1 DEF Reach
      <4>2. r \notin ToSet(q)
        <5> SUFFICES ASSUME r \in ToSet(q) PROVE FALSE
          OBVIOUS
        <5>1. w < r /\ w \in Nat /\ r \in Nat
          BY <2>5
        <5> QED BY <3>1, <5>1
      <4> QED BY <2>5, <4>1, <4>2
    <3> QED BY <2>4, <2>5, <3>1 DEF NoGap
  <2> QED BY <1>1, <2>1, <2>2, <2>5, <2>6 DEF Accepted
<1>3. ASSUME NEW s \in Sockets, AcceptBatch(s)
      PROVE  Accepted'
  <2>1. Under' \subseteq Under /\ UNCHANGED <<done, remote>>
    <3>1. ~FlushSqlBatch
      <4>1. unloaded' = unloaded /\ chan[s].served = "idle" /\ queue' = queue
        BY <1>3 DEF AcceptBatch, far, adminVars, outletVars
      <4>2. inflight' = inflight /\ batch' = batch
        BY <1>3 DEF AcceptBatch, far, outletVars
      <4> QED BY <4>2, Flushing DEF IInv, Types, OutletTyped
    <3> QED BY <1>3, <3>1, NothingNewUnder DEF IInv, AcceptBatch, far
  <2>2. CASE UNCHANGED owed
    BY <1>1, <2>1, <2>2 DEF Accepted
  <2>3. ASSUME NEW b \in Under, NEW fresh \in Seq(Writes),
               owed' = owed \o fresh, ToSet(fresh) = ToSet(b.writes) \ done,
               ToSet(fresh) \cap ToSet(owed) = {},
               Ascending(b.writes) => Ascending(fresh)
        PROVE  Accepted'
    <3>1. /\ owed \in Seq(Writes) /\ owed \in Seq(Nat) /\ fresh \in Seq(Nat)
          /\ ToSet(owed) \subseteq Nat /\ ToSet(fresh) \subseteq Nat
      BY Numbers DEF IInv, Types, RestTyped
    <3>2. ToSet(owed') = ToSet(owed) \cup ToSet(fresh)
      BY <2>3, <3>1, Joined
    <3>3. \A x \in ToSet(owed), y \in ToSet(fresh) : x < y
      <4> SUFFICES ASSUME NEW x \in ToSet(owed), NEW y \in ToSet(fresh), ~(x < y)
                   PROVE  FALSE
        OBVIOUS
      <4>1. y \in remote /\ y \notin done /\ y \notin ToSet(owed)
        BY <1>1, <2>3 DEF NoGap
      <4>2. y < x
        BY <3>1, <4>1
      <4> QED BY <1>1, <4>1, <4>2 DEF NoGap
    <3>4. Ascending(owed')
      BY <1>1, <2>3, <3>1, <3>3, JoinedAscending
    <3>5. NoGap(ToSet(owed') \cup done, done, remote)
      <4>1. \A w \in ToSet(fresh) : w \in remote /\ \A r \in remote : r < w => r \in done \cup ToSet(fresh)
        BY <1>1, <2>3 DEF NoGap
      <4> QED BY <1>1, <3>2, <4>1 DEF NoGap
    <3> QED BY <1>1, <2>1, <3>4, <3>5 DEF Accepted
  <2> QED BY <1>3, <2>2, <2>3, Accepting DEF IInv, Types
<1>4. CASE DaemonExecutes
  <2>1. PICK w \in Writes :
          /\ \E before, after \in Seq(Writes) :
                owed = (before \o <<w>>) \o after /\ owed' = before \o after
          /\ done' = done \cup {w}
    <3>1. RestTyped /\ HistoryTyped
      BY DEF IInv, Types
    <3> QED BY <1>4, <3>1, Executing
  <2>2. PICK before, after \in Seq(Writes) :
           owed = (before \o <<w>>) \o after /\ owed' = before \o after
    BY <2>1
  <2> DEFINE one == <<w>>
             first == before \o one
  <2>3. one \in Seq(Writes) /\ ToSet(one) = {w} /\ owed = first \o after
    BY <2>2, ElementsOfFew
  <2> HIDE DEF one
  <2>4. first \in Seq(Writes) /\ ToSet(first) = ToSet(before) \cup {w}
    BY <2>3, Joined
  <2>5. /\ ToSet(owed) = ToSet(before) \cup {w} \cup ToSet(after)
        /\ ToSet(owed') = ToSet(before) \cup ToSet(after)
    <3> HIDE DEF first
    <3>1. ToSet(first \o after) = ToSet(first) \cup ToSet(after)
      BY <2>4, Joined
    <3>2. ToSet(before \o after) = ToSet(before) \cup ToSet(after)
      BY Joined
    <3>3. ToSet(owed) = ToSet(first) \cup ToSet(after)
      BY <2>3, <3>1
    <3>4. ToSet(owed') = ToSet(before) \cup ToSet(after)
      BY <2>2, <3>2
    <3> QED BY <2>4, <3>3, <3>4
  <2>6. Ascending(owed')
    <3>1. before \in Seq(Nat) /\ one \in Seq(Nat) /\ after \in Seq(Nat) /\ first \in Seq(Nat)
      BY <2>3, <2>4, Numbers
    <3>2. Ascending(first) /\ Ascending(after) /\ \A x \in ToSet(first), y \in ToSet(after) : x < y
      <4> HIDE DEF first
      <4> QED BY <1>1, <2>3, <3>1, JoinedAscending
    <3>3. Ascending(before)
      BY <3>1, <3>2, JoinedAscending
    <3> QED BY <2>2, <2>4, <3>1, <3>2, <3>3, JoinedAscending
  <2>7. ToSet(owed') \cup done' = ToSet(owed) \cup done
    BY <2>1, <2>5
  <2>8. Under' = Under /\ remote' = remote
    BY <1>4 DEF DaemonExecutes, Under, far
  <2> HIDE DEF first
  <2>9. done \subseteq done'
    BY <2>1
  <2>10. NoGap(ToSet(owed') \cup done', done', remote)
    <3> DEFINE S == ToSet(owed) \cup done
    <3>1. NoGap(S, done, remote)
      BY <1>1
    <3>2. ToSet(owed') \cup done' = S
      BY <2>7
    <3> HIDE DEF S
    <3>3. NoGap(S, done', remote)
      BY <2>9, <3>1, NoGapGrows
    <3> QED BY <3>2, <3>3
  <2>11. \A b \in Under : Ascending(b.writes) /\ NoGap(ToSet(b.writes), done', remote)
    BY <1>1, <2>9, NoGapGrows
  <2> QED BY <2>6, <2>8, <2>10, <2>11 DEF Accepted
<1>5. ASSUME NEW forceSync \in BOOLEAN, HandOver(forceSync)
      PROVE  Accepted'
  <2>1. UNCHANGED <<chan, owed, done>>
    BY <1>5, HandingOver DEF IInv, Types, daemonVars
  <2>2. Under' = Under
    BY <2>1 DEF Under
  <2>3. \A S : NoGap(S, done, remote) => NoGap(S, done, remote')
    <3>1. \A x \in remote : ~(handed' < x)
      <4>1. \A x \in 1 .. handed : x \in Nat /\ x < handed' /\ handed' \in Nat
        BY <1>5, HandOverGrows
      <4> QED BY <4>1 DEF IInv, Ownership, Numbered
    <3>2. remote' = remote \/ remote' = remote \cup {handed'}
      BY <1>5, HandOverGrows
    <3> QED BY <3>1, <3>2 DEF NoGap
  <2> QED BY <1>1, <2>1, <2>2, <2>3 DEF Accepted
<1>6. ASSUME ~FlushSqlBatch, UNCHANGED <<owed, done, remote>>
      PROVE  Accepted'
  <2>1. Under' \subseteq Under
    BY <1>6, NothingNewUnder DEF IInv
  <2> QED BY <1>1, <1>6, <2>1 DEF Accepted
<1>7. CASE /\ ~FlushSqlBatch /\ ~DaemonExecutes /\ \A s \in Sockets : ~AcceptBatch(s)
           /\ \A forceSync \in BOOLEAN : ~HandOver(forceSync)
  <2>1. remote' = remote
    BY <1>7, OtherMoves
  <2>2. UNCHANGED <<owed, done>>
    <3>1. CASE Plugin
      BY <1>7, <3>1
         DEF Plugin, PumpTimer, SaveCallback, DatabaseReady, DatabaseLost, MapEnd, ConnectSocket,
             ReconnectTimer, Timeout, SocketCallback, EndpointChanged, DrainCommand, PluginEnd,
             daemonVars
    <3>2. CASE ExecuteAsync \/ ExecuteAsyncFails
      BY <3>2 DEF ExecuteAsync, ExecuteAsyncFails, RunAsync, daemonVars
    <3>3. CASE Daemon
      BY <1>7, <3>3 DEF Daemon, Accept, AnswerHello, RefuseBatch, AnswerBatch, GiveUp, Break,
                        HandlerEnds
    <3> QED BY <3>1, <3>2, <3>3 DEF Next
  <2> QED BY <1>6, <1>7, <2>1, <2>2
<1> QED BY <1>2, <1>3, <1>4, <1>5, <1>7

\* Local writes that have not run, and the remote ones when the outlet is empty.
LEMMA Waiting ==
    ASSUME OutletAssumption, IInv
    PROVE  /\ ToSet(saveQueue) \cup Unrun \subseteq (1 .. handed) \ remote
           /\ remote \subseteq 1 .. handed
           /\ Reach /\ ~HasPendingWrites => remote \subseteq ToSet(applied)
           /\ Ascending(Submitted)
           /\ \A x \in ToSet(Submitted), y \in ToSet(saveQueue) : x < y
           /\ \A i \in 1 .. Len(executing) : executing[i].write \in ToSet(Submitted)
           /\ applied \in Seq(Writes) /\ applied \in Seq(Nat) /\ done \subseteq ToSet(applied)
<1> DEFINE sub == Submitted
           q == saveQueue
           l == Local
<1>1. /\ Ascending(l) /\ ToSet(l) \subseteq (1 .. handed) \ remote
      /\ remote \subseteq 1 .. handed /\ done \subseteq ToSet(applied)
  BY DEF IInv, Ownership, Numbered, Ended
<1>2. /\ sub \in Seq(Writes) /\ q \in Seq(Writes) /\ l = sub \o q
      /\ ToSet(l) = ToSet(sub) \cup ToSet(q) /\ Len(sub) = Len(executing)
      /\ \A i \in 1 .. Len(executing) : sub[i] = executing[i].write
  BY Holdings DEF IInv, Local
<1>3. Reach /\ ~HasPendingWrites => remote \subseteq ToSet(applied)
  <2> SUFFICES ASSUME Reach, ~HasPendingWrites PROVE remote \subseteq ToSet(applied)
    OBVIOUS
  <2>1. inflight = <<>> /\ queue = <<>>
    BY DEF HasPendingWrites
  <2>2. ToSet(Owned) = {}
    BY <2>1, Holdings, ElementsOfFew DEF IInv
  <2> QED BY <1>1, <2>2 DEF Reach
<1>4. applied \in Seq(Writes) /\ applied \in Seq(Nat)
  <2>1. applied \in Seq(Writes)
    BY DEF IInv, Types, HistoryTyped
  <2> QED BY <2>1, Numbers
<1> HIDE DEF sub, q, l
<1>5. \A i \in 1 .. Len(executing) : executing[i].write \in ToSet(sub)
  BY <1>2, Elements
<1>6. Unrun \subseteq ToSet(sub)
  BY <1>5 DEF Unrun
<1>7. Ascending(sub) /\ \A x \in ToSet(sub), y \in ToSet(q) : x < y
  <2>1. sub \in Seq(Nat) /\ q \in Seq(Nat)
    BY <1>2, Numbers
  <2> QED BY <1>1, <1>2, <2>1, JoinedAscending
<1> QED BY <1>1, <1>2, <1>3, <1>4, <1>5, <1>6, <1>7 DEF sub, q

\* The writes of ran take effect.
LEMMA EffectsGrow ==
    ASSUME OutletAssumption, IInv, Effects, NEW ran \in Seq(Writes),
           applied' = applied \o ran, Ascending(ran),
           remote' = remote, direct \subseteq direct', 1 .. handed \subseteq 1 .. handed',
           ToSet(ran) \subseteq 1 .. handed', Pending' \subseteq Pending,
           \A w \in ToSet(ran), a \in ToSet(applied) :
              w < a => Excused(w, a, remote, direct),
           \A w \in Pending', a \in ToSet(ran) : w < a => Excused(w, a, remote, direct')
    PROVE  Effects'
<1>1. /\ applied \in Seq(Writes) /\ applied \in Seq(Nat) /\ ran \in Seq(Nat)
  BY Waiting, Numbers
<1>2. ToSet(applied') = ToSet(applied) \cup ToSet(ran)
  BY <1>1, Joined
<1>3. \A w, a : Excused(w, a, remote, direct) => Excused(w, a, remote, direct')
  BY DEF Excused
<1>4. InEffect(applied, remote, direct')
  BY <1>3 DEF Effects, InEffect
<1>5. InEffect(applied', remote', direct')
  <2>1. \A w \in ToSet(ran), a \in ToSet(applied) :
           w < a => Excused(w, a, remote, direct')
    BY <1>3
  <2> QED BY <1>1, <1>4, <2>1, Grown
<1>6. \A w \in Pending', a \in ToSet(applied) : w < a => Excused(w, a, remote, direct')
  BY <1>3 DEF Effects
<1> QED BY <1>2, <1>5, <1>6 DEF Effects

LEMMA EffectsQuiet ==
    ASSUME Effects, UNCHANGED <<handed, applied, remote, direct>>, Pending' \subseteq Pending
    PROVE  Effects'
  BY DEF Effects

LEMMA EffectsOfHandOver ==
    ASSUME OutletAssumption, IInv, Reach, Effects, NEW forceSync \in BOOLEAN,
           HandOver(forceSync)
    PROVE  Effects'
<1> DEFINE h == handed'
<1>1. /\ h = handed + 1 /\ h \in Nat /\ h \in Writes /\ \A x \in 1 .. handed : x < h
      /\ UNCHANGED executing
      /\ Taken \/ Kept \/ AtOnce
  <2>1. h = handed + 1 /\ h \in Nat /\ \A x \in 1 .. handed : x < h
    BY HandOverGrows
  <2>2. LocalTyped /\ HistoryTyped /\ OutletTyped
    BY DEF IInv, Types
  <2>3. h \in Writes /\ UNCHANGED executing /\ (Taken \/ Kept \/ AtOnce)
    BY <2>2, HandingOver
  <2> QED BY <2>1, <2>3
<1>2. Unrun' = Unrun
  BY <1>1 DEF Unrun
<1>3. /\ ToSet(saveQueue) \cup Unrun \subseteq (1 .. handed) \ remote
      /\ remote \subseteq 1 .. handed /\ handed \in Nat
      /\ applied \in Seq(Writes)
  BY Waiting, Holdings DEF IInv
<1>4. 1 .. handed \subseteq 1 .. h /\ h \in 1 .. h /\ h \notin 1 .. handed
  BY <1>1, <1>3
<1>5. \A a \in ToSet(applied) : a \in 1 .. handed /\ a # h /\ ~(h < a)
  <2>1. \A a \in 1 .. handed : a # h /\ ~(h < a)
    BY <1>1, <1>3
  <2> QED BY <2>1 DEF Effects
<1>6. Pending \subseteq 1 .. handed
  BY <1>3 DEF Pending
<1> HIDE DEF h
<1>7. CASE Taken
  <2>1. UNCHANGED <<applied, direct, saveQueue>> /\ remote' = remote \cup {h}
    BY <1>7 DEF Taken, h
  <2>2. Pending' \subseteq Pending \cup {h}
    BY <1>2, <2>1 DEF Pending
  <2>3. \A w \in 1 .. handed : \A a :
           Excused(w, a, remote, direct) => Excused(w, a, remote', direct')
    BY <1>4, <2>1 DEF Excused
  <2>4. InEffect(applied', remote', direct')
    <3>1. \A i \in 1 .. Len(applied) : applied[i] \in 1 .. handed
      <4>1. \A i \in 1 .. Len(applied) : applied[i] \in ToSet(applied)
        BY <1>3, Elements
      <4> QED BY <1>5, <4>1
    <3> QED BY <2>1, <2>3, <3>1 DEF Effects, InEffect
  <2>5. ToSet(applied') \subseteq 1 .. h
    BY <1>4, <1>5, <2>1
  <2> QED BY <1>5, <1>6, <2>1, <2>2, <2>3, <2>4, <2>5 DEF Effects, h
<1>8. CASE Kept
  <2>1. /\ UNCHANGED <<applied, direct, remote>>
        /\ ToSet(saveQueue') \subseteq ToSet(saveQueue) \cup {h}
    <3>1. saveQueue' = Append(saveQueue, h) /\ saveQueue \in Seq(Writes)
      BY <1>8, Holdings DEF IInv, Kept, h
    <3> QED BY <1>1, <1>8, <3>1, Appended DEF Kept
  <2>2. Pending' \subseteq Pending \cup {h}
    BY <1>2, <2>1 DEF Pending
  <2>3. ToSet(applied') \subseteq 1 .. h
    BY <1>4, <1>5, <2>1
  <2> QED BY <1>5, <2>1, <2>2, <2>3 DEF Effects, h
<1>9. CASE AtOnce
  <2> DEFINE one == <<h>>
  <2>1. one \in Seq(Writes) /\ ToSet(one) = {h} /\ Ascending(one)
    BY <1>1, ElementsOfFew
  <2>2. PICK ok \in SUBSET {h} : ExecuteSync(one, ok)
    BY <1>9 DEF AtOnce, h
  <2>3. ~HasPendingWrites /\ saveQueue' = saveQueue
    BY <1>9 DEF AtOnce
  <2> HIDE DEF one
  <2>4. PICK ran \in Seq(Writes) :
          /\ applied' = applied \o ran /\ ToSet(ran) = ok \ ToSet(applied)
          /\ Ascending(ran) /\ direct' = direct \cup ToSet(ran) /\ remote' = remote
    BY <2>1, <2>2, Synchronous DEF IInv, Types
  <2>5. remote \subseteq ToSet(applied) /\ ToSet(applied) \subseteq ToSet(applied')
    BY <1>3, <2>3, <2>4, Waiting, Joined
  <2>6. Pending' \subseteq Pending /\ Pending' \cap remote = {}
    BY <1>2, <1>3, <2>3, <2>4, <2>5 DEF Pending
  <2>7. \A w \in Pending', a \in ToSet(ran) : Excused(w, a, remote, direct')
    BY <2>4, <2>6 DEF Excused
  <2>8. ToSet(ran) \subseteq {h}
    BY <2>2, <2>4
  <2>9. ToSet(ran) \subseteq 1 .. handed' /\ 1 .. handed \subseteq 1 .. handed'
    BY <1>4, <2>8 DEF h
  <2>10. \A w \in ToSet(ran), a \in ToSet(applied) : ~(w < a)
    BY <1>5, <2>8
  <2> QED BY <2>4, <2>6, <2>7, <2>9, <2>10, EffectsGrow
<1> QED BY <1>1, <1>7, <1>8, <1>9

\* The first query that has not run takes effect: older local writes have run,
\* and no remote write waits.
LEMMA EffectsOfQuery ==
    ASSUME OutletAssumption, IInv, Reach, Effects, RunAsync(TRUE)
    PROVE  Effects'
<1>1. UNCHANGED <<handed, saveQueue, remote, direct>>
  BY DEF RunAsync
<1>2. PICK i \in 1 .. Len(executing) :
        /\ ~executing[i].ran /\ \A j \in 1 .. i - 1 : executing[j].ran
        /\ executing[i].write \in Writes
        /\ \A j \in 1 .. Len(executing) :
              executing'[j].ran <=> (executing[j].ran \/ j = i)
        /\ applied' = applied \o <<executing[i].write>>
  BY Running DEF IInv, Types
<1>3. /\ Len(executing') = Len(executing) /\ Len(executing) \in Nat
      /\ \A j \in 1 .. Len(executing) : executing'[j].write = executing[j].write
  BY Running, LenProperties DEF IInv, Types, LocalTyped
<1> DEFINE w == executing[i].write
           one == <<w>>
           sub == Submitted
<1>4. /\ ToSet(saveQueue) \cup Unrun \subseteq (1 .. handed) \ remote
      /\ Ascending(sub) /\ \A x \in ToSet(sub), y \in ToSet(saveQueue) : x < y
      /\ \A j \in 1 .. Len(executing) : executing[j].write \in ToSet(sub)
      /\ Len(sub) = Len(executing) /\ \A j \in 1 .. Len(executing) : sub[j] = executing[j].write
      /\ applied \in Seq(Writes) /\ ToSet(sub) \subseteq Nat /\ ToSet(saveQueue) \subseteq Nat
  BY Waiting, Holdings, Numbers DEF IInv
<1>5. w \in Unrun
  BY <1>2 DEF Unrun
<1>6. remote \subseteq ToSet(applied)
  <2>1. ~HasPendingWrites
    <3>1. executing # <<>>
      BY <1>2, EmptySeq
    <3> QED BY <3>1 DEF IInv, Ownership, BarrierHolds
  <2> QED BY <2>1, Waiting
<1>7. \A p \in Unrun' : p \in Unrun /\ ~(p < w)
  <2> TAKE p \in Unrun'
  <2>1. PICK j \in 1 .. Len(executing) : ~executing'[j].ran /\ p = executing'[j].write
    BY <1>3 DEF Unrun
  <2>2. ~executing[j].ran /\ j # i /\ p = executing[j].write
    BY <1>2, <1>3, <2>1
  <2>3. p \in Unrun
    BY <2>2 DEF Unrun
  <2>4. i < j
    <3>1. j \notin 1 .. i - 1
      BY <1>2, <2>2
    <3> QED BY <1>3, <2>2, <3>1
  <2>5. w < p /\ w \in Nat /\ p \in Nat
    <3> HIDE DEF sub
    <3>1. sub[i] < sub[j] /\ sub[i] = w /\ sub[j] = p
      BY <1>4, <2>2, <2>4 DEF Ascending
    <3>2. sub[i] \in Nat /\ sub[j] \in Nat
      BY <1>4
    <3> QED BY <3>1, <3>2
  <2> QED BY <2>3, <2>5
<1>8. \A p \in ToSet(saveQueue) : ~(p < w)
  <2> TAKE p \in ToSet(saveQueue)
  <2>1. w < p /\ w \in Nat /\ p \in Nat
    BY <1>4
  <2> QED BY <2>1
<1> HIDE DEF w, sub
<1>9. one \in Seq(Writes) /\ ToSet(one) = {w} /\ Ascending(one) /\ applied' = applied \o one
  <2>1. w \in Writes
    BY <1>2 DEF w
  <2> QED BY <1>2, <2>1, ElementsOfFew DEF w
<1> HIDE DEF one
<1>10. remote \ ToSet(applied') = {}
  BY <1>4, <1>6, <1>9, Joined
<1>11. Pending' \subseteq Pending /\ \A p \in Pending' : ~(p < w)
  BY <1>1, <1>7, <1>8, <1>10 DEF Pending
<1>12. \A a \in ToSet(applied) : w < a => Excused(w, a, remote, direct)
  BY <1>5 DEF Effects, Pending
<1>13. w \in 1 .. handed
  BY <1>4, <1>5
<1> QED BY <1>1, <1>9, <1>11, <1>12, <1>13, EffectsGrow

\* The flush at map end overtakes queries at the database thread.
LEMMA EffectsOfMapEnd ==
    ASSUME OutletAssumption, IInv, Reach, Effects, MapEnd
    PROVE  Effects'
<1> DEFINE q == saveQueue
<1>1. /\ saveQueue' = <<>> /\ ~HasPendingWrites /\ UNCHANGED <<handed, executing>>
      /\ \E ok \in SUBSET ToSet(q) : ExecuteSync(q, ok)
  BY Emptying DEF IInv
<1>2. /\ q \in Seq(Writes) /\ Ascending(q)
      /\ ToSet(q) \cup Unrun \subseteq (1 .. handed) \ remote
      /\ remote \subseteq ToSet(applied) /\ applied \in Seq(Writes)
  <2>1. Ascending(q)
    <3>1. Ascending(Submitted \o saveQueue)
      BY DEF IInv, Ownership, Numbered, Local
    <3>2. Submitted \in Seq(Nat) /\ saveQueue \in Seq(Nat)
      BY Holdings, Numbers DEF IInv
    <3> QED BY <3>1, <3>2, JoinedAscending
  <2> QED BY <1>1, <2>1, Waiting, Holdings DEF IInv
<1>3. Unrun' = Unrun /\ ToSet(saveQueue') = {}
  BY <1>1, ElementsOfFew DEF Unrun
<1>4. ToSet(q) \subseteq Pending
  BY DEF Pending
<1> HIDE DEF q
<1>5. PICK ok \in SUBSET ToSet(q) : ExecuteSync(q, ok)
  BY <1>1
<1>6. PICK ran \in Seq(Writes) :
        /\ applied' = applied \o ran /\ ToSet(ran) = ok \ ToSet(applied)
        /\ Ascending(ran) /\ direct' = direct \cup ToSet(ran) /\ remote' = remote
  BY <1>2, <1>5, Synchronous DEF IInv, Types
<1>7. ToSet(applied) \subseteq ToSet(applied')
  BY <1>2, <1>6, Joined
<1>8. Pending' \subseteq Pending /\ Pending' \cap remote = {}
  BY <1>2, <1>3, <1>6, <1>7 DEF Pending
<1>9. \A w \in Pending', a \in ToSet(ran) : Excused(w, a, remote, direct')
  BY <1>6, <1>8 DEF Excused
<1>10. ToSet(ran) \subseteq ToSet(q)
  BY <1>6
<1>11. \A w \in ToSet(ran), a \in ToSet(applied) : w < a => Excused(w, a, remote, direct)
  BY <1>4, <1>10 DEF Effects
<1>12. ToSet(ran) \subseteq 1 .. handed' /\ 1 .. handed \subseteq 1 .. handed'
  BY <1>1, <1>2, <1>10
<1> QED BY <1>6, <1>8, <1>9, <1>11, <1>12, EffectsGrow

\* The daemon executes the oldest write of a lane that it owes, and it owes every
\* remote write older than one it owes.
LEMMA EffectsOfDaemon ==
    ASSUME OutletAssumption, IInv, Accepted, Behind, Effects, DaemonExecutes
    PROVE  Effects'
<1>1. UNCHANGED <<handed, saveQueue, executing, remote, direct>>
  BY DEF DaemonExecutes, far, localVars
<1>2. PICK w \in Writes :
        /\ \E before, after \in Seq(Writes) :
              /\ owed = (before \o <<w>>) \o after
              /\ \A x \in ToSet(before) : LaneOf[x] # LaneOf[w]
        /\ \E ran \in Seq(Writes) :
              /\ applied' = applied \o ran
              /\ ToSet(ran) = {w} \ ToSet(applied) /\ Ascending(ran)
  <2>1. RestTyped /\ HistoryTyped
    BY DEF IInv, Types
  <2> QED BY <2>1, Executing
<1>3. PICK before, after \in Seq(Writes) :
        /\ owed = (before \o <<w>>) \o after
        /\ \A x \in ToSet(before) : LaneOf[x] # LaneOf[w]
  BY <1>2
<1>4. PICK ran \in Seq(Writes) :
        applied' = applied \o ran /\ ToSet(ran) = {w} \ ToSet(applied) /\ Ascending(ran)
  BY <1>2
<1> DEFINE one == <<w>>
           first == before \o one
<1>5. one \in Seq(Writes) /\ ToSet(one) = {w} /\ owed = first \o after
  BY <1>3, ElementsOfFew
<1> HIDE DEF one
<1>6. first \in Seq(Writes) /\ ToSet(first) = ToSet(before) \cup {w}
  BY <1>5, Joined
<1> HIDE DEF first
<1>7. ToSet(owed) = ToSet(before) \cup {w} \cup ToSet(after)
  <2>1. ToSet(first \o after) = ToSet(first) \cup ToSet(after)
    BY <1>6, Joined
  <2> QED BY <1>5, <1>6, <2>1
<1>8. \A x \in ToSet(after) : w < x /\ x \in Nat /\ w \in Nat
  <2>1. first \in Seq(Nat) /\ after \in Seq(Nat) /\ ToSet(first) \subseteq Nat
        /\ ToSet(after) \subseteq Nat
    BY <1>6, Numbers
  <2>2. Ascending(first \o after)
    BY <1>5 DEF Accepted
  <2>3. \A x \in ToSet(first), y \in ToSet(after) : x < y
    BY <2>1, <2>2, JoinedAscending
  <2> QED BY <1>6, <2>1, <2>3
<1>9. /\ w \in remote /\ \A r \in remote : r < w => r \in done \cup ToSet(owed)
  <2>1. NoGap(ToSet(owed) \cup done, done, remote)
    BY DEF Accepted
  <2> QED BY <1>7, <2>1 DEF NoGap
<1>10. /\ ToSet(saveQueue) \cup Unrun \subseteq (1 .. handed) \ remote
       /\ remote \subseteq 1 .. handed /\ applied \in Seq(Writes) /\ done \subseteq ToSet(applied)
       /\ Writes \subseteq Nat
  BY Waiting, Holdings DEF IInv
<1>11. \A p \in ToSet(saveQueue) \cup Unrun : ~(p < w)
  <2> TAKE p \in ToSet(saveQueue) \cup Unrun
  <2>1. p \in ToSet(Local)
    <3>1. Unrun \subseteq ToSet(Submitted)
      BY Waiting DEF Unrun
    <3> QED BY <3>1, Holdings DEF IInv
  <2>2. w < p /\ w \in Nat /\ p \in Nat
    BY <1>9, <1>10, <2>1 DEF Behind
  <2> QED BY <2>2
<1>12. ToSet(applied') = ToSet(applied) \cup ToSet(ran)
  BY <1>4, <1>10, Joined
<1>13. Unrun' = Unrun /\ ToSet(saveQueue') = ToSet(saveQueue)
  BY <1>1 DEF Unrun
<1>14. Pending' \subseteq Pending
  BY <1>1, <1>12, <1>13 DEF Pending
<1>15. \A p \in remote \ ToSet(applied') : p < w => Excused(p, w, remote, direct')
  <2> TAKE p \in remote \ ToSet(applied')
  <2> HAVE p < w
  <2>1. p \in ToSet(owed)
    BY <1>9, <1>10, <1>12
  <2>2. p # w /\ p \notin ToSet(after)
    <3>1. p \in Nat /\ w \in Nat
      BY <1>9, <1>10
    <3> QED BY <1>8, <3>1
  <2>3. LaneOf[p] # LaneOf[w]
    BY <1>3, <1>7, <2>1, <2>2
  <2> QED BY <1>9, <2>3 DEF Excused
<1>16. \A p \in Pending', a \in ToSet(ran) : p < a => Excused(p, a, remote, direct')
  BY <1>1, <1>4, <1>11, <1>13, <1>15 DEF Pending
<1>17. \A x \in ToSet(ran), a \in ToSet(applied) : x < a => Excused(x, a, remote, direct)
  BY <1>4, <1>9 DEF Effects, Pending
<1>18. ToSet(ran) \subseteq 1 .. handed'
  BY <1>1, <1>4, <1>9, <1>10
<1> QED BY <1>1, <1>4, <1>14, <1>16, <1>17, <1>18, EffectsGrow

LEMMA EffectsKept ==
    ASSUME OutletAssumption, IInv, Accepted, Reach, Behind, Effects, Next, ~unloaded'
    PROVE  Effects'
<1>1. CASE PumpTimer \/ DatabaseReady
  <2>1. /\ UNCHANGED <<handed, applied, remote, direct>>
        /\ PumpSaveQueue \/ UNCHANGED <<saveQueue, executing>>
    BY <1>1 DEF PumpTimer, DatabaseReady, history
  <2>2. ToSet(saveQueue') \cup Unrun' = ToSet(saveQueue) \cup Unrun
    BY <2>1, Pumping DEF IInv, Types, Unrun
  <2>3. Pending' \subseteq Pending
    BY <2>1, <2>2 DEF Pending
  <2> QED BY <2>1, <2>3, EffectsQuiet
<1>2. CASE SaveCallback
  <2>1. UNCHANGED <<handed, saveQueue, applied, remote, direct>>
    BY <1>2 DEF SaveCallback, history
  <2>2. /\ Len(executing') = Len(executing) - 1 /\ Len(executing) \in Nat
        /\ \A i \in 1 .. Len(executing') :
              i + 1 \in 1 .. Len(executing) /\ executing'[i] = executing[i + 1]
    BY <1>2, CallingBack DEF IInv, Types
  <2>3. Unrun' \subseteq Unrun
    BY <2>2 DEF Unrun
  <2>4. Pending' \subseteq Pending
    BY <2>1, <2>3 DEF Pending
  <2> QED BY <2>1, <2>4, EffectsQuiet
<1>3. CASE ExecuteAsyncFails
  <2>1. /\ UNCHANGED <<handed, applied, remote, direct, saveQueue>> /\ RunAsync(FALSE)
    BY <1>3 DEF ExecuteAsyncFails, RunAsync
  <2>2. /\ Len(executing') = Len(executing)
        /\ \A j \in 1 .. Len(executing) :
              /\ executing'[j].write = executing[j].write
              /\ executing[j].ran => executing'[j].ran
    BY <2>1, Running DEF IInv, Types
  <2>3. Unrun' \subseteq Unrun
    BY <2>2 DEF Unrun
  <2>4. Pending' \subseteq Pending
    BY <2>1, <2>3 DEF Pending
  <2> QED BY <2>1, <2>4, EffectsQuiet
<1>4. ASSUME UNCHANGED <<handed, applied, remote, direct, saveQueue, executing>>
      PROVE  Effects'
  <2>1. Pending' = Pending
    BY <1>4 DEF Pending, Unrun
  <2> QED BY <1>4, <2>1, EffectsQuiet
<1>5. CASE \/ ConnectSocket \/ ReconnectTimer \/ Timeout \/ EndpointChanged
           \/ DrainCommand \/ DatabaseLost
  BY <1>4, <1>5, SessionSteps DEF IInv, SameWrites
<1>6. CASE FlushSqlBatch
  BY <1>4, <1>6 DEF FlushSqlBatch, localVars, history
<1>7. ASSUME NEW s \in Sockets, SocketCallback(s)
      PROVE  Effects'
  BY <1>4, <1>7, CallbackSteps DEF IInv, history
<1>8. CASE Daemon /\ ~DaemonExecutes
  BY <1>4, <1>8, DaemonSteps DEF SameWrites
<1>9. ~PluginEnd
  BY DEF PluginEnd
<1>10. CASE Plugin
  BY <1>1, <1>2, <1>5, <1>6, <1>7, <1>9, <1>10, EffectsOfHandOver, EffectsOfMapEnd DEF Plugin
<1>11. CASE ExecuteAsync
  BY <1>11, EffectsOfQuery DEF ExecuteAsync
<1> QED BY <1>3, <1>8, <1>10, <1>11, EffectsOfDaemon DEF Next

LEMMA OrderInductive ==
    ASSUME OutletAssumption, IInv, OrderInv, [Next]_vars
    PROVE  OrderInv'
<1>1. CASE UNCHANGED vars
  <2>1. UNCHANGED <<unloaded, chan, owed, done, remote, inflight, queue, executing, saveQueue,
                    handed, applied, direct>>
    BY <1>1 DEF vars, outletVars, adminVars, localVars, daemonVars, history
  <2>2. /\ Under' = Under /\ Owned' = Owned /\ Local' = Local /\ Unrun' = Unrun
    BY <2>1 DEF Under, Owned, Local, Submitted, Unrun
  <2>3. Pending' = Pending
    BY <2>1, <2>2 DEF Pending
  <2> QED BY <2>1, <2>2, <2>3 DEF OrderInv, Accepted, Reach, Behind, Effects
<1>2. CASE Next /\ unloaded
  <2>1. unloaded'
    <3>1. CASE Plugin
      BY <1>2, <3>1, SessionSteps, CallbackSteps
         DEF Plugin, HandOver, PumpTimer, SaveCallback, DatabaseReady, MapEnd, FlushSqlBatch,
             PluginEnd, IInv, adminVars
    <3>2. CASE ExecuteAsync \/ ExecuteAsyncFails
      BY <1>2, <3>2 DEF ExecuteAsync, ExecuteAsyncFails, RunAsync, adminVars
    <3>3. CASE Daemon
      BY <1>2, <3>3, DaemonSteps DEF adminVars
    <3> QED BY <1>2, <3>1, <3>2, <3>3 DEF Next
  <2> QED BY <2>1 DEF OrderInv
<1>3. CASE Next /\ ~unloaded /\ ~unloaded'
  <2>1. Accepted /\ Reach /\ Behind /\ Effects
    BY <1>3 DEF OrderInv
  <2>2. Accepted' /\ Reach' /\ Behind' /\ Effects'
    BY <1>3, <2>1, AcceptedKept, ReachKept, BehindKept, EffectsKept
  <2> QED BY <2>2 DEF OrderInv
<1> QED BY <1>1, <1>2, <1>3 DEF OrderInv

LEMMA OrderInitially == Init => OrderInv
<1> SUFFICES ASSUME Init PROVE OrderInv
  OBVIOUS
<1>1. /\ saveQueue = <<>> /\ executing = <<>> /\ applied = <<>> /\ owed = <<>>
      /\ done = {} /\ remote = {}
  BY DEF Init
<1>2. Len(<<>>) = 0 /\ ToSet(<<>>) = {} /\ Ascending(<<>>)
  BY EmptySeq, ElementsOfFew
<1>3. Under = {}
  <2>1. \A s \in Sockets : Carried(chan[s]) = {}
    <3>1. Carried(Free) = {}
      BY <1>2 DEF Carried, Free, Hello
    <3> QED BY <3>1 DEF Init
  <2> QED BY <2>1 DEF Under
<1>4. Accepted
  BY <1>1, <1>2, <1>3 DEF Accepted, NoGap
<1>5. Reach /\ Behind
  BY <1>1 DEF Reach, Behind
<1>6. Effects
  <2>1. ToSet(applied) = {} /\ Len(applied) = 0
    BY <1>1, <1>2
  <2> QED BY <2>1 DEF Effects, InEffect
<1> QED BY <1>4, <1>5, <1>6 DEF OrderInv

LEMMA AlwaysInOrder == Spec => []OrderInv
<1>1. IInv /\ OrderInv /\ [Next]_vars => OrderInv'
  BY OrderInductive, OutletAssumption
<1> QED BY <1>1, OrderInitially, Always, PTL DEF Spec

-----------------------------------------------------------------------------
(* Theorems.                                                                 *)

\* While the outlet owns a write, no local query is at the database thread:
\* CanPumpLocalSaveQueue and RustHasLocalSaveWork exclude each other, through
\* every fault of a session, map end and reconfiguration of the endpoint.
THEOREM BarrierKept == Spec => []BarrierHolds
<1>1. IInv => BarrierHolds
  BY DEF IInv, Ownership
<1> QED BY <1>1, Always, PTL

OwnedInOrder == Ascending(Owned) /\ ToSet(Owned) \subseteq 1 .. handed

\* The batch in flight followed by the queue is numbered upwards at all times:
\* RustRequeueInflight puts unacknowledged writes in front of newer ones, so a
\* retried batch is never sent behind a write that was handed over after it.
THEOREM OutletOrder == Spec => []OwnedInOrder
<1>1. IInv => OwnedInOrder
  BY DEF IInv, Ownership, Numbered, OwnedInOrder
<1> QED BY <1>1, Always, PTL

LEMMA NoneForgotten ==
    ASSUME OutletAssumption, IInv
    PROVE  NoWriteForgotten
<1> DEFINE local == [i \in DOMAIN executing |-> executing[i].write]
           o == Owned
           q == saveQueue
           sub == Submitted
           held == ((inflight \o queue) \o saveQueue) \o local
<1>1. DOMAIN executing = 1 .. Len(executing)
  BY LenProperties DEF IInv, Types, LocalTyped
<1>2. held = (o \o q) \o sub
  BY <1>1 DEF Owned, Submitted
<1>3. /\ o \in Seq(Writes) /\ q \in Seq(Writes) /\ sub \in Seq(Writes)
      /\ ToSet(Local) = ToSet(sub) \cup ToSet(q) /\ Writes \subseteq Nat
  BY Holdings DEF IInv
<1>4. o \in Seq(Nat) /\ q \in Seq(Nat) /\ sub \in Seq(Nat)
      /\ ToSet(q) \subseteq Nat /\ ToSet(sub) \subseteq Nat
  BY <1>3, Numbers
<1>5. /\ Ascending(o) /\ ToSet(o) \subseteq remote
      /\ ToSet(Local) \cap remote = {}
      /\ 1 .. handed \subseteq ToSet(o) \cup ToSet(Local) \cup ToSet(applied) \cup dropped
      /\ dropped \cap remote # {} => unloaded
  BY DEF IInv, Ownership, Numbered, Ended
<1>6. Ascending(sub) /\ \A x \in ToSet(sub), y \in ToSet(q) : x < y
  BY Waiting
<1>7. Ascending(q)
  <2>1. Ascending(Submitted \o saveQueue)
    BY DEF IInv, Ownership, Numbered, Local
  <2> QED BY <1>4, <2>1, JoinedAscending
<1> HIDE DEF o, q, sub, held
<1>8. Distinct(o) /\ Distinct(q) /\ Distinct(sub)
  BY <1>4, <1>5, <1>6, <1>7, AscendingDistinct
<1> DEFINE front == o \o q
<1>9. /\ front \in Seq(Writes) /\ ToSet(front) = ToSet(o) \cup ToSet(q) /\ Distinct(front)
  <2>1. ToSet(o) \cap ToSet(q) = {}
    BY <1>3, <1>5
  <2> QED BY <1>3, <1>8, <2>1, Joined, JoinedDistinct
<1>10. held = front \o sub
  BY <1>2
<1> HIDE DEF front
<1>11. ToSet(front) \cap ToSet(sub) = {}
  <2>1. ToSet(o) \cap ToSet(sub) = {}
    BY <1>3, <1>5
  <2>2. ToSet(q) \cap ToSet(sub) = {}
    <3> SUFFICES ASSUME NEW x \in ToSet(q), x \in ToSet(sub) PROVE FALSE
      OBVIOUS
    <3>1. x < x /\ x \in Nat
      BY <1>4, <1>6
    <3> QED BY <3>1
  <2> QED BY <1>9, <2>1, <2>2
<1>12. Distinct(held)
  BY <1>3, <1>8, <1>9, <1>10, <1>11, JoinedDistinct
<1>13. /\ held \in Seq(Writes) /\ ToSet(held) = ToSet(front) \cup ToSet(sub)
  BY <1>3, <1>9, <1>10, Joined
<1>14. DOMAIN held = 1 .. Len(held)
  BY <1>13, LenProperties
<1>15. /\ \A i, j \in DOMAIN held : held[i] = held[j] => i = j
       /\ 1 .. handed \subseteq ToSet(held) \cup ToSet(applied) \cup dropped
       /\ dropped \cap remote # {} => unloaded
  BY <1>3, <1>5, <1>9, <1>12, <1>13, <1>14 DEF Distinct
<1> QED BY <1>15 DEF NoWriteForgotten, held

\* Every write handed over has one owner (the batch in flight, the outlet's queue,
\* the save queue or a query at the database thread), or it has taken effect, or
\* the local path reported its failure: sessions that fault, answers to batches
\* given up, reconnects and the move of writes between the places lose none and
\* copy none, and a write the outlet took fails only when the plugin is unloaded.
THEOREM NothingForgotten == Spec => []NoWriteForgotten
<1>1. IInv => NoWriteForgotten
  BY NoneForgotten, OutletAssumption
<1> QED BY <1>1, Always, PTL

\* Writes take effect in the order they were handed over, across the outlet, the
\* daemon's lanes, the asynchronous queries and the synchronous connection, but
\* for the two exceptions OrderKept names.
THEOREM EffectsInOrder == Spec => []OrderKept
<1>1. IInv /\ OrderInv => OrderKept
  <2> SUFFICES ASSUME IInv, OrderInv, ~unloaded
               PROVE  \A i, j \in DOMAIN applied :
                         (i < j /\ applied[j] < applied[i]) =>
                            \/ /\ {applied[i], applied[j]} \subseteq remote
                               /\ LaneOf[applied[i]] # LaneOf[applied[j]]
                            \/ applied[i] \in direct /\ applied[j] \notin remote
    BY DEF OrderKept
  <2>1. DOMAIN applied = 1 .. Len(applied)
    BY LenProperties DEF IInv, Types, HistoryTyped
  <2>2. InEffect(applied, remote, direct)
    BY DEF OrderInv, Effects
  <2> QED BY <2>1, <2>2 DEF InEffect, Excused
<1> QED BY <1>1, Always, AlwaysInOrder, PTL
=============================================================================

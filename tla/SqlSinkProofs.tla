--------------------------- MODULE SqlSinkProofs ---------------------------
(***************************************************************************)
(* What the sink promises, for every set of events, lanes and connections, *)
(* every capacity, window and batch size, and any number of crashes: it is *)
(* well typed; the ACK of a batch implies that every event of the batch is *)
(* executed and durably marked; permits follow jobs; the file and the      *)
(* queues agree on what is owed; the replay is never refused; what is      *)
(* complete does not run again while the window has room; and the whole    *)
(* implements the queue per lane of module DurableQueue.                   *)
(*                                                                         *)
(* The invariant is SinkInv, the conjunction of four: Shape (types and who *)
(* may be where), Promise (what holds of an event at each stage), Table    *)
(* (who owns an id, and the admission table as in AdmissionProofs), Files  *)
(* (what the journal holds while it is written, and against the queues).   *)
(* Each is kept by every step; each later one uses those before it.        *)
(***************************************************************************)
EXTENDS SqlSink, SelectionProofs

----------------------------------------------------------------------------
(* Sequences and the sets of their elements                                *)

LEMMA ToSetFacts ==
    ASSUME NEW S, NEW s \in Seq(S)
    PROVE  /\ ToSet(s) \subseteq S
           /\ \A e : ToSet(Append(s, e)) = ToSet(s) \cup {e}
           /\ s # <<>> => /\ ToSet(s) = {Head(s)} \cup ToSet(Tail(s))
                          /\ Head(s) \in S
                          /\ Tail(s) \in Seq(S)
           /\ \A k \in 1 .. Len(s) : s[k] \in ToSet(s)
<1>1. ToSet(s) \subseteq S /\ \A k \in 1 .. Len(s) : s[k] \in ToSet(s)
  BY LenProperties DEF ToSet
<1>2. \A e : ToSet(Append(s, e)) = ToSet(s) \cup {e}
  <2> TAKE e
  <2>1. DOMAIN Append(s, e) = 1 .. Len(s) + 1 /\ DOMAIN s = 1 .. Len(s)
    BY LenProperties
  <2>2. \A k \in 1 .. Len(s) : Append(s, e)[k] = s[k]
    BY LenProperties
  <2>3. Append(s, e)[Len(s) + 1] = e /\ Len(s) \in Nat
    BY LenProperties
  <2>4. 1 .. Len(s) + 1 = (1 .. Len(s)) \cup {Len(s) + 1}
    BY <2>3
  <2> QED
    BY <2>1, <2>2, <2>3, <2>4 DEF ToSet
<1>3. ASSUME s # <<>>
      PROVE  /\ ToSet(s) = {Head(s)} \cup ToSet(Tail(s))
             /\ Head(s) \in S
             /\ Tail(s) \in Seq(S)
  <2>1. /\ Head(s) \in S
        /\ Tail(s) \in Seq(S)
        /\ Len(Tail(s)) = Len(s) - 1
        /\ \A k \in 1 .. Len(Tail(s)) : Tail(s)[k] = s[k + 1]
    BY <1>3, HeadTailProperties
  <2>2. Len(s) \in Nat \ {0} /\ Head(s) = s[1]
    BY <1>3, EmptySeq
  <2>3. DOMAIN s = 1 .. Len(s) /\ DOMAIN Tail(s) = 1 .. Len(s) - 1
    BY <2>1, LenProperties
  <2>4. \A k \in 2 .. Len(s) : k - 1 \in 1 .. Len(s) - 1 /\ s[k] = Tail(s)[k - 1]
    BY <2>1, <2>2
  <2>5. \A k \in 1 .. Len(s) : k = 1 \/ k \in 2 .. Len(s)
    BY <2>2
  <2>6. ToSet(s) \subseteq {Head(s)} \cup ToSet(Tail(s))
    BY <2>2, <2>3, <2>4, <2>5 DEF ToSet
  <2>7. {Head(s)} \cup ToSet(Tail(s)) \subseteq ToSet(s)
    BY <2>1, <2>2, <2>3 DEF ToSet
  <2> QED
    BY <2>1, <2>6, <2>7
<1> QED
  BY <1>1, <1>2, <1>3

LEMMA TailNotEmpty ==
    ASSUME NEW S, NEW s \in Seq(S), s # <<>>, Len(s) # 1
    PROVE  Tail(s) # <<>>
<1>1. Len(s) \in Nat \ {0} /\ Len(Tail(s)) = Len(s) - 1
  BY EmptySeq, HeadTailProperties
<1>2. Len(Tail(s)) # 0
  BY <1>1
<1>3. Len(<<>>) = 0
  BY EmptySeq
<1> QED
  BY <1>2, <1>3, Zenon

\* A job of a sequence of jobs carries an event id.
LEMMA JobFacts ==
    ASSUME NEW s \in Seq(Job)
    PROVE  /\ \A k \in 1 .. Len(s) : s[k] \in Job /\ s[k].id \in Ids
           /\ s # <<>> => Head(s) \in Job /\ Head(s).id \in Ids
<1>1. \A j \in Job : j.id \in Ids
  BY DEF Job
<1>2. \A k \in 1 .. Len(s) : s[k] \in Job
  BY LenProperties
<1>3. s # <<>> => Head(s) \in Job
  BY ToSetFacts
<1> QED
  BY <1>1, <1>2, <1>3

\* The window of completed ids: typed, and only the new id is new in it.
LEMMA RememberFacts ==
    ASSUME NEW w \in Seq(Ids), NEW i \in Ids
    PROVE  /\ RememberId(w, i) \in Seq(Ids)
           /\ ToSet(RememberId(w, i)) \subseteq ToSet(w) \cup {i}
<1> DEFINE longer == Append(w, i)
<1>1. longer \in Seq(Ids) /\ longer # <<>>
  BY LenProperties
<1>2. ToSet(longer) = ToSet(w) \cup {i}
  BY ToSetFacts
<1>3. \A x \in Seq(Ids) : x # <<>> => /\ Tail(x) \in Seq(Ids)
                                     /\ ToSet(Tail(x)) \subseteq ToSet(x)
  BY ToSetFacts
<1>4. RememberId(w, i) \in {w, longer, Tail(longer)}
  BY DEF RememberId
<1> HIDE DEF longer
<1> QED
  BY <1>1, <1>2, <1>3, <1>4

\* A line keeps the journal typed; a completion line adds its id to the window
\* at most, a pending line leaves the window alone.
LEMMA LineFacts ==
    ASSUME NEW d \in Disk, NEW i \in Ids
    PROVE  /\ PutPending(d, i) \in Disk
           /\ PutPending(d, i).done = d.done
           /\ PutDone(d, i) \in Disk
           /\ ToSet(PutDone(d, i).done) \subseteq ToSet(d.done) \cup {i}
<1>1. d.pend \in Seq(Ids) /\ d.done \in Seq(Ids)
  BY DEF Disk
<1>2. PutPending(d, i) \in Disk /\ PutPending(d, i).done = d.done
  BY <1>1 DEF PutPending, Disk
<1>3. Without(d.pend, i) \in Seq(Ids)
  <2>1. CASE i \in ToSet(d.pend)
    <3> DEFINE k == CHOOSE x \in DOMAIN d.pend : d.pend[x] = i
    <3>1. k \in 1 .. Len(d.pend)
      BY <1>1, <2>1, LenProperties DEF ToSet
    <3>2. SubSeq(d.pend, 1, k - 1) \in Seq(Ids)
          /\ SubSeq(d.pend, k + 1, Len(d.pend)) \in Seq(Ids)
      <4> HIDE DEF k
      <4>1. Len(d.pend) \in Nat /\ \A x \in 1 .. Len(d.pend) : d.pend[x] \in Ids
        BY <1>1, LenProperties
      <4> QED
        BY <1>1, <3>1, <4>1, SubSeqProperties
    <3>3. Without(d.pend, i) = RemoveAt(d.pend, k)
      BY <2>1 DEF Without
    <3> HIDE DEF k
    <3> QED
      BY <3>2, <3>3, ConcatProperties DEF RemoveAt
  <2>2. CASE i \notin ToSet(d.pend)
    BY <1>1, <2>2 DEF Without
  <2> QED
    BY <2>1, <2>2
<1>4. RememberId(d.done, i) \in Seq(Ids)
      /\ ToSet(RememberId(d.done, i)) \subseteq ToSet(d.done) \cup {i}
  BY <1>1, RememberFacts
<1>5. PutDone(d, i) \in Disk /\ PutDone(d, i).done = RememberId(d.done, i)
  BY <1>3, <1>4 DEF PutDone, Disk
<1> QED
  BY <1>2, <1>4, <1>5

----------------------------------------------------------------------------
(* Shape: who may be where at the same time                                *)

\* The journal mutex is held by a thread that is in the middle of an append.
Journalling ==
    /\ jrnl.holder = "none" => jrnl.n = 0
    /\ jrnl.holder = "pub" => pub.stage = "append" /\ jrnl.n < Len(pub.kept)
    /\ \A l \in Lanes : jrnl.holder = l =>
          stage[l] = "confirm" /\ jrnl.n < Len(committed[l])

\* A worker that executes has a head job, one that confirms has jobs to confirm.
Working ==
    \A l \in Lanes :
        /\ stage[l] = "execute" => batch[l] # <<>>
        /\ stage[l] \in {"confirm", "remember", "finish", "retire"}
             => committed[l] # <<>>

\* The handler that holds the publication mutex waits for nothing else.
Publishing ==
    /\ pub.stage \in {"append", "undo"} => pub.who \in Conns
    /\ pub.stage # "free" /\ pub.who \in Conns
         => conn[pub.who].st = "publishing"
    /\ pub.stage = "push" => pub.tok \in Tokens
    /\ \A c \in Conns : conn[c].st = "waiting" => conn[c].tok \in Tokens

\* Until the replay is complete there are no workers, appends or clients.
Stopped ==
    ~up => /\ jrnl.holder = "none"
           /\ \A l \in Lanes : stage[l] = "take"
           /\ \A c \in Conns : conn[c].st = "idle"

Shape == TypeOK /\ Journalling /\ Working /\ Publishing /\ Stopped

LEMMA InitShape == Init => Shape
<1> SUFFICES ASSUME Init PROVE Shape
  OBVIOUS
<1>1. TypeOK
  <2>1. disk \in Disk /\ jrnl \in AppendState
    BY DEF Init, Disk, Idle, AppendState
  <2>2. pub \in PubState
    BY DEF Init, Offline, PubState, PubStages
  <2>3. conn \in [Conns -> ConnState]
    BY DEF Init, Quiet, ConnState
  <2>4. /\ queue \in [Lanes -> Seq(Job)]
        /\ batch \in [Lanes -> Seq(Job)]
        /\ committed \in [Lanes -> Seq(Job)]
    BY EmptySeq DEF Init
  <2>5. /\ stage \in [Lanes -> WorkerStages]
        /\ left \in [Tokens -> SUBSET Ids]
        /\ dedupe \in Seq(Ids)
    BY DEF Init, WorkerStages
  <2> QED
    BY <2>1, <2>2, <2>3, <2>4, <2>5 DEF Init, TypeOK
<1> QED
  BY <1>1, SqlSinkAssumption
     DEF Init, Shape, Journalling, Working, Publishing, Stopped, Idle, Offline,
         Quiet

\* The actions of a handler change its connection and take the free mutex.
LEMMA HandlerShape ==
    ASSUME Shape, NEW c \in Conns, Handler(c)
    PROVE  Shape'
<1> USE DEF Shape, diskVars, admVars, laneVars, histVars
<1>1. CASE \E b \in Batches : Receive(c, b)
  <2>1. PICK b \in Batches : Receive(c, b)
    BY <1>1
  <2>2. b \in Seq(Ids)
    BY SqlSinkAssumption
  <2>3. TypeOK'
    BY <2>1, <2>2 DEF TypeOK, ConnState, Receive
  <2> QED
    BY <2>1, <2>3 DEF Receive, TypeOK, Journalling, Working, Publishing, Stopped
<1>2. CASE BeginPublish(c)
  <2>1. TypeOK'
    <3>1. pub' \in PubState
      <4>1. pub' = [stage |-> "filter", who |-> c, todo |-> conn[c].ids,
                    kept |-> <<>>, tok |-> NoToken]
        BY <1>2 DEF BeginPublish, Offline
      <4>2. conn[c].ids \in Seq(Ids)
        BY DEF TypeOK, ConnState
      <4> QED
        BY <4>1, <4>2 DEF PubState, PubStages
    <3>2. conn' \in [Conns -> ConnState]
      BY <1>2 DEF TypeOK, BeginPublish, ConnState
    <3> QED
      BY <1>2, <3>1, <3>2 DEF TypeOK, BeginPublish
  <2> QED
    BY <1>2, <2>1 DEF BeginPublish, TypeOK, Journalling, Working, Publishing,
                      Stopped, Offline
<1>3. CASE Acknowledge(c)
  <2>1. TypeOK'
    BY <1>3 DEF TypeOK, ConnState, Acknowledge, Reply, Quiet
  <2> QED
    BY <1>3, <2>1 DEF Acknowledge, Reply, Quiet, TypeOK, Journalling, Working,
                      Publishing, Stopped
<1>4. CASE GiveUp(c)
  <2>1. TypeOK'
    BY <1>4 DEF TypeOK, ConnState, GiveUp, Reply, Quiet
  <2> QED
    BY <1>4, <2>1 DEF GiveUp, Reply, Quiet, TypeOK, Journalling, Working,
                      Publishing, Stopped
<1> QED
  BY <1>1, <1>2, <1>3, <1>4 DEF Handler

\* FilterOne and the steps that reserve: the batch moves from todo to kept.
LEMMA FilterShape ==
    ASSUME Shape,
           FilterOne \/ ReserveBatch \/ RefuseBatch \/ ReserveReplay
             \/ AcceptNothing
    PROVE  Shape'
<1> USE DEF Shape, diskVars, admVars, laneVars, histVars
<1>1. CASE FilterOne
  <2>1. Head(pub.todo) \in Ids /\ Tail(pub.todo) \in Seq(Ids)
    BY <1>1, ToSetFacts DEF FilterOne, TypeOK, PubState
  <2>2. pub' \in PubState
    <3>1. Append(pub.kept, Head(pub.todo)) \in Seq(Ids) /\ pub.kept \in Seq(Ids)
      BY <2>1 DEF TypeOK, PubState
    <3>2. PICK s \in Seq(Ids) : pub' = [pub EXCEPT !.todo = Tail(@), !.kept = s]
      <4>1. CASE Head(pub.todo) \in ToSet(dedupe)
        BY <1>1, <3>1, <4>1 DEF FilterOne, TypeOK, PubState
      <4>2. CASE Head(pub.todo) \notin ToSet(dedupe)
        BY <1>1, <3>1, <4>2 DEF FilterOne, TypeOK, PubState
      <4> QED
        BY <4>1, <4>2
    <3> QED
      BY <2>1, <3>2 DEF TypeOK, PubState
  <2>3. TypeOK'
    BY <1>1, <2>2 DEF FilterOne, TypeOK
  <2> QED
    BY <1>1, <2>3 DEF FilterOne, TypeOK, PubState, Journalling, Working,
                      Publishing, Stopped
<1>2. CASE ReserveBatch
  <2>1. ToSet(pub.kept) \subseteq Ids
    BY ToSetFacts DEF TypeOK, PubState
  <2>2. pub' \in PubState
    BY <1>2 DEF ReserveBatch, TypeOK, PubState, PubStages
  <2>3. TypeOK'
    BY <1>2, <2>1, <2>2 DEF ReserveBatch, ReserveKept, TypeOK
  <2> QED
    BY <1>2, <2>3 DEF ReserveBatch, ReserveKept, TypeOK, PubState, Journalling,
                      Working, Publishing, Stopped
<1>3. CASE RefuseBatch
  <2>1. pub' \in PubState /\ conn' \in [Conns -> ConnState]
    BY <1>3 DEF RefuseBatch, Reply, Quiet, ReleaseMutex, Offline, TypeOK,
                PubState, PubStages, ConnState
  <2>2. TypeOK'
    BY <1>3, <2>1 DEF RefuseBatch, TypeOK
  <2> QED
    BY <1>3, <2>2 DEF RefuseBatch, Reply, Quiet, ReleaseMutex, Offline, TypeOK,
                      Journalling, Working, Publishing, Stopped
<1>4. ASSUME pub.stage \in {"filter", "append"}, pub.kept \in Seq(Ids), Accepted
      PROVE  /\ pub' \in PubState
             /\ left' \in [Tokens -> SUBSET Ids]
             /\ pub'.stage = "push" /\ pub'.who = pub.who /\ pub'.tok \in Tokens
  <2>1. PICK t \in Tokens :
          /\ left' = [left EXCEPT ![t] = ToSet(pub.kept)]
          /\ pub' = [pub EXCEPT !.stage = "push", !.todo = pub.kept, !.tok = t]
    BY <1>4 DEF Accepted, FreeTokens
  <2>2. ToSet(pub.kept) \subseteq Ids
    BY <1>4, ToSetFacts
  <2> QED
    BY <1>4, <2>1, <2>2 DEF TypeOK, PubState, PubStages
<1>5. CASE ReserveReplay
  <2>1. ToSet(pub.kept) \subseteq Ids /\ pub.kept \in Seq(Ids)
    BY ToSetFacts DEF TypeOK, PubState
  <2>2. TypeOK'
    BY <1>4, <1>5, <2>1 DEF ReserveReplay, ReserveKept, TypeOK
  <2> QED
    BY <1>4, <1>5, <2>1, <2>2, SqlSinkAssumption
       DEF ReserveReplay, ReserveKept, TypeOK, Journalling, Working, Publishing,
           Stopped
<1>6. CASE AcceptNothing
  <2>1. pub.kept \in Seq(Ids) /\ Len(pub.kept) = 0
    BY <1>6, EmptySeq DEF AcceptNothing, TypeOK, PubState
  <2>2. TypeOK'
    BY <1>4, <1>6, <2>1 DEF AcceptNothing, TypeOK
  <2> QED
    BY <1>4, <1>6, <2>1, <2>2
       DEF AcceptNothing, TypeOK, AppendState, Journalling, Working, Publishing,
           Stopped
<1> QED
  BY <1>1, <1>2, <1>3, <1>5, <1>6

\* One more line of an append, or its rollback, keeps the journal typed.
LEMMA AppendTyped ==
    ASSUME TypeOK, NEW who \in Lanes \cup {"pub"}
    PROVE  /\ Stable \in Disk
           /\ \A d \in Disk, last \in BOOLEAN :
                WriteLine(who, d, last)
                  => /\ disk' \in Disk
                     /\ jrnl' \in AppendState
                     /\ jrnl' = IF last THEN Idle
                                ELSE [holder |-> who, before |-> Stable,
                                      n |-> jrnl.n + 1]
           /\ RollBack(who)
                => disk' \in Disk /\ jrnl' \in AppendState /\ jrnl' = Idle
<1>1. Stable \in Disk
  BY DEF TypeOK, Stable, AppendState
<1>2. Idle \in AppendState
  BY DEF Idle, AppendState, Disk
<1>3. [holder |-> who, before |-> Stable, n |-> jrnl.n + 1] \in AppendState
  BY <1>1 DEF TypeOK, AppendState
<1> QED
  BY <1>1, <1>2, <1>3 DEF WriteLine, RollBack

\* Journalling a batch, or giving it up.
LEMMA AppendShape ==
    ASSUME Shape,
           WritePending \/ WritePendingFails \/ UndoOne \/ RefuseUnjournalled
    PROVE  Shape'
<1> USE DEF Shape, diskVars, admVars, laneVars, histVars
<1>0. pub \in PubState /\ pub.kept \in Seq(Ids) /\ pub.todo \in Seq(Ids)
  BY DEF TypeOK, PubState
<1>1. CASE WritePending
  <2> DEFINE last == jrnl.n + 1 = Len(pub.kept)
             d == PutPending(disk, pub.kept[jrnl.n + 1])
  <2>1. WriteLine("pub", d, last)
    BY <1>1 DEF WritePending
  <2>2. jrnl.n \in Nat /\ Len(pub.kept) \in Nat \ {0}
    BY <1>0, <1>1, EmptySeq DEF WritePending, TypeOK, AppendState
  <2>3. jrnl.n < Len(pub.kept)
    BY <1>1, <2>1, <2>2 DEF WriteLine, Journalling
  <2>4. d \in Disk
    <3>1. pub.kept[jrnl.n + 1] \in Ids
      BY <1>0, <2>2, <2>3, LenProperties
    <3> QED
      BY <3>1, LineFacts DEF TypeOK
  <2>5. /\ disk' \in Disk
        /\ jrnl' \in AppendState
        /\ jrnl' = IF last THEN Idle
                   ELSE [holder |-> "pub", before |-> Stable, n |-> jrnl.n + 1]
    <3> HIDE DEF d
    <3> QED
      BY <2>1, <2>4, AppendTyped
  <2>6. CASE last
    <3>1. Accepted
      BY <1>1, <2>6 DEF WritePending
    <3>2. PICK t \in Tokens :
            /\ left' = [left EXCEPT ![t] = ToSet(pub.kept)]
            /\ pub' = [pub EXCEPT !.stage = "push", !.todo = pub.kept, !.tok = t]
      BY <3>1 DEF Accepted, FreeTokens
    <3>3. ToSet(pub.kept) \subseteq Ids
      BY <1>0, ToSetFacts
    <3>4. pub' \in PubState /\ left' \in [Tokens -> SUBSET Ids]
      BY <1>0, <3>2, <3>3 DEF TypeOK, PubState, PubStages
    <3>5. TypeOK'
      BY <1>1, <2>5, <3>4 DEF WritePending, TypeOK
    <3> QED
      BY <1>0, <1>1, <2>5, <2>6, <3>2, <3>5, SqlSinkAssumption
         DEF WritePending, PubState, Journalling, Working, Publishing, Stopped,
             Idle
  <2>7. CASE ~last
    <3>1. UNCHANGED <<pub, left>>
      BY <1>1, <2>7 DEF WritePending
    <3>2. TypeOK'
      BY <1>1, <2>5, <3>1 DEF WritePending, TypeOK
    <3>3. jrnl'.holder = "pub" /\ jrnl'.n = jrnl.n + 1 /\ jrnl.n + 1 < Len(pub.kept)
      BY <2>2, <2>3, <2>5, <2>7
    <3>4. Stopped'
      BY <1>1, <3>1 DEF WritePending, Stopped, Publishing
    <3> QED
      BY <1>1, <3>1, <3>2, <3>3, <3>4, SqlSinkAssumption
         DEF WritePending, Journalling, Working, Publishing
  <2> QED
    BY <2>6, <2>7
<1>2. CASE WritePendingFails
  <2>1. disk' \in Disk /\ jrnl' \in AppendState /\ jrnl' = Idle
    BY <1>2, AppendTyped DEF WritePendingFails
  <2>2. pub' \in PubState
    BY <1>0, <1>2 DEF WritePendingFails, PubState, PubStages
  <2>3. TypeOK'
    BY <1>2, <2>1, <2>2 DEF WritePendingFails, TypeOK
  <2> QED
    BY <1>0, <1>2, <2>1, <2>3, SqlSinkAssumption
       DEF WritePendingFails, PubState, Journalling, Working, Publishing,
           Stopped, Idle
<1>3. CASE UndoOne
  <2>1. Tail(pub.todo) \in Seq(Ids)
    BY <1>0, <1>3, ToSetFacts DEF UndoOne
  <2>2. pub' \in PubState
    BY <1>0, <1>3, <2>1 DEF UndoOne, PubState
  <2>3. TypeOK'
    BY <1>3, <2>2 DEF UndoOne, TypeOK
  <2> QED
    BY <1>0, <1>3, <2>3
       DEF UndoOne, PubState, Journalling, Working, Publishing, Stopped
<1>4. CASE RefuseUnjournalled
  <2>1. pub' \in PubState /\ conn' \in [Conns -> ConnState]
    BY <1>4 DEF RefuseUnjournalled, Reply, Quiet, ReleaseMutex, Offline, TypeOK,
                PubState, PubStages, ConnState
  <2>2. TypeOK'
    BY <1>4, <2>1 DEF RefuseUnjournalled, TypeOK
  <2> QED
    BY <1>4, <2>2 DEF RefuseUnjournalled, Reply, Quiet, ReleaseMutex, Offline,
                      TypeOK, Journalling, Working, Publishing, Stopped
<1> QED
  BY <1>1, <1>2, <1>3, <1>4

\* Handing the jobs of a batch to the workers.
LEMMA PushShape ==
    ASSUME Shape, PushOne \/ Published \/ Start
    PROVE  Shape'
<1> USE DEF Shape, diskVars, admVars, laneVars, histVars
<1>0. pub \in PubState /\ pub.todo \in Seq(Ids)
  BY DEF TypeOK, PubState
<1>1. CASE PushOne
  <2> DEFINE i == Head(pub.todo)
             job == [id |-> i, tok |-> pub.tok]
  <2>1. i \in Ids /\ Tail(pub.todo) \in Seq(Ids)
    BY <1>0, <1>1, ToSetFacts DEF PushOne
  <2>2. LaneOf[i] \in Lanes /\ job \in Job
    BY <1>1, <2>1, SqlSinkAssumption DEF PushOne, Publishing, Job
  <2>3. queue' = [queue EXCEPT ![LaneOf[i]] = Append(@, job)]
    BY <1>1 DEF PushOne
  <2>4. queue' \in [Lanes -> Seq(Job)]
    <3> HIDE DEF i, job
    <3> QED
      BY <2>2, <2>3 DEF TypeOK
  <2>5. pub' \in PubState
    BY <1>0, <1>1, <2>1 DEF PushOne, PubState
  <2>6. TypeOK'
    BY <1>1, <2>4, <2>5 DEF PushOne, TypeOK
  <2> QED
    BY <1>0, <1>1, <2>6
       DEF PushOne, PubState, Journalling, Working, Publishing, Stopped
<1>2. CASE Published
  <2>1. pub' \in PubState
    BY <1>2 DEF Published, ReleaseMutex, Offline, PubState, PubStages
  <2>2. conn' \in [Conns -> ConnState]
    <3>1. /\ pub.who \in Conns /\ pub.tok \in Tokens \cup {NoToken}
          /\ conn[pub.who] \in ConnState
      BY <1>0, <1>2 DEF Published, TypeOK, PubState
    <3>2. conn' = [conn EXCEPT ![pub.who] = [@ EXCEPT !.st = "waiting", !.tok = pub.tok]]
      BY <1>2 DEF Published
    <3>3. [conn[pub.who] EXCEPT !.st = "waiting", !.tok = pub.tok] \in ConnState
      BY <3>1 DEF ConnState
    <3> QED
      BY <3>1, <3>2, <3>3 DEF TypeOK
  <2>3. stage' \in [Lanes -> WorkerStages]
    BY <1>2 DEF Published, TypeOK, WorkerStages
  <2>4. TypeOK'
    BY <1>2, <2>1, <2>2, <2>3 DEF Published, TypeOK
  <2> QED
    BY <1>2, <2>4
       DEF Published, ReleaseMutex, Offline, TypeOK, ConnState, Journalling,
           Working, Publishing, Stopped
<1>3. CASE Start
  <2>1. pub' \in PubState
    BY <1>3 DEF Start, ReleaseMutex, Offline, PubState, PubStages
  <2>2. TypeOK'
    BY <1>3, <2>1 DEF Start, TypeOK
  <2> QED
    BY <1>3, <2>2
       DEF Start, ReleaseMutex, Offline, Journalling, Working, Publishing, Stopped
<1> QED
  BY <1>1, <1>2, <1>3

\* Taking and executing jobs.
LEMMA ExecuteShape ==
    ASSUME Shape, NEW l \in Lanes,
           Sleep(l) \/ TakeBatch(l) \/ Execute(l) \/ ExecuteFails(l)
             \/ ExecuteUnknown(l)
    PROVE  Shape'
<1> USE DEF Shape, diskVars, admVars, laneVars, histVars
<1>0. /\ queue[l] \in Seq(Job) /\ batch[l] \in Seq(Job)
      /\ committed[l] \in Seq(Job)
  BY DEF TypeOK
<1>1. CASE Sleep(l)
  <2>1. TypeOK'
    BY <1>1 DEF Sleep, TypeOK, WorkerStages
  <2> QED
    BY <1>1, <2>1 DEF Sleep, TypeOK, Journalling, Working, Publishing, Stopped
<1>2. CASE TakeBatch(l)
  <2> DEFINE n == Min2(Len(queue[l]), MaxBatchRows)
  <2>1. n \in 1 .. Len(queue[l])
    BY <1>0, <1>2, SqlSinkAssumption, EmptySeq DEF TakeBatch, Min2
  <2>2. \A k \in 1 .. Len(queue[l]) : queue[l][k] \in Job
    BY <1>0, LenProperties
  <2>3. Len(queue[l]) \in Nat
    BY <1>0, LenProperties
  <2>4. /\ SubSeq(queue[l], 1, n) \in Seq(Job)
        /\ Len(SubSeq(queue[l], 1, n)) = n
        /\ SubSeq(queue[l], n + 1, Len(queue[l])) \in Seq(Job)
    <3> HIDE DEF n
    <3> QED
      BY <2>1, <2>2, <2>3, SubSeqProperties
  <2>5. /\ batch' = [batch EXCEPT ![l] = SubSeq(queue[l], 1, n)]
        /\ queue' = [queue EXCEPT ![l] = SubSeq(@, n + 1, Len(@))]
        /\ stage' = [stage EXCEPT ![l] = "execute"]
    BY <1>2 DEF TakeBatch
  <2> HIDE DEF n
  <2>6. SubSeq(queue[l], 1, n) # <<>>
    BY <2>1, <2>4, EmptySeq
  <2>7. TypeOK'
    <3>1. batch' \in [Lanes -> Seq(Job)] /\ queue' \in [Lanes -> Seq(Job)]
      BY <2>4, <2>5 DEF TypeOK
    <3>2. stage' \in [Lanes -> WorkerStages]
      BY <2>5 DEF TypeOK, WorkerStages
    <3> QED
      BY <1>2, <3>1, <3>2 DEF TakeBatch, TypeOK
  <2>8. Journalling' /\ Publishing'
    BY <1>2, <2>5 DEF TakeBatch, TypeOK, Journalling, Publishing
  <2>9. Working'
    BY <1>2, <2>5, <2>6 DEF TakeBatch, TypeOK, Working
  <2>10. Stopped'
    BY <1>2 DEF TakeBatch, Stopped
  <2> QED
    BY <2>7, <2>8, <2>9, <2>10
<1>3. CASE Execute(l)
  <2> DEFINE j == Head(batch[l])
  <2>1. /\ j \in Job /\ Tail(batch[l]) \in Seq(Job)
        /\ Len(Tail(batch[l])) = Len(batch[l]) - 1
        /\ Len(batch[l]) \in Nat \ {0}
    BY <1>0, <1>3, HeadTailProperties, EmptySeq DEF Execute, Working
  <2>2. j.id \in Ids
    BY <2>1 DEF Job
  <2>3. /\ applied' \in {applied, applied \cup {j.id}}
        /\ committed' = [committed EXCEPT ![l] = Append(@, j)]
        /\ batch' = [batch EXCEPT ![l] = Tail(@)]
        /\ stage' = [stage EXCEPT ![l] = IF Len(batch[l]) = 1 THEN "confirm"
                                         ELSE @]
        /\ stage[l] = "execute"
    BY <1>3 DEF Execute
  <2> HIDE DEF j
  <2>4. Append(committed[l], j) \in Seq(Job) /\ Append(committed[l], j) # <<>>
    BY <1>0, <2>1
  <2>5. Len(batch[l]) # 1 => Tail(batch[l]) # <<>>
    BY <1>0, <1>3, TailNotEmpty DEF Execute, Working
  <2>6. TypeOK'
    BY <1>3, <2>1, <2>2, <2>3, <2>4 DEF Execute, TypeOK, WorkerStages
  <2> QED
    BY <1>3, <2>3, <2>4, <2>5, <2>6
       DEF Execute, TypeOK, Journalling, Working, Publishing, Stopped
<1>4. CASE ExecuteFails(l)
  <2>1. TypeOK'
    BY <1>4 DEF ExecuteFails, AfterFailure, TypeOK, WorkerStages
  <2> QED
    BY <1>4, <2>1 DEF ExecuteFails, AfterFailure, WillRun, TypeOK, Journalling,
                      Working, Publishing, Stopped
<1>5. CASE ExecuteUnknown(l)
  <2>1. Head(batch[l]).id \in Ids
    BY <1>0, <1>5, JobFacts DEF ExecuteUnknown, WillRun, Working
  <2>2. TypeOK'
    BY <1>5, <2>1 DEF ExecuteUnknown, AfterFailure, TypeOK, WorkerStages
  <2> QED
    BY <1>5, <2>2 DEF ExecuteUnknown, AfterFailure, WillRun, TypeOK,
                      Journalling, Working, Publishing, Stopped
<1> QED
  BY <1>1, <1>2, <1>3, <1>4, <1>5

\* Confirming and retiring jobs.
LEMMA ConfirmShape ==
    ASSUME Shape, NEW l \in Lanes,
           WriteDone(l) \/ WriteDoneFails(l) \/ RememberOne(l) \/ FinishOne(l)
             \/ RetireOne(l)
    PROVE  Shape'
<1> USE DEF Shape, diskVars, admVars, laneVars, histVars
<1>0. /\ committed[l] \in Seq(Job)
      /\ \A k \in 1 .. Len(committed[l]) :
            committed[l][k] \in Job /\ committed[l][k].id \in Ids
  <2>1. committed[l] \in Seq(Job)
    BY DEF TypeOK
  <2> QED
    BY <2>1, JobFacts
<1>1. CASE WriteDone(l)
  <2> DEFINE last == jrnl.n + 1 = Len(committed[l])
             d == PutDone(disk, committed[l][jrnl.n + 1].id)
  <2>1. WriteLine(l, d, last) /\ stage[l] = "confirm"
    BY <1>1 DEF WriteDone
  <2>2. jrnl.n \in Nat /\ Len(committed[l]) \in Nat \ {0}
    BY <1>0, <2>1, EmptySeq DEF Working, TypeOK, AppendState
  <2>3. jrnl.n < Len(committed[l])
    BY <2>1, <2>2 DEF WriteLine, Journalling
  <2>4. d \in Disk
    <3>1. committed[l][jrnl.n + 1].id \in Ids
      BY <1>0, <2>2, <2>3
    <3> QED
      BY <3>1, LineFacts DEF TypeOK
  <2>5. /\ disk' \in Disk
        /\ jrnl' \in AppendState
        /\ jrnl' = IF last THEN Idle
                   ELSE [holder |-> l, before |-> Stable, n |-> jrnl.n + 1]
    <3> HIDE DEF d
    <3> QED
      BY <2>1, <2>4, AppendTyped
  <2>6. CASE last
    <3>1. /\ retired' = retired \cup ToSet(JobIds(committed[l]))
          /\ stage' = [stage EXCEPT ![l] = "remember"]
      BY <1>1, <2>6 DEF WriteDone
    <3>2. ToSet(JobIds(committed[l])) \subseteq Ids
      BY <1>0, LenProperties DEF JobIds, ToSet
    <3>3. TypeOK'
      BY <1>1, <2>5, <3>1, <3>2 DEF WriteDone, TypeOK, WorkerStages
    <3> QED
      BY <1>1, <2>1, <2>5, <2>6, <3>1, <3>3, SqlSinkAssumption
         DEF WriteDone, TypeOK, Journalling, Working, Publishing, Stopped, Idle
  <2>7. CASE ~last
    <3>1. UNCHANGED <<retired, stage>>
      BY <1>1, <2>7 DEF WriteDone
    <3>2. TypeOK'
      BY <1>1, <2>5, <3>1 DEF WriteDone, TypeOK
    <3>3. jrnl'.holder = l /\ jrnl'.n = jrnl.n + 1
          /\ jrnl.n + 1 < Len(committed[l])
      BY <2>2, <2>3, <2>5, <2>7
    <3>4. up
      BY <2>1 DEF Stopped
    <3> QED
      BY <1>1, <2>1, <3>1, <3>2, <3>3, <3>4, SqlSinkAssumption
         DEF WriteDone, Journalling, Working, Publishing, Stopped
  <2> QED
    BY <2>6, <2>7
<1>2. CASE WriteDoneFails(l)
  <2>1. disk' \in Disk /\ jrnl' \in AppendState /\ jrnl' = Idle
    BY <1>2, AppendTyped DEF WriteDoneFails
  <2>2. TypeOK'
    BY <1>2, <2>1 DEF WriteDoneFails, TypeOK
  <2> QED
    BY <1>2, <2>1, <2>2, SqlSinkAssumption
       DEF WriteDoneFails, Journalling, Working, Publishing, Stopped, Idle
<1>3. /\ committed[l] # <<>> => Head(committed[l]) \in Job
      /\ committed[l] # <<>> => Head(committed[l]).id \in Ids
      /\ committed[l] # <<>> => Tail(committed[l]) \in Seq(Job)
      /\ committed[l] # <<>> => Len(Tail(committed[l])) = Len(committed[l]) - 1
      /\ Len(committed[l]) \in Nat
  BY <1>0, JobFacts, HeadTailProperties, LenProperties
<1>4. CASE RememberOne(l)
  <2>1. RememberId(dedupe, Head(committed[l]).id) \in Seq(Ids)
    BY <1>3, <1>4, RememberFacts DEF RememberOne, Working, TypeOK
  <2>2. TypeOK'
    BY <1>4, <2>1 DEF RememberOne, TypeOK, WorkerStages
  <2> QED
    BY <1>4, <2>2 DEF RememberOne, TypeOK, Journalling, Working, Publishing,
                      Stopped
<1>5. CASE FinishOne(l)
  <2>1. left' \in [Tokens -> SUBSET Ids]
    BY <1>5 DEF FinishOne, TypeOK
  <2>2. TypeOK'
    BY <1>5, <2>1 DEF FinishOne, TypeOK, WorkerStages
  <2> QED
    BY <1>5, <2>2 DEF FinishOne, TypeOK, Journalling, Working, Publishing,
                      Stopped
<1>6. CASE RetireOne(l)
  <2>1. committed[l] # <<>> /\ stage[l] = "retire"
    BY <1>6 DEF RetireOne, Working
  <2>2. /\ active' \subseteq Ids
        /\ committed' = [committed EXCEPT ![l] = Tail(@)]
        /\ stage' = [stage EXCEPT ![l] =
                       IF Len(committed[l]) > 1 THEN "remember"
                       ELSE IF batch[l] # <<>> THEN "execute" ELSE "take"]
    BY <1>6 DEF RetireOne, TypeOK
  <2>3. Len(committed[l]) > 1 => Tail(committed[l]) # <<>>
    BY <1>0, <2>1, TailNotEmpty
  <2>4. TypeOK'
    BY <1>3, <1>6, <2>1, <2>2 DEF RetireOne, TypeOK, WorkerStages
  <2> QED
    BY <1>6, <2>1, <2>2, <2>3, <2>4
       DEF RetireOne, TypeOK, Journalling, Working, Publishing, Stopped
<1> QED
  BY <1>1, <1>2, <1>4, <1>5, <1>6

\* Crash, repair and the start of the replay.
LEMMA CrashShape ==
    ASSUME Shape, Crash \/ Repair \/ Recover
    PROVE  Shape'
<1> USE DEF Shape, diskVars, admVars, laneVars, histVars
<1>1. CASE Crash
  <2>1. /\ disk' \in Disk /\ jrnl' \in AppendState
    BY <1>1 DEF Crash, Idle, AppendState, Disk, TypeOK
  <2>2. pub' \in PubState
    BY <1>1 DEF Crash, Offline, PubState, PubStages
  <2>3. conn' \in [Conns -> ConnState]
    BY <1>1 DEF Crash, Quiet, ConnState
  <2>4. /\ queue' \in [Lanes -> Seq(Job)]
        /\ batch' \in [Lanes -> Seq(Job)]
        /\ committed' \in [Lanes -> Seq(Job)]
    BY <1>1, EmptySeq DEF Crash
  <2>5. /\ stage' \in [Lanes -> WorkerStages]
        /\ left' \in [Tokens -> SUBSET Ids]
        /\ dedupe' \in Seq(Ids)
    BY <1>1, EmptySeq DEF Crash, WorkerStages
  <2>12. torn' \in BOOLEAN
    <3>1. torn' \in IF Appending THEN BOOLEAN ELSE {FALSE}
      BY <1>1 DEF Crash
    <3> QED
      BY <3>1, Zenon
  <2>13. crashes' \in Nat
    BY <1>1 DEF Crash, TypeOK
  <2>6. Recorded \subseteq Ids
    <3>1. ASSUME NEW l \in Lanes, jrnl.holder = l, NEW k \in 1 .. jrnl.n
          PROVE  committed[l][k].id \in Ids
      <4>1. committed[l] \in Seq(Job) /\ Len(committed[l]) \in Nat
        BY LenProperties DEF TypeOK
      <4>2. k \in 1 .. Len(committed[l])
        BY <3>1, <4>1 DEF Journalling, TypeOK, AppendState
      <4> QED
        BY <4>1, <4>2, JobFacts
    <3> QED
      BY <3>1 DEF Recorded
  <2>7. TypeOK'
    BY <1>1, <2>1, <2>2, <2>3, <2>4, <2>5, <2>6, <2>12, <2>13 DEF Crash, TypeOK
  <2>8. Journalling'
    BY <1>1, SqlSinkAssumption DEF Crash, Idle, Journalling
  <2>9. Working'
    BY <1>1 DEF Crash, Working
  <2>10. Publishing'
    BY <1>1 DEF Crash, Publishing, Offline, Quiet
  <2>11. Stopped'
    BY <1>1 DEF Crash, Stopped, Idle, Quiet
  <2> QED
    BY <2>7, <2>8, <2>9, <2>10, <2>11
<1>2. CASE Repair
  BY <1>2 DEF Repair, TypeOK, Journalling, Working, Publishing, Stopped
<1>3. CASE Recover
  <2>1. disk.pend \in Seq(Ids) /\ disk.done \in Seq(Ids)
    BY DEF TypeOK, Disk
  <2>2. pub' = [stage |-> "filter", who |-> NoConn, todo |-> disk.pend,
                kept |-> <<>>, tok |-> NoToken]
    BY <1>3 DEF Recover, Offline
  <2>3. pub' \in PubState
    BY <2>1, <2>2 DEF PubState, PubStages
  <2>4. TypeOK'
    BY <1>3, <2>1, <2>3 DEF Recover, TypeOK
  <2>5. Journalling' /\ Working' /\ Stopped'
    BY <1>3, <2>2 DEF Recover, Journalling, Working, Stopped
  <2>6. Publishing'
    <3>1. pub'.stage = "filter" /\ pub'.who \notin Conns
      BY <2>2, SqlSinkAssumption
    <3>2. conn' = conn
      BY <1>3 DEF Recover
    <3> QED
      BY <3>1, <3>2 DEF Publishing
  <2> QED
    BY <2>4, <2>5, <2>6
<1> QED
  BY <1>1, <1>2, <1>3

LEMMA ShapeInductive == Shape /\ [Next]_vars => Shape'
<1> SUFFICES ASSUME Shape, [Next]_vars PROVE Shape'
  OBVIOUS
<1>1. ASSUME NEW c \in Conns, Handler(c) PROVE Shape'
  BY <1>1, HandlerShape
<1>2. CASE Publisher
  BY <1>2, FilterShape, AppendShape, PushShape DEF Publisher
<1>3. ASSUME NEW l \in Lanes, Worker(l) PROVE Shape'
  BY <1>3, ExecuteShape, ConfirmShape DEF Worker
<1>4. CASE Crash \/ Repair \/ Recover
  BY <1>4, CrashShape
<1>5. CASE UNCHANGED vars
  BY <1>5 DEF vars, Shape, TypeOK, Journalling, Working, Publishing, Stopped
<1> QED
  BY <1>1, <1>2, <1>3, <1>4, <1>5 DEF Next

\* Every state the sink reaches is well typed, whatever crashes and failures
\* are in its past.
THEOREM TypeCorrect == Spec => []TypeOK
<1>1. Init => Shape
  BY InitShape
<1>2. Shape /\ [Next]_vars => Shape'
  BY ShapeInductive
<1>3. Shape => TypeOK
  BY DEF Shape
<1> QED
  BY <1>1, <1>2, <1>3, PTL DEF Spec

----------------------------------------------------------------------------
(* The promise: what may be said of an event at each stage of its life     *)

\* The cache knows only what is on record as complete.
Known == ToSet(dedupe) \subseteq retired

\* The window in the file holds recorded completions, and those an append in
\* progress is about to record; what it would be cut back to holds the former.
Marked ==
    /\ ToSet(disk.done) \subseteq retired \cup Recorded
    /\ jrnl.holder # "none" => ToSet(jrnl.before.done) \subseteq retired

\* What a worker holds as committed is in the database, and on record once the
\* markers are durable.
Executed ==
    /\ retired \subseteq applied
    /\ \A l \in Lanes : \A j \in ToSet(committed[l]) :
         /\ j.id \in applied
         /\ stage[l] \in {"remember", "finish", "retire"} => j.id \in retired

\* An event of a waiting batch is on record, or its Completion still counts it.
Answered ==
    \A c \in Conns : conn[c].st = "waiting"
        => ToSet(conn[c].ids) \subseteq left[conn[c].tok] \cup retired

\* The same on the way there: of the batch being published, an event is still to
\* be filtered, kept, or on record.
InHand ==
    pub.who \in Conns =>
        /\ pub.stage = "filter"
             => ToSet(conn[pub.who].ids)
                  \subseteq ToSet(pub.todo) \cup ToSet(pub.kept) \cup retired
        /\ pub.stage = "append"
             => ToSet(conn[pub.who].ids) \subseteq ToSet(pub.kept) \cup retired
        /\ pub.stage = "push"
             => ToSet(conn[pub.who].ids) \subseteq left[pub.tok] \cup retired

Promise == Known /\ Marked /\ Executed /\ Answered /\ InHand

LEMMA InitPromise == Init => Promise
<1> SUFFICES ASSUME Init PROVE Promise
  OBVIOUS
<1>1. ToSet(<<>>) = {}
  BY DEF ToSet
<1>2. Known /\ Marked
  BY <1>1 DEF Init, Known, Marked, Idle
<1>3. Executed
  BY <1>1 DEF Init, Executed
<1>4. Answered /\ InHand
  BY SqlSinkAssumption DEF Init, Answered, InHand, Offline, Quiet
<1> QED
  BY <1>2, <1>3, <1>4 DEF Promise

\* Handlers: only the batch of the handler itself is looked at or dropped.
LEMMA HandlerPromise ==
    ASSUME Shape, Promise, NEW c \in Conns, Handler(c)
    PROVE  Promise'
<1> USE DEF Shape, Promise, diskVars, admVars, laneVars, histVars
<1>1. CASE \E b \in Batches : Receive(c, b)
  <2>1. PICK b \in Batches : Receive(c, b)
    BY <1>1
  <2>2. Known' /\ Marked' /\ Executed'
    BY <2>1 DEF Receive, Known, Marked, Executed, Recorded
  <2>3. Answered' /\ InHand'
    BY <2>1 DEF Receive, Answered, InHand, Publishing, TypeOK, ConnState
  <2> QED
    BY <2>2, <2>3
<1>2. CASE BeginPublish(c)
  <2>1. Known' /\ Marked' /\ Executed'
    BY <1>2 DEF BeginPublish, Known, Marked, Executed, Recorded
  <2>2. Answered'
    BY <1>2 DEF BeginPublish, Answered, TypeOK, ConnState
  <2>3. InHand'
    <3>1. pub'.stage = "filter" /\ pub'.who = c /\ pub'.todo = conn[c].ids
      BY <1>2 DEF BeginPublish, Offline
    <3>2. conn'[c].ids = conn[c].ids
      BY <1>2 DEF BeginPublish, TypeOK, ConnState
    <3> QED
      BY <3>1, <3>2 DEF InHand
  <2> QED
    BY <2>1, <2>2, <2>3
<1>3. CASE Acknowledge(c) \/ GiveUp(c)
  <2>1. Known' /\ Marked' /\ Executed'
    BY <1>3 DEF Acknowledge, GiveUp, Known, Marked, Executed, Recorded
  <2>2. /\ conn' = [conn EXCEPT ![c] = Quiet] /\ conn[c].st = "waiting"
        /\ UNCHANGED <<pub, left, retired>>
    BY <1>3 DEF Acknowledge, GiveUp, Reply
  <2>3. Answered'
    BY <2>2 DEF Answered, Quiet, TypeOK
  <2>4. InHand'
    <3>1. pub.stage # "free" => pub.who # c
      BY <2>2 DEF Publishing
    <3> QED
      BY <2>2, <3>1 DEF InHand, TypeOK
  <2> QED
    BY <2>1, <2>3, <2>4
<1> QED
  BY <1>1, <1>2, <1>3 DEF Handler

\* An accepted batch waits for all it kept, and no waiting batch loses its
\* Completion to it.
LEMMA AcceptedPromise ==
    ASSUME Shape, Promise, Accepted, UNCHANGED <<retired, conn>>,
           pub.who \in Conns => pub.stage = "append"
    PROVE  Answered' /\ InHand'
<1> USE DEF Shape, Promise
<1>1. PICK t \in Tokens :
        /\ \A c \in Conns : conn[c].tok # t
        /\ left' = [left EXCEPT ![t] = ToSet(pub.kept)]
        /\ pub' = [pub EXCEPT !.stage = "push", !.todo = pub.kept, !.tok = t]
  BY DEF Accepted, FreeTokens
<1>2. Answered'
  BY <1>1 DEF Answered, TypeOK
<1>3. /\ pub'.stage = "push" /\ pub'.who = pub.who /\ pub'.tok = t
      /\ left'[t] = ToSet(pub.kept)
  BY <1>1 DEF TypeOK, PubState
<1>4. InHand'
  BY <1>3 DEF InHand
<1> QED
  BY <1>2, <1>4

\* The publisher: a filtered event is on record, the rest stays in hand.
LEMMA FilterPromise ==
    ASSUME Shape, Promise,
           FilterOne \/ ReserveBatch \/ RefuseBatch \/ ReserveReplay
             \/ AcceptNothing
    PROVE  Promise'
<1> USE DEF Shape, Promise, diskVars, admVars, laneVars, histVars
<1>0. pub \in PubState /\ pub.todo \in Seq(Ids) /\ pub.kept \in Seq(Ids)
  BY DEF TypeOK, PubState
<1>1. Known' /\ Marked' /\ Executed'
  BY DEF FilterOne, ReserveBatch, RefuseBatch, ReserveReplay, AcceptNothing,
         Known, Marked, Executed, Recorded
<1>2. CASE FilterOne
  <2>1. ToSet(pub.todo) = {Head(pub.todo)} \cup ToSet(Tail(pub.todo))
    BY <1>0, <1>2, ToSetFacts DEF FilterOne
  <2>2. ToSet(Append(pub.kept, Head(pub.todo)))
          = ToSet(pub.kept) \cup {Head(pub.todo)}
    BY <1>0, ToSetFacts
  <2>3. /\ pub'.stage = "filter" /\ pub'.who = pub.who
        /\ pub'.todo = Tail(pub.todo)
        /\ pub'.kept = IF Head(pub.todo) \in ToSet(dedupe) THEN pub.kept
                       ELSE Append(pub.kept, Head(pub.todo))
    BY <1>0, <1>2 DEF FilterOne, PubState
  <2>4. InHand'
    <3> DEFINE T == ToSet(pub.todo) K == ToSet(pub.kept)
               T1 == ToSet(Tail(pub.todo)) K1 == ToSet(pub'.kept)
    <3>1. T \cup K \cup retired \subseteq T1 \cup K1 \cup retired
      BY <2>1, <2>2, <2>3 DEF Known
    <3>2. UNCHANGED <<conn, retired, left>>
      BY <1>2 DEF FilterOne
    <3>3. ToSet(pub'.todo) = T1 /\ ToSet(pub'.kept) = K1
      BY <2>3
    <3> HIDE DEF T, K, T1, K1
    <3>4. pub.who \in Conns => ToSet(conn[pub.who].ids) \subseteq T \cup K \cup retired
      BY <1>2 DEF FilterOne, InHand, T, K
    <3> QED
      BY <2>3, <3>1, <3>2, <3>3, <3>4 DEF InHand
  <2>5. Answered'
    BY <1>2 DEF FilterOne, Answered
  <2> QED
    BY <1>1, <2>4, <2>5
<1>3. CASE ReserveBatch
  <2>1. /\ pub'.stage = "append" /\ pub'.who = pub.who /\ pub'.kept = pub.kept
        /\ pub.stage = "filter" /\ ToSet(pub.todo) = {}
    BY <1>0, <1>3 DEF ReserveBatch, PubState, ToSet
  <2>2. Answered' /\ InHand'
    BY <1>3, <2>1 DEF ReserveBatch, Answered, InHand
  <2> QED
    BY <1>1, <2>2
<1>4. CASE RefuseBatch
  <2>1. Answered'
    BY <1>4 DEF RefuseBatch, Reply, Quiet, Answered, TypeOK, ConnState
  <2>2. InHand'
    BY <1>4, SqlSinkAssumption
       DEF RefuseBatch, ReleaseMutex, Offline, InHand
  <2> QED
    BY <1>1, <2>1, <2>2
<1>5. CASE ReserveReplay
  <2>1. Answered' /\ InHand'
    BY <1>5, AcceptedPromise, SqlSinkAssumption DEF ReserveReplay
  <2> QED
    BY <1>1, <2>1
<1>6. CASE AcceptNothing
  <2>1. Answered' /\ InHand'
    BY <1>6, AcceptedPromise DEF AcceptNothing
  <2> QED
    BY <1>1, <2>1
<1> QED
  BY <1>2, <1>3, <1>4, <1>5, <1>6

\* Journalling a batch: pending lines leave the window alone, a rollback puts
\* the old one back.
LEMMA AppendPromise ==
    ASSUME Shape, Promise,
           WritePending \/ WritePendingFails \/ UndoOne \/ RefuseUnjournalled
    PROVE  Promise'
<1> USE DEF Shape, Promise, diskVars, admVars, laneVars, histVars
<1>0. pub \in PubState /\ pub.todo \in Seq(Ids) /\ pub.kept \in Seq(Ids)
  BY DEF TypeOK, PubState
<1>1. Known' /\ Executed'
  BY DEF WritePending, WritePendingFails, UndoOne, RefuseUnjournalled, Known,
         Executed
<1>2. ASSUME jrnl.holder \in {"none", "pub"}
      PROVE  ToSet(disk.done) \subseteq retired /\ ToSet(Stable.done) \subseteq retired
  BY <1>2, SqlSinkAssumption DEF Marked, Recorded, Stable
<1>3. CASE WritePending
  <2> DEFINE last == jrnl.n + 1 = Len(pub.kept)
             d == PutPending(disk, pub.kept[jrnl.n + 1])
  <2>1. WriteLine("pub", d, last)
    BY <1>3 DEF WritePending
  <2>2. jrnl.holder \in {"none", "pub"} /\ disk' = d
    BY <2>1 DEF WriteLine
  <2>3. d.done = disk.done
    <3>1. jrnl.n \in Nat /\ Len(pub.kept) \in Nat \ {0}
      BY <1>0, <1>3, EmptySeq DEF WritePending, TypeOK, AppendState
    <3>2. pub.kept[jrnl.n + 1] \in Ids
      BY <1>0, <2>2, <3>1, LenProperties DEF Journalling
    <3> QED
      BY <3>2, LineFacts DEF TypeOK
  <2>4. Marked'
    <3>1. ToSet(disk'.done) \subseteq retired'
      BY <1>2, <1>3, <2>2, <2>3 DEF WritePending
    <3>2. jrnl'.holder # "none" => jrnl'.before = Stable
      BY <2>1 DEF WriteLine, Idle
    <3>3. retired' = retired
      BY <1>3 DEF WritePending
    <3> QED
      BY <1>2, <2>2, <3>1, <3>2, <3>3 DEF Marked
  <2>5. Answered' /\ InHand'
    <3>1. CASE last
      BY <1>3, <3>1, AcceptedPromise DEF WritePending
    <3>2. CASE ~last
      BY <1>3, <3>2 DEF WritePending, Answered, InHand
    <3> QED
      BY <3>1, <3>2
  <2> QED
    BY <1>1, <2>4, <2>5
<1>4. CASE WritePendingFails
  <2>1. Marked'
    BY <1>2, <1>4, SqlSinkAssumption
       DEF WritePendingFails, RollBack, Idle, Marked
  <2>2. pub'.stage = "undo"
    BY <1>0, <1>4 DEF WritePendingFails, PubState
  <2>3. Answered' /\ InHand'
    BY <1>4, <2>2 DEF WritePendingFails, Answered, InHand
  <2> QED
    BY <1>1, <2>1, <2>3
<1>5. CASE UndoOne
  <2>1. Marked'
    BY <1>5 DEF UndoOne, Marked, Recorded
  <2>2. pub'.stage = "undo"
    BY <1>0, <1>5 DEF UndoOne, PubState
  <2>3. Answered' /\ InHand'
    BY <1>5, <2>2 DEF UndoOne, Answered, InHand
  <2> QED
    BY <1>1, <2>1, <2>3
<1>6. CASE RefuseUnjournalled
  <2>1. Marked'
    BY <1>6 DEF RefuseUnjournalled, Marked, Recorded
  <2>2. Answered'
    BY <1>6 DEF RefuseUnjournalled, Reply, Quiet, Answered, TypeOK, ConnState
  <2>3. InHand'
    BY <1>6, SqlSinkAssumption
       DEF RefuseUnjournalled, ReleaseMutex, Offline, InHand
  <2> QED
    BY <1>1, <2>1, <2>2, <2>3
<1> QED
  BY <1>3, <1>4, <1>5, <1>6

\* The pushed batch becomes the waiting one with the same Completion.
LEMMA PushPromise ==
    ASSUME Shape, Promise, PushOne \/ Published \/ Start
    PROVE  Promise'
<1> USE DEF Shape, Promise, diskVars, admVars, laneVars, histVars
<1>0. pub \in PubState
  BY DEF TypeOK
<1>1. Known'
  BY DEF PushOne, Published, Start, Known
<1>2. CASE PushOne
  <2>1. Marked' /\ Executed'
    BY <1>2 DEF PushOne, Marked, Recorded, Executed
  <2>2. pub'.stage = "push" /\ pub'.who = pub.who /\ pub'.tok = pub.tok
    BY <1>0, <1>2 DEF PushOne, PubState
  <2>3. Answered' /\ InHand'
    BY <1>2, <2>2 DEF PushOne, Answered, InHand
  <2> QED
    BY <1>1, <2>1, <2>3
<1>3. CASE Published
  <2>1. Marked'
    BY <1>3 DEF Published, Marked, Recorded
  <2>2. Executed'
    <3>1. \A l \in Lanes : stage'[l] \in {"remember", "finish", "retire"}
                             => stage[l] = stage'[l]
      BY <1>3 DEF Published
    <3> QED
      BY <1>3, <3>1 DEF Published, Executed
  <2>3. Answered'
    <3>1. \A c \in Conns :
            /\ conn'[c].ids = conn[c].ids
            /\ c # pub.who => conn'[c] = conn[c]
            /\ c = pub.who => conn'[c].tok = pub.tok
      BY <1>3 DEF Published, TypeOK, ConnState
    <3>2. ToSet(conn[pub.who].ids) \subseteq left[pub.tok] \cup retired
      BY <1>3 DEF Published, InHand
    <3>3. UNCHANGED <<left, retired>>
      BY <1>3 DEF Published
    <3> QED
      BY <3>1, <3>2, <3>3 DEF Answered
  <2>4. InHand'
    BY <1>3, SqlSinkAssumption DEF Published, ReleaseMutex, Offline, InHand
  <2> QED
    BY <1>1, <2>1, <2>2, <2>3, <2>4
<1>4. CASE Start
  BY <1>1, <1>4, SqlSinkAssumption
     DEF Start, ReleaseMutex, Offline, Marked, Recorded, Executed, Answered,
         InHand
<1> QED
  BY <1>2, <1>3, <1>4

\* Taking and executing jobs: what is put aside as committed is in the database
\* by its own SQL or because it was on record already.
LEMMA ExecutePromise ==
    ASSUME Shape, Promise, NEW l \in Lanes,
           Sleep(l) \/ TakeBatch(l) \/ Execute(l) \/ ExecuteFails(l)
             \/ ExecuteUnknown(l)
    PROVE  Promise'
<1> USE DEF Shape, Promise, diskVars, admVars, laneVars, histVars
<1>1. Known' /\ Answered' /\ InHand'
  BY DEF Sleep, TakeBatch, Execute, ExecuteFails, ExecuteUnknown, Known, Answered,
         InHand
<1>2. jrnl.holder # l
  BY DEF Sleep, TakeBatch, Execute, ExecuteFails, ExecuteUnknown, WillRun,
         Journalling
<1>3. /\ UNCHANGED <<disk, jrnl, retired>>
      /\ \A m \in Lanes : m # l => committed'[m] = committed[m] /\ stage'[m] = stage[m]
  BY DEF Sleep, TakeBatch, Execute, ExecuteFails, ExecuteUnknown, AfterFailure,
         TypeOK
<1>4. Marked'
  <2>1. Recorded' = Recorded
    <3>1. CASE jrnl.holder \in Lanes
      <4>1. committed'[jrnl.holder] = committed[jrnl.holder] /\ jrnl' = jrnl
        BY <1>2, <1>3, <3>1
      <4> QED
        BY <3>1, <4>1, Zenon DEF Recorded
    <3>2. CASE jrnl.holder \notin Lanes
      BY <1>3, <3>2 DEF Recorded
    <3> QED
      BY <3>1, <3>2
  <2> QED
    BY <1>3, <2>1 DEF Marked
<1>5. stage'[l] \notin {"remember", "finish", "retire"}
  BY DEF Sleep, TakeBatch, Execute, ExecuteFails, ExecuteUnknown, AfterFailure,
         WillRun, TypeOK
<1>6. applied \subseteq applied'
  BY DEF Sleep, TakeBatch, Execute, ExecuteFails, ExecuteUnknown
<1>7. \A j \in ToSet(committed'[l]) : j.id \in applied'
  <2>1. CASE Execute(l)
    <3>1. committed'[l] = Append(committed[l], Head(batch[l]))
      BY <2>1 DEF Execute, TypeOK
    <3>2. ToSet(committed'[l]) = ToSet(committed[l]) \cup {Head(batch[l])}
      BY <3>1, ToSetFacts DEF TypeOK
    <3>3. Head(batch[l]).id \in applied'
      BY <2>1 DEF Execute, WillRun, Known, Executed
    <3> QED
      BY <1>6, <3>2, <3>3 DEF Executed
  <2>2. CASE ~Execute(l)
    <3>1. committed' = committed
      BY <2>2 DEF Sleep, TakeBatch, ExecuteFails, ExecuteUnknown
    <3> QED
      BY <1>6, <3>1 DEF Executed
  <2> QED
    BY <2>1, <2>2
<1>8. Executed'
  BY <1>3, <1>5, <1>6, <1>7 DEF Executed
<1> QED
  BY <1>1, <1>4, <1>8

\* The markers of lane l as they reach the file.
LEMMA WriteDonePromise ==
    ASSUME Shape, Promise, NEW l \in Lanes, WriteDone(l)
    PROVE  Promise'
<1> USE DEF Shape, Promise, diskVars, admVars, laneVars, histVars
<1> DEFINE n == jrnl.n
           jobs == committed[l]
           i == jobs[n + 1].id
           last == n + 1 = Len(jobs)
<1>1. WriteLine(l, PutDone(disk, i), last)
  BY DEF WriteDone
<1>2. jobs \in Seq(Job) /\ Len(jobs) \in Nat \ {0} /\ n \in Nat
  BY EmptySeq DEF WriteDone, Working, TypeOK, AppendState
<1>3. jrnl.holder \in {"none", l} /\ n < Len(jobs)
  BY <1>1, <1>2 DEF WriteLine, Journalling
<1>4. n + 1 \in 1 .. Len(jobs) /\ i \in Ids
  BY <1>2, <1>3, JobFacts
<1>5. \A k \in 1 .. Len(jobs) :
         jobs[k].id \in applied /\ jobs[k].id \in ToSet(JobIds(jobs))
  <2> TAKE k \in 1 .. Len(jobs)
  <2>1. jobs[k] \in ToSet(jobs) /\ DOMAIN jobs = 1 .. Len(jobs)
    BY <1>2, ToSetFacts, LenProperties
  <2>2. jobs[k].id \in applied
    BY <2>1 DEF Executed
  <2>3. DOMAIN JobIds(jobs) = 1 .. Len(jobs) /\ JobIds(jobs)[k] = jobs[k].id
    BY <2>1 DEF JobIds
  <2> QED
    BY <2>2, <2>3 DEF ToSet
<1>6. ToSet(JobIds(jobs)) \subseteq applied
  <2>1. DOMAIN jobs = 1 .. Len(jobs)
    BY <1>2, LenProperties
  <2> QED
    BY <1>5, <2>1 DEF JobIds, ToSet
<1>7. /\ retired \subseteq retired'
      /\ retired' \subseteq retired \cup ToSet(JobIds(jobs))
      /\ last => retired' = retired \cup ToSet(JobIds(jobs))
  BY DEF WriteDone
<1>8. UNCHANGED <<applied, dedupe, conn, pub, left, committed>>
  BY DEF WriteDone
<1>9. Known' /\ Answered' /\ InHand'
  BY <1>7, <1>8 DEF Known, Answered, InHand
<1>10. Executed'
  <2>1. retired' \subseteq applied'
    BY <1>6, <1>7, <1>8 DEF Executed
  <2>2. ASSUME NEW m \in Lanes, NEW j \in ToSet(committed[m]),
               stage'[m] \in {"remember", "finish", "retire"}
        PROVE  j.id \in retired'
    <3>1. CASE m # l
      <4>1. stage'[m] = stage[m]
        BY <3>1 DEF WriteDone, TypeOK
      <4> QED
        BY <1>7, <2>2, <4>1 DEF Executed
    <3>2. CASE m = l
      <4>1. last
        BY <2>2, <3>2 DEF WriteDone
      <4>2. PICK k \in 1 .. Len(jobs) : j = jobs[k]
        BY <1>2, <2>2, <3>2, LenProperties DEF ToSet
      <4> QED
        BY <1>5, <1>7, <4>1, <4>2
    <3> QED
      BY <3>1, <3>2
  <2> QED
    BY <1>8, <2>1, <2>2 DEF Executed
<1>11. Marked'
  <2>1. ToSet(disk'.done) \subseteq ToSet(disk.done) \cup {i}
    BY <1>1, <1>4, LineFacts DEF WriteLine, TypeOK
  <2>2. ToSet(Stable.done) \subseteq retired
    BY <1>3, SqlSinkAssumption DEF Marked, Stable, Recorded
  <2>3. jrnl' = IF last THEN Idle
                ELSE [holder |-> l, before |-> Stable, n |-> n + 1]
    BY <1>1 DEF WriteLine
  <2>4. \A k \in 1 .. n : k \in 1 .. Len(jobs)
    BY <1>2, <1>3
  <2>5. Recorded \subseteq {jobs[k].id : k \in 1 .. n}
    BY <1>3, SqlSinkAssumption DEF Recorded
  <2>6. CASE last
    <3>1. ToSet(disk'.done) \subseteq retired'
      <4>1. i \in ToSet(JobIds(jobs))
        BY <1>4, <1>5
      <4>2. Recorded \subseteq ToSet(JobIds(jobs))
        BY <1>5, <2>4, <2>5
      <4>3. retired' = retired \cup ToSet(JobIds(jobs))
        BY <1>7, <2>6
      <4> HIDE DEF i, jobs
      <4> QED
        BY <2>1, <4>1, <4>2, <4>3 DEF Marked
    <3>2. jrnl'.holder = "none"
      BY <2>3, <2>6 DEF Idle
    <3> QED
      BY <3>1, <3>2 DEF Marked
  <2>7. CASE ~last
    <3>1. Recorded' = {jobs[k].id : k \in 1 .. n + 1}
      BY <1>8, <2>3, <2>7 DEF Recorded
    <3>2. i \in Recorded' /\ Recorded \subseteq Recorded'
      BY <1>2, <2>5, <3>1
    <3>3. ToSet(disk'.done) \subseteq retired' \cup Recorded'
      <4> HIDE DEF i, jobs
      <4> QED
        BY <1>7, <2>1, <3>2 DEF Marked
    <3>4. jrnl'.before = Stable
      BY <2>3, <2>7
    <3> QED
      BY <1>7, <2>2, <3>3, <3>4 DEF Marked
  <2> QED
    BY <2>6, <2>7
<1> QED
  BY <1>9, <1>10, <1>11

\* Confirming: a rollback puts the old window back, and each committed job is
\* remembered, counted down and dropped only after the markers are on record.
LEMMA ConfirmPromise ==
    ASSUME Shape, Promise, NEW l \in Lanes,
           WriteDoneFails(l) \/ RememberOne(l) \/ FinishOne(l) \/ RetireOne(l)
    PROVE  Promise'
<1> USE DEF Shape, Promise, diskVars, admVars, laneVars, histVars
<1>0. committed[l] \in Seq(Job)
  BY DEF TypeOK
<1>1. CASE WriteDoneFails(l)
  <2>1. Known' /\ Executed' /\ Answered' /\ InHand'
    BY <1>1 DEF WriteDoneFails, Known, Executed, Answered, InHand
  <2>2. ToSet(Stable.done) \subseteq retired
    BY <1>1, SqlSinkAssumption
       DEF WriteDoneFails, RollBack, Marked, Stable, Recorded
  <2>3. Marked'
    BY <1>1, <2>2 DEF WriteDoneFails, RollBack, Idle, Marked
  <2> QED
    BY <2>1, <2>3
<1>2. ASSUME stage[l] \in {"remember", "finish", "retire"}
      PROVE  /\ committed[l] # <<>>
             /\ Head(committed[l]) \in Job
             /\ Head(committed[l]) \in ToSet(committed[l])
             /\ Head(committed[l]).id \in retired
             /\ ToSet(Tail(committed[l])) \subseteq ToSet(committed[l])
             /\ jrnl.holder # l
  <2>1. committed[l] # <<>> /\ jrnl.holder # l
    BY <1>2 DEF Working, Journalling
  <2>2. /\ ToSet(committed[l])
             = {Head(committed[l])} \cup ToSet(Tail(committed[l]))
        /\ Head(committed[l]) \in Job
    BY <1>0, <2>1, ToSetFacts
  <2> QED
    BY <1>2, <2>1, <2>2 DEF Executed
<1>3. CASE RememberOne(l)
  <2>1. Marked' /\ Answered' /\ InHand'
    BY <1>3 DEF RememberOne, Marked, Recorded, Answered, InHand
  <2>2. /\ \A m \in Lanes : stage'[m] \in {"remember", "finish", "retire"}
                              => stage[m] \in {"remember", "finish", "retire"}
        /\ UNCHANGED <<applied, retired, committed>>
    BY <1>3 DEF RememberOne, TypeOK
  <2>3. Executed'
    BY <2>2 DEF Executed
  <2>4. Known'
    <3>1. Head(committed[l]).id \in Ids /\ dedupe \in Seq(Ids)
      BY <1>0, <1>2, <1>3, JobFacts DEF RememberOne, TypeOK
    <3> QED
      BY <1>2, <1>3, <3>1, RememberFacts DEF RememberOne, Known
  <2> QED
    BY <2>1, <2>3, <2>4
<1>4. CASE FinishOne(l)
  <2>1. Marked' /\ Known'
    BY <1>4 DEF FinishOne, Marked, Recorded, Known
  <2>2. /\ \A m \in Lanes : stage'[m] \in {"remember", "finish", "retire"}
                              => stage[m] \in {"remember", "finish", "retire"}
        /\ UNCHANGED <<applied, retired, committed>>
    BY <1>4 DEF FinishOne, TypeOK
  <2>3. Executed'
    BY <2>2 DEF Executed
  <2>4. \A t \in Tokens : left[t] \subseteq left'[t] \cup retired
    BY <1>2, <1>4 DEF FinishOne, TypeOK
  <2>5. UNCHANGED <<conn, pub, retired>>
    BY <1>4 DEF FinishOne
  <2>6. Answered'
    <3> SUFFICES ASSUME NEW c \in Conns, conn[c].st = "waiting"
                 PROVE  ToSet(conn[c].ids) \subseteq left'[conn[c].tok] \cup retired
      BY <2>5 DEF Answered
    <3>1. left[conn[c].tok] \subseteq left'[conn[c].tok] \cup retired
      BY <2>4 DEF Publishing
    <3> QED
      BY <3>1 DEF Answered
  <2>7. InHand'
    <3>1. pub.stage = "push" => left[pub.tok] \subseteq left'[pub.tok] \cup retired
      BY <2>4 DEF Publishing
    <3> QED
      BY <2>5, <3>1 DEF InHand
  <2> QED
    BY <2>1, <2>3, <2>6, <2>7
<1>5. CASE RetireOne(l)
  <2>1. Known' /\ Answered' /\ InHand'
    BY <1>5 DEF RetireOne, Known, Answered, InHand
  <2>2. /\ UNCHANGED <<disk, jrnl, applied, retired>>
        /\ \A m \in Lanes : m # l => committed'[m] = committed[m]
                                     /\ stage'[m] = stage[m]
        /\ committed'[l] = Tail(committed[l])
    BY <1>5 DEF RetireOne, TypeOK
  <2>3. jrnl.holder # l
    BY <1>2, <1>5 DEF RetireOne
  <2>4. Marked'
    <3>1. Recorded' = Recorded
      <4>1. CASE jrnl.holder \in Lanes
        <5>1. committed'[jrnl.holder] = committed[jrnl.holder] /\ jrnl' = jrnl
          BY <2>2, <2>3, <4>1
        <5> QED
          BY <4>1, <5>1, Zenon DEF Recorded
      <4>2. CASE jrnl.holder \notin Lanes
        BY <2>2, <4>2 DEF Recorded
      <4> QED
        BY <4>1, <4>2
    <3> QED
      BY <2>2, <3>1 DEF Marked
  <2>5. Executed'
    <3>1. \A j \in ToSet(committed'[l]) : j.id \in applied /\ j.id \in retired
      BY <1>2, <1>5, <2>2 DEF RetireOne, Executed
    <3> QED
      BY <2>2, <3>1 DEF Executed
  <2> QED
    BY <2>1, <2>4, <2>5
<1> QED
  BY <1>1, <1>3, <1>4, <1>5

\* A crash leaves complete markers on record and forgets who was waiting; the
\* cache starts again from the window in the file.
LEMMA CrashPromise ==
    ASSUME Shape, Promise, Crash \/ Repair \/ Recover
    PROVE  Promise'
<1> USE DEF Shape, Promise, diskVars, admVars, laneVars, histVars
<1>0. ToSet(<<>>) = {}
  BY DEF ToSet
<1>1. CASE Crash
  <2>1. Recorded \subseteq applied
    <3>1. ASSUME NEW l \in Lanes, jrnl.holder = l, NEW k \in 1 .. jrnl.n
          PROVE  committed[l][k].id \in applied
      <4>1. committed[l] \in Seq(Job) /\ Len(committed[l]) \in Nat
        BY LenProperties DEF TypeOK
      <4>2. k \in 1 .. Len(committed[l])
        BY <3>1, <4>1 DEF Journalling, TypeOK, AppendState
      <4>3. committed[l][k] \in ToSet(committed[l])
        BY <4>1, <4>2, ToSetFacts
      <4> QED
        BY <4>3 DEF Executed
    <3> QED
      BY <3>1 DEF Recorded
  <2>2. Known'
    BY <1>0, <1>1 DEF Crash, Known
  <2>3. Marked'
    BY <1>1 DEF Crash, Marked, Idle
  <2>4. Executed'
    BY <1>0, <1>1, <2>1 DEF Crash, Executed
  <2>5. Answered' /\ InHand'
    BY <1>1, SqlSinkAssumption DEF Crash, Answered, InHand, Offline, Quiet
  <2> QED
    BY <2>2, <2>3, <2>4, <2>5
<1>2. CASE Repair
  BY <1>2 DEF Repair, Known, Marked, Recorded, Executed, Answered, InHand
<1>3. CASE Recover
  <2>1. Known'
    <3>1. jrnl.holder = "none"
      BY <1>3 DEF Recover, Stopped
    <3> QED
      BY <1>3, <3>1, SqlSinkAssumption DEF Recover, Known, Marked, Recorded
  <2>2. Marked' /\ Executed' /\ Answered'
    BY <1>3 DEF Recover, Marked, Recorded, Executed, Answered
  <2>3. InHand'
    <3>1. pub'.who = NoConn
      BY <1>3 DEF Recover, Offline
    <3> QED
      BY <3>1, SqlSinkAssumption DEF InHand
  <2> QED
    BY <2>1, <2>2, <2>3
<1> QED
  BY <1>1, <1>2, <1>3

LEMMA PromiseInductive == Shape /\ Promise /\ [Next]_vars => Promise'
<1> SUFFICES ASSUME Shape, Promise, [Next]_vars PROVE Promise'
  OBVIOUS
<1>1. ASSUME NEW c \in Conns, Handler(c) PROVE Promise'
  BY <1>1, HandlerPromise
<1>2. CASE Publisher
  BY <1>2, FilterPromise, AppendPromise, PushPromise DEF Publisher
<1>3. ASSUME NEW l \in Lanes, Worker(l) PROVE Promise'
  BY <1>3, ExecutePromise, WriteDonePromise, ConfirmPromise DEF Worker
<1>4. CASE Crash \/ Repair \/ Recover
  BY <1>4, CrashPromise
<1>5. CASE UNCHANGED vars
  BY <1>5 DEF vars, Promise, Known, Marked, Recorded, Executed, Answered, InHand
<1> QED
  BY <1>1, <1>2, <1>3, <1>4, <1>5 DEF Next

\* No ACK is early: when the Completion of a waiting batch has counted down,
\* each of its events, those filtered out as already complete included, is in
\* the database and durably marked.
THEOREM AckIsDurable == Spec => []AckImpliesDurable
<1>1. Init => Shape /\ Promise
  BY InitShape, InitPromise
<1>2. (Shape /\ Promise) /\ [Next]_vars => (Shape /\ Promise)'
  BY ShapeInductive, PromiseInductive
<1>3. Promise => AckImpliesDurable
  BY DEF Promise, Executed, Answered, AckImpliesDurable
<1> QED
  BY <1>1, <1>2, <1>3, PTL DEF Spec
-----------------------------------------------------------------------------
(* Jobs and their ids                                                      *)

LEMMA JobIdsTyped ==
    ASSUME NEW s \in Seq(Job)
    PROVE  /\ JobIds(s) \in Seq(Ids) /\ Len(JobIds(s)) = Len(s)
           /\ \A k \in 1 .. Len(s) : JobIds(s)[k] = s[k].id
<1>1. DOMAIN s = 1 .. Len(s) /\ Len(s) \in Nat
  BY LenProperties
<1>2. \A k \in 1 .. Len(s) : s[k].id \in Ids
  BY JobFacts
<1> DEFINE n == Len(s)
           ids == JobIds(s)
<1>3. ids = [k \in 1 .. n |-> s[k].id]
  BY <1>1 DEF JobIds
<1> HIDE DEF ids, n
<1>4. /\ n \in Nat /\ ids \in [1 .. n -> Ids]
      /\ \A k \in 1 .. n : ids[k] = s[k].id
  BY <1>1, <1>2, <1>3 DEF n
<1>5. ids \in Seq(Ids) /\ Len(ids) = n
  BY <1>4
<1> QED BY <1>4, <1>5 DEF ids, n

LEMMA JobIdsOfNone == JobIds(<<>>) = <<>>
BY DEF JobIds

LEMMA JobIdsOfOne ==
    ASSUME NEW j \in Job
    PROVE  JobIds(<<j>>) = <<j.id>>
BY DEF JobIds

LEMMA JobIdsJoined ==
    ASSUME NEW s \in Seq(Job), NEW t \in Seq(Job)
    PROVE  JobIds(s \o t) = JobIds(s) \o JobIds(t)
<1> DEFINE a == JobIds(s)
           b == JobIds(t)
           u == s \o t
           c == JobIds(u)
           d == a \o b
           m == Len(s)
           n == Len(t)
<1>1. /\ u \in Seq(Job) /\ Len(u) = m + n /\ m \in Nat /\ n \in Nat
      /\ \A i \in 1 .. m + n : u[i] = IF i <= m THEN s[i] ELSE t[i - m]
  BY ConcatProperties, LenProperties
<1>2. /\ a \in Seq(Ids) /\ Len(a) = m /\ \A k \in 1 .. m : a[k] = s[k].id
      /\ b \in Seq(Ids) /\ Len(b) = n /\ \A k \in 1 .. n : b[k] = t[k].id
  BY JobIdsTyped
<1> HIDE DEF u
<1>3. c \in Seq(Ids) /\ Len(c) = m + n /\ \A k \in 1 .. m + n : c[k] = u[k].id
  BY <1>1, JobIdsTyped
<1> HIDE DEF a, b, c, m, n
<1>4. /\ d \in Seq(Ids) /\ Len(d) = m + n
      /\ \A i \in 1 .. m + n : d[i] = IF i <= m THEN a[i] ELSE b[i - m]
  <2>1. /\ d \in Seq(Ids) /\ Len(d) = Len(a) + Len(b)
        /\ \A i \in 1 .. Len(a) + Len(b) :
              d[i] = IF i <= Len(a) THEN a[i] ELSE b[i - Len(a)]
    BY <1>2, ConcatProperties
  <2> HIDE DEF d
  <2> QED BY <1>2, <2>1
<1> HIDE DEF d
<1>5. \A i \in 1 .. m + n : c[i] = d[i]
  <2> TAKE i \in 1 .. m + n
  <2>1. CASE i <= m
    <3>1. i \in 1 .. m
      BY <1>1, <2>1
    <3>2. u[i] = s[i] /\ d[i] = a[i]
      BY <1>1, <1>4, <2>1
    <3>3. c[i] = u[i].id /\ a[i] = s[i].id
      BY <1>2, <1>3, <3>1
    <3> QED BY <3>2, <3>3
  <2>2. CASE ~(i <= m)
    <3>1. i - m \in 1 .. n
      BY <1>1, <2>2
    <3>2. u[i] = t[i - m] /\ d[i] = b[i - m]
      BY <1>1, <1>4, <2>2
    <3>3. c[i] = u[i].id /\ b[i - m] = t[i - m].id
      BY <1>2, <1>3, <3>1
    <3> QED BY <3>2, <3>3
  <2> QED BY <2>1, <2>2
<1>6. c = d
  BY <1>3, <1>4, <1>5, SeqEqual
<1> QED BY <1>6 DEF a, b, c, d, u

LEMMA JobIdsAppended ==
    ASSUME NEW s \in Seq(Job), NEW j \in Job
    PROVE  JobIds(Append(s, j)) = Append(JobIds(s), j.id)
<1> DEFINE one == <<j>>
           a == JobIds(s)
<1>1. one \in Seq(Job) /\ Append(s, j) = s \o one /\ JobIds(one) = <<j.id>>
  BY AppendIsConcat, JobIdsOfOne
<1>2. a \in Seq(Ids) /\ j.id \in Ids
  BY JobIdsTyped DEF Job
<1> HIDE DEF one, a
<1>3. JobIds(s \o one) = a \o <<j.id>>
  BY <1>1, JobIdsJoined DEF a
<1>4. Append(a, j.id) = a \o <<j.id>>
  BY <1>2, AppendIsConcat
<1> QED BY <1>1, <1>3, <1>4 DEF a

LEMMA JobIdsHead ==
    ASSUME NEW s \in Seq(Job), s # <<>>
    PROVE  /\ JobIds(s) = <<Head(s).id>> \o JobIds(Tail(s))
           /\ Head(JobIds(s)) = Head(s).id /\ Tail(JobIds(s)) = JobIds(Tail(s))
           /\ JobIds(s) # <<>>
<1> DEFINE one == <<Head(s)>>
           r == Tail(s)
           b == JobIds(r)
           i == Head(s).id
<1>1. Head(s) \in Job /\ r \in Seq(Job) /\ s = one \o r /\ one \in Seq(Job)
  BY HeadAndTail, HeadJoinsTail
<1>2. JobIds(one) = <<i>> /\ b \in Seq(Ids) /\ i \in Ids
  BY <1>1, JobIdsOfOne, JobIdsTyped DEF Job
<1> HIDE DEF one, r
<1>3. JobIds(s) = <<i>> \o b
  BY <1>1, <1>2, JobIdsJoined
<1> HIDE DEF i, b
<1>4. Head(<<i>> \o b) = i /\ Tail(<<i>> \o b) = b /\ <<i>> \o b # <<>>
  BY <1>2, FirstAndRest
<1> QED BY <1>3, <1>4 DEF i, b, r

LEMMA JobIdsElements ==
    ASSUME NEW s \in Seq(Job)
    PROVE  \A i : i \in ToSet(JobIds(s)) <=> \E j \in ToSet(s) : j.id = i
<1>1. \A i : i \in ToSet(JobIds(s)) <=> \E k \in 1 .. Len(s) : s[k].id = i
  BY JobIdsTyped, Elements
<1>2. \A j : j \in ToSet(s) <=> \E k \in 1 .. Len(s) : s[k] = j
  BY Elements
<1> QED BY <1>1, <1>2

-----------------------------------------------------------------------------
(* The admission table: who owns the ids it holds                          *)

AdmP == INSTANCE AdmissionProofs
          WITH permits <- Permits, Sizes <- {Weight[i] : i \in Ids},
               MaxSpecs <- RowLimit

\* The ids of the jobs of a lane, the executed ones first.
Live(l) == JobIds(LiveJobs(l))

\* The ids whose permits have not been dropped.
Owners == ToSet(Unpublished) \cup UNION {ToSet(Live(l)) : l \in Lanes}

\* A worker that takes or waits holds no jobs of its own.
Resting ==
    \A l \in Lanes : stage[l] \in {"take", "asleep"}
                       => batch[l] = <<>> /\ committed[l] = <<>>

\* Every id has one owner, and a job is in the lane of its event.
Lined ==
    /\ Distinct(Unpublished)
    /\ \A l \in Lanes :
         /\ Distinct(Live(l))
         /\ \A i \in ToSet(Live(l)) : LaneOf[i] = l /\ i \notin ToSet(Unpublished)

Table == Resting /\ Lined /\ AdmP!IInv

LEMMA Assumed == AdmP!AdmissionAssumption
BY SqlSinkAssumption DEF AdmP!AdmissionAssumption

\* The operators of the two instances of the table are the same.
LEMMA SameWords ==
    /\ \A s : Adm!ToSet(s) = ToSet(s) /\ AdmP!ToSet(s) = ToSet(s)
    /\ \A s : Adm!BatchBytes(s) = AdmP!BatchBytes(s)
    /\ \A S : Adm!IdsOf(S) = AdmP!IdsOf(S)
    /\ \A s : Adm!DistinctIds(s) <=> AdmP!DistinctIds(s)
    /\ \A S, l : Adm!OfLane(S, l) = AdmP!OfLane(S, l)
    /\ \A S : Adm!Cardinality(S) = AdmP!Cardinality(S)
    /\ \A m, n : Adm!Room(m, n) = AdmP!Room(m, n)
    /\ \A S : Adm!SetToSeq(S) = AdmP!SetToSeq(S)
<1>1. \A s : Adm!ToSet(s) = ToSet(s) /\ AdmP!ToSet(s) = ToSet(s)
  BY DEF Adm!ToSet, AdmP!ToSet, ToSet
<1>2. \A s : Adm!BatchBytes(s) = AdmP!BatchBytes(s)
  BY DEF Adm!BatchBytes, AdmP!BatchBytes
<1>3. /\ \A S : Adm!IdsOf(S) = AdmP!IdsOf(S)
      /\ \A S, l : Adm!OfLane(S, l) = AdmP!OfLane(S, l)
  BY DEF Adm!IdsOf, AdmP!IdsOf, Adm!OfLane, AdmP!OfLane
<1>4. \A s : Adm!DistinctIds(s) <=> AdmP!DistinctIds(s)
  BY DEF Adm!DistinctIds, AdmP!DistinctIds
<1>5. \A S : Adm!Cardinality(S) = AdmP!Cardinality(S)
  BY DEF Adm!Cardinality, AdmP!Cardinality
<1>6. \A m, n : Adm!Room(m, n) = AdmP!Room(m, n)
  BY DEF Adm!Room, AdmP!Room
<1>7. \A S : Adm!SetToSeq(S) = AdmP!SetToSeq(S)
  BY <1>5 DEF Adm!SetToSeq, AdmP!SetToSeq, Adm!IsInjective, AdmP!IsInjective
<1> QED BY <1>1, <1>2, <1>3, <1>4, <1>5, <1>6, <1>7

LEMMA LiveTyped ==
    TypeOK => /\ Unpublished \in Seq(Ids)
              /\ \A l \in Lanes :
                   /\ LiveJobs(l) \in Seq(Job) /\ Live(l) \in Seq(Ids)
                   /\ Live(l) = (JobIds(committed[l]) \o JobIds(batch[l]))
                                  \o JobIds(queue[l])
<1> SUFFICES ASSUME TypeOK
             PROVE  /\ Unpublished \in Seq(Ids)
                    /\ \A l \in Lanes :
                         /\ LiveJobs(l) \in Seq(Job) /\ Live(l) \in Seq(Ids)
                         /\ Live(l) = (JobIds(committed[l]) \o JobIds(batch[l]))
                                        \o JobIds(queue[l])
  OBVIOUS
<1>1. Unpublished \in Seq(Ids)
  BY EmptySeq DEF TypeOK, PubState, Unpublished
<1>2. ASSUME NEW l \in Lanes
      PROVE  /\ LiveJobs(l) \in Seq(Job) /\ Live(l) \in Seq(Ids)
             /\ Live(l) = (JobIds(committed[l]) \o JobIds(batch[l])) \o JobIds(queue[l])
  <2> DEFINE c == committed[l]
             b == batch[l]
             q == queue[l]
  <2>1. c \in Seq(Job) /\ b \in Seq(Job) /\ q \in Seq(Job)
    BY DEF TypeOK
  <2>2. LiveJobs(l) = (c \o b) \o q
    BY DEF LiveJobs
  <2> HIDE DEF c, b, q
  <2>3. c \o b \in Seq(Job) /\ (c \o b) \o q \in Seq(Job)
    BY <2>1, Joined
  <2>4. /\ JobIds(c \o b) = JobIds(c) \o JobIds(b)
        /\ JobIds((c \o b) \o q) = JobIds(c \o b) \o JobIds(q)
    BY <2>1, <2>3, JobIdsJoined
  <2>5. JobIds((c \o b) \o q) \in Seq(Ids)
    BY <2>3, JobIdsTyped
  <2> QED BY <2>2, <2>3, <2>4, <2>5 DEF Live, c, b, q
<1> QED BY <1>1, <1>2

LEMMA PermitFacts ==
    ASSUME NEW i \in Ids
    PROVE  PermitOf(i).id = i /\ PermitOf(i) \in AdmP!Permit
BY SqlSinkAssumption DEF PermitOf, AdmP!Permit

Listed == Permits = {PermitOf(i) : i \in Owners} /\ Owners \subseteq Ids

LEMMA OwnersPermits == TypeOK => Listed
<1> SUFFICES ASSUME TypeOK
             PROVE  Permits = {PermitOf(i) : i \in Owners} /\ Owners \subseteq Ids
  BY DEF Listed
<1>1. /\ ToSet(Unpublished) \subseteq Ids
      /\ \A l \in Lanes : ToSet(Live(l)) \subseteq Ids
  BY LiveTyped, Elements
<1>2. \A l \in Lanes : {PermitOf(j.id) : j \in ToSet(LiveJobs(l))}
                         = {PermitOf(i) : i \in ToSet(Live(l))}
  <2> TAKE l \in Lanes
  <2>1. \A i : i \in ToSet(Live(l)) <=> \E j \in ToSet(LiveJobs(l)) : j.id = i
    BY LiveTyped, JobIdsElements DEF Live
  <2> QED BY <2>1
<1>3. Permits = {PermitOf(i) : i \in ToSet(Unpublished)}
                  \cup UNION {{PermitOf(i) : i \in ToSet(Live(l))} : l \in Lanes}
  BY <1>2 DEF Permits
<1> QED BY <1>1, <1>3 DEF Owners

LEMMA ActiveOwners ==
    ASSUME TypeOK, AdmP!IInv
    PROVE  active = Owners
<1>1. active = AdmP!IdsOf(Permits)
  BY DEF AdmP!IInv, AdmP!ActiveExact
<1>2. Permits = {PermitOf(i) : i \in Owners} /\ Owners \subseteq Ids
  BY OwnersPermits DEF Listed
<1>3. \A i \in Owners : PermitOf(i).id = i
  BY <1>2, PermitFacts
<1> QED BY <1>1, <1>2, <1>3 DEF AdmP!IdsOf

LEMMA BooksSame ==
    ASSUME TypeOK, TypeOK', AdmP!IInv, UNCHANGED admVars, Owners' = Owners
    PROVE  AdmP!IInv'
<1>1. Permits = {PermitOf(i) : i \in Owners}
  BY OwnersPermits DEF Listed
<1>2. Permits' = {PermitOf(i) : i \in Owners'}
  <2>1. Listed'
    BY OwnersPermits, PTL
  <2> QED BY <2>1 DEF Listed
<1>3. Permits' = Permits
  BY <1>1, <1>2
<1> QED BY <1>3, AdmP!NothingChanges, Assumed DEF AdmP!vars, admVars

LEMMA RequestFacts ==
    ASSUME NEW s \in Seq(Ids)
    PROVE  /\ Requests(s) \in [1 .. Len(s) -> AdmP!Permit] /\ Len(s) \in Nat
           /\ Requests(s) \in Seq(AdmP!Permit) /\ Len(Requests(s)) = Len(s)
           /\ \A k \in 1 .. Len(s) : Requests(s)[k] = PermitOf(s[k])
           /\ ToSet(Requests(s)) = {PermitOf(i) : i \in ToSet(s)}
           /\ AdmP!IdsOf(ToSet(Requests(s))) = ToSet(s)
           /\ AdmP!DistinctIds(Requests(s)) <=> Distinct(s)
<1> DEFINE n == Len(s)
           r == Requests(s)
           P == AdmP!Permit
<1>1. DOMAIN s = 1 .. n /\ n \in Nat
  BY LenProperties
<1>2. \A k \in 1 .. n : s[k] \in Ids /\ PermitOf(s[k]) \in P /\ PermitOf(s[k]).id = s[k]
  BY PermitFacts, ElementOfSeq
<1>3. r = [k \in 1 .. n |-> PermitOf(s[k])]
  BY <1>1 DEF Requests
<1> HIDE DEF n, r, P
<1>4. r \in [1 .. n -> P] /\ \A k \in 1 .. n : r[k] = PermitOf(s[k])
  BY <1>2, <1>3
<1>5. r \in Seq(P) /\ Len(r) = n
  BY <1>1, <1>4
<1>6. /\ \A p : p \in ToSet(r) <=> \E k \in 1 .. n : r[k] = p
      /\ \A i : i \in ToSet(s) <=> \E k \in 1 .. n : s[k] = i
  BY <1>5, Elements DEF n
<1>7. ToSet(r) = {PermitOf(i) : i \in ToSet(s)}
  BY <1>4, <1>6
<1>8. AdmP!IdsOf(ToSet(r)) = ToSet(s)
  BY <1>2, <1>4, <1>6 DEF AdmP!IdsOf
<1>9. AdmP!DistinctIds(r) <=> Distinct(s)
  <2>1. DOMAIN r = 1 .. n /\ \A k \in 1 .. n : r[k].id = s[k]
    BY <1>2, <1>4
  <2> QED BY <2>1 DEF AdmP!DistinctIds, Distinct, n
<1> QED BY <1>1, <1>4, <1>5, <1>7, <1>8, <1>9 DEF n, r, P

LEMMA BooksCharged ==
    ASSUME TypeOK, TypeOK', AdmP!IInv, NEW s \in Seq(Ids),
           Adm!Admits(Requests(s)),
           active' = active \cup ToSet(s),
           usage' = Adm!Charge(usage, Requests(s)),
           Owners' = Owners \cup ToSet(s)
    PROVE  AdmP!IInv' /\ Distinct(s) /\ ToSet(s) \cap Owners = {}
<1> DEFINE r == Requests(s)
           n == Len(s)
<1>1. Permits = {PermitOf(i) : i \in Owners}
  BY OwnersPermits DEF Listed
<1>2. Permits' = {PermitOf(i) : i \in Owners'}
  <2>1. Listed'
    BY OwnersPermits, PTL
  <2> QED BY <2>1 DEF Listed
<1>3. /\ r \in [1 .. n -> AdmP!Permit] /\ n \in Nat
      /\ ToSet(r) = {PermitOf(i) : i \in ToSet(s)}
      /\ AdmP!IdsOf(ToSet(r)) = ToSet(s)
      /\ AdmP!DistinctIds(r) <=> Distinct(s)
  BY RequestFacts
<1>4. AdmP!Admits(r)
  BY SameWords DEF Adm!Admits, AdmP!Admits
<1>5. usage' = AdmP!Charge(usage, r)
  BY SameWords DEF Adm!Charge, AdmP!Charge
<1> HIDE DEF r, n
<1>6. Permits' = Permits \cup ToSet(r)
  BY <1>1, <1>2, <1>3
<1>7. AdmP!Reserve(r)
  BY <1>3, <1>4, <1>5, <1>6, SameWords DEF AdmP!Reserve
<1>8. AdmP!IInv'
  BY <1>3, <1>7, AdmP!ReserveKeeps, Assumed
<1>9. Distinct(s) /\ ToSet(s) \cap active = {}
  BY <1>3, <1>4, SameWords DEF AdmP!Admits
<1> QED BY <1>8, <1>9, ActiveOwners

LEMMA BooksRefunded ==
    ASSUME TypeOK, TypeOK', AdmP!IInv, NEW i \in Owners,
           active' = active \ {i},
           usage' = Adm!Refund(usage, PermitOf(i)),
           Owners' = Owners \ {i}
    PROVE  AdmP!IInv'
<1> DEFINE p == PermitOf(i)
<1>1. Permits = {PermitOf(k) : k \in Owners} /\ Owners \subseteq Ids
  BY OwnersPermits DEF Listed
<1>2. Permits' = {PermitOf(k) : k \in Owners'}
  <2>1. Listed'
    BY OwnersPermits, PTL
  <2> QED BY <2>1 DEF Listed
<1>3. \A k \in Owners : PermitOf(k).id = k
  BY <1>1, PermitFacts
<1>4. usage' = AdmP!Refund(usage, p)
  BY DEF Adm!Refund, AdmP!Refund
<1>5. p \in Permits /\ p.id = i /\ Permits' = Permits \ {p}
  BY <1>1, <1>2, <1>3
<1>6. AdmP!Retire(p)
  BY <1>4, <1>5 DEF AdmP!Retire
<1> QED BY <1>5, <1>6, AdmP!RetireKeeps, Assumed

LEMMA BooksEmptied ==
    ASSUME TypeOK', Owners' = {}, active' = {}, usage' = Adm!NoUsage
    PROVE  AdmP!IInv'
<1>1. Permits' = {PermitOf(i) : i \in Owners'}
  <2>1. Listed'
    BY OwnersPermits, PTL
  <2> QED BY <2>1 DEF Listed
<1>2. Permits' = {}
  BY <1>1
<1>3. usage' = AdmP!NoUsage
  BY DEF Adm!NoUsage, AdmP!NoUsage
<1> QED BY <1>2, <1>3, AdmP!EmptyTable, Assumed

\* What stays where it is: the permits the publisher owns itself, the jobs of
\* each lane in their order, and the table.
Unmoved ==
    /\ Unpublished' = Unpublished
    /\ \A l \in Lanes : LiveJobs(l)' = LiveJobs(l)
    /\ UNCHANGED admVars
    /\ Resting'

LEMMA HandlerMovesNothing ==
    ASSUME Shape, Resting, NEW c \in Conns, Handler(c)
    PROVE  Unmoved
<1>1. UNCHANGED <<admVars, laneVars>>
  BY DEF Handler, Receive, BeginPublish, Acknowledge, GiveUp
<1>2. pub' = pub \/ (pub.stage = "free" /\ pub'.stage = "filter")
  BY DEF Handler, Receive, BeginPublish, Acknowledge, GiveUp, Offline
<1> QED BY <1>1, <1>2 DEF Unmoved, Resting, LiveJobs, laneVars, Unpublished

LEMMA PublisherMovesNothing ==
    ASSUME Shape, Resting,
           FilterOne \/ RefuseBatch \/ AcceptNothing \/ WritePending
             \/ WritePendingFails \/ RefuseUnjournalled \/ Published \/ Start
    PROVE  Unmoved
<1>0. pub \in PubState /\ (pub.stage \in {"undo", "push"} => pub.todo \in Seq(Ids))
  BY DEF Shape, TypeOK, PubState
<1>1. UNCHANGED <<admVars, queue, batch, committed>>
  BY DEF FilterOne, RefuseBatch, AcceptNothing, WritePending, WritePendingFails,
         RefuseUnjournalled, Published, Start, laneVars
<1>2. \A l \in Lanes : stage'[l] \in {"take", "asleep"} => stage[l] \in {"take", "asleep"}
  <2>1. CASE Published
    BY <2>1 DEF Published
  <2>2. CASE ~Published
    BY <2>2 DEF FilterOne, RefuseBatch, AcceptNothing, WritePending, WritePendingFails,
           RefuseUnjournalled, Start, laneVars
  <2> QED BY <2>1, <2>2
<1>3. Accepted => pub'.stage = "push" /\ pub'.todo = pub.kept
  BY <1>0 DEF Accepted, PubState
<1>4. Unpublished' = Unpublished
  <2>1. CASE FilterOne \/ RefuseBatch
    <3>1. pub.stage = "filter" /\ pub'.stage \in {"filter", "free"}
      <4>1. CASE FilterOne
        <5>1. PICK r, k : pub' = [pub EXCEPT !.todo = r, !.kept = k]
          BY <4>1, Zenon DEF FilterOne
        <5> QED BY <1>0, <4>1, <5>1 DEF FilterOne, PubState
      <4>2. CASE RefuseBatch
        BY <4>2 DEF RefuseBatch, ReleaseMutex, Offline
      <4> QED BY <2>1, <4>1, <4>2
    <3> QED BY <3>1 DEF Unpublished
  <2>2. CASE AcceptNothing
    BY <1>0, <1>3, <2>2 DEF AcceptNothing, Unpublished
  <2>3. CASE WritePending
    BY <1>0, <1>3, <2>3 DEF WritePending, Unpublished
  <2>4. CASE WritePendingFails
    BY <1>0, <2>4 DEF WritePendingFails, Unpublished, PubState
  <2>5. CASE RefuseUnjournalled \/ Published \/ Start
    BY <1>0, <2>5 DEF RefuseUnjournalled, Published, Start, ReleaseMutex, Offline,
                      Unpublished
  <2> QED BY <2>1, <2>2, <2>3, <2>4, <2>5
<1> QED BY <1>1, <1>2, <1>4 DEF Unmoved, Resting, LiveJobs

LEMMA WorkerMovesNothing ==
    ASSUME Shape, Resting, NEW l \in Lanes,
           Sleep(l) \/ TakeBatch(l) \/ Execute(l) \/ ExecuteFails(l)
             \/ ExecuteUnknown(l) \/ WriteDone(l) \/ WriteDoneFails(l)
             \/ RememberOne(l) \/ FinishOne(l)
    PROVE  Unmoved
<1>0. /\ queue[l] \in Seq(Job) /\ batch[l] \in Seq(Job) /\ committed[l] \in Seq(Job)
      /\ queue = [m \in Lanes |-> queue[m]] /\ batch = [m \in Lanes |-> batch[m]]
      /\ committed = [m \in Lanes |-> committed[m]] /\ stage = [m \in Lanes |-> stage[m]]
  BY DEF Shape, TypeOK
<1>1. UNCHANGED <<admVars, pub>>
  BY DEF Sleep, TakeBatch, Execute, ExecuteFails, ExecuteUnknown, WriteDone,
         WriteDoneFails, RememberOne, FinishOne
<1>2. Unpublished' = Unpublished
  BY <1>1 DEF Unpublished
<1>3. \A m \in Lanes : m # l => /\ queue'[m] = queue[m] /\ batch'[m] = batch[m]
                                /\ committed'[m] = committed[m] /\ stage'[m] = stage[m]
  BY <1>0 DEF Sleep, TakeBatch, Execute, ExecuteFails, ExecuteUnknown, AfterFailure,
         WriteDone, WriteDoneFails, RememberOne, FinishOne, laneVars
<1>4. /\ (committed'[l] \o batch'[l]) \o queue'[l] = (committed[l] \o batch[l]) \o queue[l]
      /\ stage'[l] \in {"take", "asleep"} => batch'[l] = <<>> /\ committed'[l] = <<>>
  <2>1. CASE Sleep(l)
    BY <1>0, <2>1 DEF Sleep, Resting
  <2>2. CASE TakeBatch(l)
    <3> DEFINE n == Min2(Len(queue[l]), MaxBatchRows)
               q == queue[l]
               a == SubSeq(q, 1, n)
               r == SubSeq(q, n + 1, Len(q))
    <3>1. n \in 0 .. Len(q)
      BY <1>0, SqlSinkAssumption, LenProperties DEF Min2
    <3>2. /\ batch'[l] = a /\ queue'[l] = r /\ committed'[l] = committed[l]
          /\ stage'[l] = "execute" /\ committed[l] = <<>> /\ batch[l] = <<>>
      BY <1>0, <2>2 DEF TakeBatch, Resting
    <3> HIDE DEF n
    <3>3. a \in Seq(Job) /\ r \in Seq(Job) /\ a \o r = q
      BY <1>0, <3>1, Cut
    <3> HIDE DEF a, r
    <3>4. <<>> \in Seq(Job) /\ <<>> \o a = a /\ <<>> \o <<>> = <<>> /\ <<>> \o q = q
      BY <1>0, <3>3, ConcatEmptySeq, EmptySeq
    <3> QED BY <3>2, <3>3, <3>4
  <2>3. CASE Execute(l)
    <3> DEFINE j == Head(batch[l])
               r == Tail(batch[l])
               c == committed[l]
    <3>1. /\ batch[l] # <<>> /\ committed'[l] = Append(c, j) /\ batch'[l] = r
          /\ queue'[l] = queue[l] /\ stage'[l] \in {"execute", "confirm"}
      BY <1>0, <2>3 DEF Execute, Shape, Working
    <3>2. j \in Job /\ r \in Seq(Job) /\ batch[l] = <<j>> \o r
      BY <1>0, <3>1, HeadAndTail, HeadJoinsTail
    <3> HIDE DEF j, r, c
    <3>3. c \in Seq(Job) /\ <<j>> \in Seq(Job) /\ Append(c, j) = c \o <<j>>
      BY <1>0, <3>2, AppendIsConcat DEF c
    <3>4. (c \o <<j>>) \o r = c \o (<<j>> \o r)
      BY <3>2, <3>3, ConcatAssociative
    <3> QED BY <3>1, <3>2, <3>3, <3>4 DEF c
  <2>4. CASE ExecuteFails(l) \/ ExecuteUnknown(l)
    BY <1>0, <2>4 DEF ExecuteFails, ExecuteUnknown, WillRun, AfterFailure
  <2>5. CASE WriteDone(l)
    <3>1. stage'[l] \in {"remember", "confirm"} /\ UNCHANGED <<queue, batch, committed>>
      BY <1>0, <2>5 DEF WriteDone
    <3> QED BY <3>1
  <2>6. CASE WriteDoneFails(l) \/ RememberOne(l) \/ FinishOne(l)
    BY <1>0, <2>6 DEF WriteDoneFails, RememberOne, FinishOne, laneVars
  <2> QED BY <2>1, <2>2, <2>3, <2>4, <2>5, <2>6
<1>5. \A m \in Lanes : LiveJobs(m)' = LiveJobs(m)
  BY <1>3, <1>4 DEF LiveJobs
<1>6. Resting'
  BY <1>3, <1>4 DEF Resting
<1> QED BY <1>1, <1>2, <1>5, <1>6 DEF Unmoved

LEMMA UnmovedTable ==
    ASSUME Shape, Shape', Table, Unmoved
    PROVE  Table'
<1>1. \A l \in Lanes : Live(l)' = Live(l)
  BY DEF Unmoved, Live
<1>2. Owners' = Owners /\ Lined'
  BY <1>1 DEF Unmoved, Owners, Lined, Table
<1>3. AdmP!IInv'
  BY <1>2, BooksSame DEF Unmoved, Table, Shape
<1> QED BY <1>2, <1>3 DEF Unmoved, Table

\* What is kept of a batch is charged to it as a whole.
LEMMA ReserveTable ==
    ASSUME Shape, Shape', Table, ReserveBatch \/ ReserveReplay
    PROVE  /\ Table'
           /\ Distinct(pub.kept) /\ ToSet(pub.kept) \cap Owners = {}
           /\ Unpublished = <<>> /\ Unpublished' = pub.kept
           /\ \A l \in Lanes : LiveJobs(l)' = LiveJobs(l)
<1> DEFINE s == pub.kept
<1>1. pub \in PubState /\ s \in Seq(Ids) /\ pub.stage = "filter"
  BY DEF Shape, TypeOK, PubState, ReserveBatch, ReserveReplay
<1>2. UNCHANGED laneVars /\ ReserveKept
  BY DEF ReserveBatch, ReserveReplay
<1>3. Unpublished = <<>> /\ Unpublished' = s
  <2>1. CASE ReserveBatch
    <3>1. pub'.stage = "append" /\ pub'.kept = s
      BY <1>1, <2>1 DEF ReserveBatch, PubState
    <3> QED BY <1>1, <3>1 DEF Unpublished
  <2>2. CASE ReserveReplay
    <3>1. pub'.stage = "push" /\ pub'.todo = s
      BY <1>1, <2>2 DEF ReserveReplay, Accepted, PubState
    <3> QED BY <1>1, <3>1 DEF Unpublished
  <2> QED BY <2>1, <2>2
<1>4. \A l \in Lanes : LiveJobs(l)' = LiveJobs(l) /\ Live(l)' = Live(l)
  BY <1>2 DEF laneVars, LiveJobs, Live
<1>5. Owners' = Owners \cup ToSet(s)
  BY <1>3, <1>4, ElementsOfFew DEF Owners
<1>6. AdmP!IInv' /\ Distinct(s) /\ ToSet(s) \cap Owners = {}
  BY <1>1, <1>2, <1>5, BooksCharged DEF ReserveKept, Table, Shape
<1>7. Lined'
  BY <1>3, <1>4, <1>6 DEF Lined, Table, Owners
<1>8. Resting'
  BY <1>2 DEF Resting, Table, laneVars
<1> QED BY <1>3, <1>4, <1>6, <1>7, <1>8 DEF Table

\* The first of the permits of a failed batch is dropped.
LEMMA UndoTable ==
    ASSUME Shape, Shape', Table, UndoOne
    PROVE  Table'
<1> DEFINE i == Head(pub.todo)
           r == Tail(pub.todo)
           one == <<i>>
<1>1. pub \in PubState /\ pub.todo \in Seq(Ids) /\ pub.todo # <<>> /\ pub.stage = "undo"
  BY DEF Shape, TypeOK, PubState, UndoOne
<1>2. /\ i \in Ids /\ r \in Seq(Ids) /\ ToSet(pub.todo) = {i} \cup ToSet(r)
      /\ pub.todo = one \o r /\ one \in Seq(Ids) /\ ToSet(one) = {i}
  BY <1>1, HeadAndTail, HeadJoinsTail, ElementsOfFew
<1>3. Unpublished = pub.todo /\ Unpublished' = r
  BY <1>1 DEF UndoOne, Unpublished, PubState
<1>4. \A l \in Lanes : Live(l)' = Live(l)
  BY DEF UndoOne, laneVars, LiveJobs, Live
<1>5. /\ active' = active \ {i} /\ usage' = Adm!Refund(usage, PermitOf(i))
      /\ Lined /\ AdmP!IInv /\ Resting /\ TypeOK /\ TypeOK'
  BY DEF UndoOne, Table, Shape
<1> HIDE DEF i, r, one
<1>6. Distinct(r) /\ i \notin ToSet(r)
  <2>1. Distinct(one \o r)
    BY <1>2, <1>3, <1>5 DEF Lined
  <2> QED BY <1>2, <2>1, DistinctParts
<1>7. Owners' = Owners \ {i} /\ i \in Owners
  BY <1>2, <1>3, <1>4, <1>5, <1>6 DEF Owners, Lined
<1>8. AdmP!IInv'
  BY <1>5, <1>7, BooksRefunded
<1>9. Lined'
  BY <1>2, <1>3, <1>4, <1>5, <1>6 DEF Lined
<1>10. Resting'
  BY <1>5 DEF UndoOne, laneVars, Resting
<1> QED BY <1>8, <1>9, <1>10 DEF Table

\* A permit moves from the publisher to a job at the end of its lane.
LEMMA PushMoves ==
    ASSUME Shape, Table, PushOne,
           NEW i, i = Head(pub.todo), NEW r, r = Tail(pub.todo)
    PROVE  /\ i \in Ids /\ r \in Seq(Ids) /\ LaneOf[i] \in Lanes
           /\ pub.todo = <<i>> \o r /\ ToSet(pub.todo) = {i} \cup ToSet(r)
           /\ Unpublished = pub.todo /\ Unpublished' = r /\ pub'.todo = r
           /\ Distinct(r) /\ i \notin ToSet(r) /\ i \notin ToSet(Live(LaneOf[i]))
           /\ Live(LaneOf[i])' = Append(Live(LaneOf[i]), i)
           /\ \A m \in Lanes : m # LaneOf[i] => Live(m)' = Live(m)
<1> DEFINE one == <<i>>
           l == LaneOf[i]
           j == [id |-> i, tok |-> pub.tok]
           c == committed[l] \o batch[l]
           q == queue[l]
<1>1. /\ pub \in PubState /\ pub.todo \in Seq(Ids) /\ pub.todo # <<>>
      /\ pub.stage = "push" /\ pub.tok \in Tokens
  BY DEF Shape, TypeOK, PubState, PushOne, Publishing
<1>2. /\ i \in Ids /\ r \in Seq(Ids) /\ ToSet(pub.todo) = {i} \cup ToSet(r)
      /\ pub.todo = one \o r /\ one \in Seq(Ids) /\ ToSet(one) = {i}
  BY <1>1, HeadAndTail, HeadJoinsTail, ElementsOfFew
<1>3. Unpublished = pub.todo /\ Unpublished' = r /\ pub'.todo = r
  BY <1>1 DEF PushOne, Unpublished, PubState
<1>4. queue' = [queue EXCEPT ![l] = Append(@, j)] /\ UNCHANGED <<batch, committed>>
  BY DEF PushOne
<1> HIDE DEF one
<1>5. l \in Lanes /\ j \in Job /\ j.id = i
  BY <1>1, <1>2, SqlSinkAssumption DEF Job
<1> HIDE DEF j, l
<1>6. /\ c \in Seq(Job) /\ q \in Seq(Job) /\ LiveJobs(l) = c \o q
      /\ LiveJobs(l)' = c \o Append(q, j)
      /\ \A m \in Lanes : m # l => Live(m)' = Live(m)
  <2>1. queue \in [Lanes -> Seq(Job)] /\ batch[l] \in Seq(Job) /\ committed[l] \in Seq(Job)
    BY <1>5 DEF Shape, TypeOK
  <2>2. queue'[l] = Append(q, j) /\ \A m \in Lanes : m # l => queue'[m] = queue[m]
    BY <1>4, <1>5, <2>1
  <2>3. c \in Seq(Job)
    BY <2>1, Joined
  <2>4. LiveJobs(l)' = c \o Append(q, j)
    BY <1>4, <2>2 DEF LiveJobs
  <2>5. LiveJobs(l) = c \o q
    BY DEF LiveJobs
  <2>6. \A m \in Lanes : m # l => Live(m)' = Live(m)
    BY <1>4, <2>2 DEF LiveJobs, Live
  <2> QED BY <1>5, <2>1, <2>3, <2>4, <2>5, <2>6
<1> HIDE DEF c, q
<1>7. c \o q \in Seq(Job) /\ c \o Append(q, j) = Append(c \o q, j)
  BY <1>5, <1>6, Joined, AppendsBehind
<1>8. Live(l)' = Append(Live(l), i)
  <2>1. Live(l) = JobIds(c \o q) /\ Live(l)' = JobIds(c \o Append(q, j))
    BY <1>6 DEF Live
  <2>2. JobIds(Append(c \o q, j)) = Append(JobIds(c \o q), j.id)
    BY <1>5, <1>7, JobIdsAppended
  <2> QED BY <1>5, <1>7, <2>1, <2>2
<1>9. Distinct(one \o r) /\ i \notin ToSet(Live(l))
  BY <1>2, <1>3, <1>5 DEF Table, Lined
<1>10. Distinct(r) /\ i \notin ToSet(r)
  BY <1>2, <1>9, DistinctParts
<1> QED BY <1>2, <1>3, <1>5, <1>6, <1>8, <1>9, <1>10 DEF one, l

LEMMA PushTable ==
    ASSUME Shape, Shape', Table, PushOne
    PROVE  Table'
<1>1. PICK i, r : i = Head(pub.todo) /\ r = Tail(pub.todo)
  OBVIOUS
<1> DEFINE l == LaneOf[i]
<1>2. /\ i \in Ids /\ r \in Seq(Ids) /\ l \in Lanes
      /\ ToSet(pub.todo) = {i} \cup ToSet(r)
      /\ Unpublished = pub.todo /\ Unpublished' = r
      /\ Distinct(r) /\ i \notin ToSet(r) /\ i \notin ToSet(Live(l))
      /\ Live(l)' = Append(Live(l), i)
      /\ \A m \in Lanes : m # l => Live(m)' = Live(m)
  BY <1>1, PushMoves
<1>3. /\ Lined /\ Resting /\ AdmP!IInv /\ UNCHANGED admVars
      /\ Live(l) \in Seq(Ids) /\ TypeOK /\ TypeOK'
  BY <1>2, LiveTyped DEF Table, Shape, PushOne
<1>4. /\ ToSet(Append(Live(l), i)) = ToSet(Live(l)) \cup {i}
      /\ Distinct(Append(Live(l), i)) <=> Distinct(Live(l)) /\ i \notin ToSet(Live(l))
  BY <1>2, <1>3, Appended, AppendedDistinct
<1>5. Owners' = Owners
  <2>1. ToSet(Live(l)') = ToSet(Live(l)) \cup {i}
    BY <1>2, <1>4
  <2>2. ToSet(Unpublished') = ToSet(r) /\ ToSet(Unpublished) = {i} \cup ToSet(r)
    BY <1>2
  <2>3. \A m \in Lanes : m # l => ToSet(Live(m)') = ToSet(Live(m))
    BY <1>2
  <2>4. \A x : x \in Owners <=> x \in ToSet(r) \/ x = i \/ \E m \in Lanes : x \in ToSet(Live(m))
    BY <2>2 DEF Owners
  <2>5. \A x : x \in Owners' <=> x \in ToSet(r) \/ \E m \in Lanes : x \in ToSet(Live(m)')
    BY <2>2 DEF Owners
  <2> HIDE DEF l
  <2> QED BY <1>2, <2>1, <2>3, <2>4, <2>5
<1>6. Lined'
  <2>1. Distinct(Live(l)') /\ ToSet(Live(l)') = ToSet(Live(l)) \cup {i}
    BY <1>2, <1>3, <1>4 DEF Lined
  <2>2. /\ \A m \in Lanes : \A x \in ToSet(Live(m)) : LaneOf[x] = m /\ x \notin ToSet(r)
        /\ \A m \in Lanes : Distinct(Live(m))
    BY <1>2, <1>3 DEF Lined
  <2>3. \A m \in Lanes : /\ Distinct(Live(m)')
                         /\ \A x \in ToSet(Live(m)') : LaneOf[x] = m /\ x \notin ToSet(r)
    <3> TAKE m \in Lanes
    <3>1. CASE m = l
      BY <1>2, <2>1, <2>2, <3>1
    <3>2. CASE m # l
      BY <1>2, <2>2, <3>2
    <3> QED BY <3>1, <3>2
  <2> QED BY <1>2, <2>3 DEF Lined
<1>7. Resting'
  BY <1>3 DEF PushOne, Resting
<1> QED BY <1>3, <1>5, <1>6, <1>7, BooksSame DEF Table

\* The first of the committed jobs is dropped with its permit.
LEMMA RetireMoves ==
    ASSUME Shape, Table, NEW l \in Lanes, RetireOne(l), NEW i, i = Head(committed[l]).id
    PROVE  /\ i \in Ids /\ i \in ToSet(Live(l)) /\ Unpublished' = Unpublished
           /\ Live(l) = <<i>> \o Live(l)' /\ Live(l)' \in Seq(Ids)
           /\ ToSet(Live(l)') = ToSet(Live(l)) \ {i} /\ Distinct(Live(l)')
           /\ \A m \in Lanes : m # l => Live(m)' = Live(m)
<1> DEFINE c == committed[l]
           b == batch[l]
           q == queue[l]
           r == Tail(c)
           one == <<Head(c)>>
           new == JobIds((r \o b) \o q)
<1>1. c \in Seq(Job) /\ b \in Seq(Job) /\ q \in Seq(Job) /\ c # <<>>
  BY DEF Shape, TypeOK, RetireOne, Working
<1>2. /\ committed' = [committed EXCEPT ![l] = Tail(@)]
      /\ UNCHANGED <<queue, batch, pub>>
  BY DEF RetireOne
<1>3. committed'[l] = r /\ \A m \in Lanes : m # l => committed'[m] = committed[m]
  BY <1>2 DEF Shape, TypeOK
<1>4. /\ Unpublished' = Unpublished /\ Live(l)' = new /\ Live(l) = JobIds((c \o b) \o q)
      /\ \A m \in Lanes : m # l => Live(m)' = Live(m)
  BY <1>2, <1>3 DEF Unpublished, Live, LiveJobs
<1>5. Head(c) \in Job /\ r \in Seq(Job) /\ one \in Seq(Job) /\ c = one \o r
  BY <1>1, HeadAndTail, HeadJoinsTail
<1>6. i \in Ids /\ JobIds(one) = <<i>>
  BY <1>5, JobIdsOfOne DEF Job
<1> HIDE DEF c, b, q, r, one
<1>7. (c \o b) \o q = one \o ((r \o b) \o q) /\ (r \o b) \o q \in Seq(Job)
  <2> DEFINE w == r \o b
  <2>1. one \in Seq(Job) /\ r \in Seq(Job) /\ b \in Seq(Job)
    BY <1>1, <1>5
  <2>2. w \in Seq(Job)
    BY <2>1, Joined
  <2>3. (one \o r) \o b = one \o w
    BY <2>1, ConcatAssociative
  <2> HIDE DEF w
  <2>4. one \in Seq(Job) /\ w \in Seq(Job) /\ q \in Seq(Job)
    BY <1>1, <2>1, <2>2
  <2>5. (one \o w) \o q = one \o (w \o q)
    BY <2>4, ConcatAssociative
  <2>6. w \o q \in Seq(Job)
    BY <2>4, Joined
  <2>7. (c \o b) \o q = one \o (w \o q)
    BY <1>5, <2>3, <2>5
  <2> QED BY <2>6, <2>7 DEF w
<1>8. new \in Seq(Ids) /\ Live(l) = <<i>> \o new
  BY <1>4, <1>5, <1>6, <1>7, JobIdsJoined, JobIdsTyped
<1> HIDE DEF new
<1>9. <<i>> \in Seq(Ids) /\ ToSet(<<i>>) = {i}
  BY <1>6, ElementsOfFew
<1>10. ToSet(Live(l)) = {i} \cup ToSet(new)
  <2> DEFINE s == <<i>>
  <2>1. s \in Seq(Ids) /\ new \in Seq(Ids) /\ ToSet(s) = {i} /\ Live(l) = s \o new
    BY <1>8, <1>9
  <2> HIDE DEF s
  <2>2. ToSet(s \o new) = ToSet(s) \cup ToSet(new)
    BY <2>1, Joined
  <2> QED BY <2>1, <2>2
<1>11. Distinct(new) /\ i \notin ToSet(new)
  <2>1. Distinct(<<i>> \o new)
    BY <1>8 DEF Table, Lined
  <2> QED BY <1>8, <1>9, <2>1, DistinctParts
<1>12. ToSet(new) = ToSet(Live(l)) \ {i} /\ i \in ToSet(Live(l))
  BY <1>10, <1>11
<1> QED BY <1>4, <1>6, <1>8, <1>11, <1>12

LEMMA RetireTable ==
    ASSUME Shape, Shape', Table, NEW l \in Lanes, RetireOne(l)
    PROVE  Table'
<1>1. PICK i : i = Head(committed[l]).id
  OBVIOUS
<1>2. /\ i \in Ids /\ i \in ToSet(Live(l)) /\ Unpublished' = Unpublished
      /\ ToSet(Live(l)') = ToSet(Live(l)) \ {i} /\ Distinct(Live(l)')
      /\ \A m \in Lanes : m # l => Live(m)' = Live(m)
  BY <1>1, RetireMoves
<1>3. /\ Lined /\ Resting /\ AdmP!IInv /\ TypeOK /\ TypeOK'
      /\ active' = active \ {i} /\ usage' = Adm!Refund(usage, PermitOf(i))
  BY <1>1 DEF Table, Shape, RetireOne
<1>4. /\ i \notin ToSet(Unpublished)
      /\ \A m \in Lanes : m # l => i \notin ToSet(Live(m))
  BY <1>2, <1>3 DEF Lined
<1>5. Owners' = Owners \ {i} /\ i \in Owners
  <2>1. \A x : x \in Owners <=> x \in ToSet(Unpublished) \/ \E m \in Lanes : x \in ToSet(Live(m))
    BY DEF Owners
  <2>2. \A x : x \in Owners' <=> x \in ToSet(Unpublished) \/ \E m \in Lanes : x \in ToSet(Live(m)')
    BY <1>2 DEF Owners
  <2>3. \A m \in Lanes : ToSet(Live(m)') = ToSet(Live(m)) \ {i}
    BY <1>2, <1>4
  <2> QED BY <1>2, <1>4, <2>1, <2>2, <2>3
<1>6. Lined'
  <2>1. \A m \in Lanes : Distinct(Live(m)') /\ ToSet(Live(m)') \subseteq ToSet(Live(m))
    BY <1>2, <1>3 DEF Lined
  <2> QED BY <1>2, <1>3, <2>1 DEF Lined
<1>7. Resting'
  <2>1. committed[l] \in Seq(Job) /\ committed[l] # <<>> /\ stage[l] = "retire"
    BY DEF Shape, TypeOK, RetireOne, Working
  <2>2. /\ \A m \in Lanes : m # l => committed'[m] = committed[m] /\ stage'[m] = stage[m]
        /\ committed'[l] = Tail(committed[l]) /\ batch' = batch
        /\ stage'[l] = IF Len(committed[l]) > 1 THEN "remember"
                       ELSE IF batch[l] # <<>> THEN "execute" ELSE "take"
    BY DEF RetireOne, Shape, TypeOK
  <2>3. stage'[l] \in {"take", "asleep"} => batch[l] = <<>> /\ Len(committed[l]) = 1
    <3>1. Len(committed[l]) \in Nat \ {0}
      BY <2>1, EmptySeq
    <3>2. CASE Len(committed[l]) > 1
      BY <2>2, <3>2
    <3>3. CASE ~(Len(committed[l]) > 1)
      <4>1. \A n \in Nat \ {0} : n > 1 \/ n = 1
        OBVIOUS
      <4>2. batch[l] # <<>> => stage'[l] = "execute"
        BY <2>2, <3>3
      <4> QED BY <3>1, <3>3, <4>1, <4>2
    <3> QED BY <3>2, <3>3
  <2>4. Len(committed[l]) = 1 => Tail(committed[l]) = <<>>
    <3> SUFFICES ASSUME Len(committed[l]) = 1 PROVE Tail(committed[l]) = <<>>
      OBVIOUS
    <3>1. Tail(committed[l]) \in Seq(Job) /\ Len(Tail(committed[l])) = 0
      BY <2>1, HeadTailProperties
    <3> QED BY <3>1, EmptySeq
  <2> QED BY <1>3, <2>2, <2>3, <2>4 DEF Resting
<1> QED BY <1>3, <1>5, <1>6, <1>7, BooksRefunded DEF Table

NoJobs == Unpublished = <<>> /\ \A l \in Lanes : LiveJobs(l) = <<>>

NoOwners == Lined /\ Owners = {}

LEMMA NobodyLeft == NoJobs => NoOwners
<1> SUFFICES ASSUME Unpublished = <<>>, \A l \in Lanes : LiveJobs(l) = <<>>
             PROVE  Lined /\ Owners = {}
  BY DEF NoJobs, NoOwners
<1>1. \A l \in Lanes : Live(l) = <<>>
  BY JobIdsOfNone DEF Live
<1>2. ToSet(<<>>) = {} /\ Distinct(<<>>)
  BY ElementsOfFew DEF Distinct
<1> QED BY <1>1, <1>2 DEF Lined, Owners

LEMMA CrashEmpties ==
    ASSUME Crash
    PROVE  /\ Unpublished' = <<>> /\ \A l \in Lanes : LiveJobs(l)' = <<>>
           /\ Lined' /\ Owners' = {} /\ Resting'
<1>1. /\ pub' = Offline
      /\ \A l \in Lanes : committed'[l] = <<>> /\ batch'[l] = <<>> /\ queue'[l] = <<>>
  BY DEF Crash
<1>2. Unpublished' = <<>>
  BY <1>1 DEF Unpublished, Offline
<1>3. <<>> \o <<>> = <<>>
  BY ConcatEmptySeq, EmptySeq
<1>4. \A l \in Lanes : LiveJobs(l)' = <<>>
  BY <1>1, <1>3 DEF LiveJobs
<1>5. NoJobs'
  BY <1>2, <1>4 DEF NoJobs
<1>6. NoOwners'
  BY <1>5, NobodyLeft, PTL
<1> QED BY <1>1, <1>2, <1>4, <1>6 DEF Resting, NoOwners

LEMMA CrashTable ==
    ASSUME Shape', Crash
    PROVE  Table'
<1>1. active' = {} /\ usage' = Adm!NoUsage
  BY DEF Crash
<1> QED BY <1>1, CrashEmpties, BooksEmptied DEF Table, Shape

LEMMA StartMovesNothing ==
    ASSUME Shape, Resting, Repair \/ Recover \/ UNCHANGED vars
    PROVE  Unmoved
<1>1. UNCHANGED <<admVars, laneVars>>
  BY DEF Repair, Recover, vars, admVars, laneVars
<1>2. pub' = pub \/ (pub.stage = "free" /\ pub'.stage = "filter")
  BY DEF Repair, Recover, vars, Offline
<1> QED BY <1>1, <1>2 DEF Unmoved, Resting, LiveJobs, laneVars, Unpublished

LEMMA InitTable == Init => Table
<1> SUFFICES ASSUME Init PROVE Table
  OBVIOUS
<1>1. <<>> \o <<>> = <<>>
  BY ConcatEmptySeq, EmptySeq
<1>2. Unpublished = <<>> /\ \A l \in Lanes : LiveJobs(l) = <<>>
  BY <1>1 DEF Init, Offline, Unpublished, LiveJobs
<1>3. Lined /\ Owners = {}
  BY <1>2, NobodyLeft DEF NoJobs, NoOwners
<1>4. Permits = {}
  BY <1>3, InitShape, OwnersPermits DEF Shape, Listed
<1>5. AdmP!Init
  BY <1>4 DEF Init, AdmP!Init, Adm!NoUsage, AdmP!NoUsage
<1>6. Resting
  BY DEF Init, Resting
<1> QED BY <1>3, <1>5, <1>6, AdmP!EmptyAtFirst, Assumed DEF Table

LEMMA TableInductive == Shape /\ Shape' /\ Table /\ [Next]_vars => Table'
<1> SUFFICES ASSUME Shape, Shape', Table, [Next]_vars PROVE Table'
  OBVIOUS
<1>0. Resting
  BY DEF Table
<1>1. ASSUME NEW c \in Conns, Handler(c) PROVE Table'
  BY <1>0, <1>1, HandlerMovesNothing, UnmovedTable
<1>2. CASE Publisher
  BY <1>0, <1>2, PublisherMovesNothing, UnmovedTable, ReserveTable, UndoTable, PushTable
     DEF Publisher
<1>3. ASSUME NEW l \in Lanes, Worker(l) PROVE Table'
  BY <1>0, <1>3, WorkerMovesNothing, UnmovedTable, RetireTable DEF Worker
<1>4. CASE Crash
  BY <1>4, CrashTable
<1>5. CASE Repair \/ Recover \/ UNCHANGED vars
  BY <1>0, <1>5, StartMovesNothing, UnmovedTable
<1> QED BY <1>1, <1>2, <1>3, <1>4, <1>5 DEF Next

\* The permits in the table are those of the jobs alive, in rows, lanes and
\* bytes, and stay within the limits: no failed append, crash or race between
\* the publisher and the workers leaks capacity or gives it back early.
THEOREM PermitsAreExact == Spec => []PermitsFollowJobs
<1>1. Init => Shape /\ Table
  BY InitShape, InitTable
<1>2. (Shape /\ Table) /\ [Next]_vars => (Shape /\ Table)'
  BY ShapeInductive, TableInductive
<1>3. Shape /\ Table => PermitsFollowJobs
  <2> SUFFICES ASSUME Shape, Table PROVE PermitsFollowJobs
    OBVIOUS
  <2>1. AdmP!IInv
    BY DEF Table
  <2>2. AdmP!ActiveExact /\ AdmP!RowsExact /\ AdmP!BytesExact /\ AdmP!WithinLimits
    BY <2>1, AdmP!BooksAreRight, Assumed
  <2>3. Adm!ActiveExact
    BY <2>2, SameWords DEF Adm!ActiveExact, AdmP!ActiveExact
  <2>4. Adm!RowsExact
    BY <2>2, SameWords DEF Adm!RowsExact, AdmP!RowsExact
  <2>5. Adm!BytesExact
    BY <2>2, SameWords DEF Adm!BytesExact, AdmP!BytesExact
  <2>6. Adm!WithinLimits
    BY <2>2 DEF Adm!WithinLimits, AdmP!WithinLimits
  <2> QED BY <2>3, <2>4, <2>5, <2>6 DEF PermitsFollowJobs
<1> QED
  BY <1>1, <1>2, <1>3, PTL DEF Spec

-----------------------------------------------------------------------------
(* The journal file: lines and the appends they belong to                  *)

\* An id is pending at most once, in the window at most once, and never both.
Sound(d) ==
    /\ Distinct(d.pend) /\ Distinct(d.done)
    /\ ToSet(d.pend) \cap ToSet(d.done) = {}

\* What is left of a sequence without one of its elements.
LEMMA WithoutOne ==
    ASSUME NEW p \in Seq(Ids), Distinct(p), NEW i \in Ids
    PROVE  /\ Without(p, i) = Among(p, Ids \ {i})
           /\ Without(p, i) \in Seq(Ids) /\ Distinct(Without(p, i))
           /\ ToSet(Without(p, i)) = ToSet(p) \ {i}
<1> DEFINE S == Ids \ {i}
<1>0. DOMAIN p = 1 .. Len(p) /\ ToSet(p) \subseteq Ids
  BY LenProperties, Elements
<1>1. Without(p, i) = Among(p, S)
  <2>1. CASE i \notin ToSet(p)
    <3>1. Without(p, i) = p /\ ToSet(p) \subseteq S
      BY <1>0, <2>1 DEF Without
    <3> HIDE DEF S
    <3>2. Among(p, S) = p
      BY <3>1, AmongWhole
    <3> QED BY <1>0, <3>1, <3>2
  <2>2. CASE i \in ToSet(p)
    <3> DEFINE k == CHOOSE n \in DOMAIN p : p[n] = i
    <3>1. \E n \in 1 .. Len(p) : p[n] = i
      BY <2>2, Elements
    <3>2. k \in 1 .. Len(p) /\ p[k] = i
      BY <1>0, <3>1
    <3>3. Without(p, i) = RemoveAt(p, k)
      BY <2>2 DEF Without
    <3> HIDE DEF k
    <3> QED BY <3>2, <3>3, ElementRemoved
  <2> QED BY <2>1, <2>2
<1>2. Among(p, S) \in Seq(Ids) /\ ToSet(Among(p, S)) = ToSet(p) \cap S /\ Distinct(Among(p, S))
  BY AmongElements, AmongDistinct
<1> QED BY <1>0, <1>1, <1>2

\* A known id keeps its place in the window, which then holds it in any case;
\* it forgets nothing as long as there is room for every id.
LEMMA Remembers ==
    ASSUME NEW w \in Seq(Ids), Distinct(w), NEW i \in Ids
    PROVE  /\ Distinct(RememberId(w, i))
           /\ Cardinality(Ids) <= DedupeEvents
                => ToSet(RememberId(w, i)) = ToSet(w) \cup {i}
<1> DEFINE longer == Append(w, i)
<1>1. CASE DedupeEvents = 0 \/ i \in ToSet(w)
  <2>1. RememberId(w, i) = w
    BY <1>1 DEF RememberId
  <2>2. Cardinality(Ids) <= DedupeEvents => i \in ToSet(w)
    <3> SUFFICES ASSUME Cardinality(Ids) <= 0 PROVE FALSE
      BY <1>1
    <3>1. Cardinality({i}) = 1 /\ {i} \subseteq Ids /\ IsFiniteSet(Ids)
      BY FS_Singleton, SqlSinkAssumption
    <3>2. Cardinality({i}) <= Cardinality(Ids) /\ Cardinality(Ids) \in Nat
      BY <3>1, FS_Subset, FS_CardinalityType
    <3> QED BY <3>1, <3>2
  <2> QED BY <2>1, <2>2
<1>2. CASE ~(DedupeEvents = 0 \/ i \in ToSet(w))
  <2>1. /\ longer \in Seq(Ids) /\ longer # <<>>
        /\ ToSet(longer) = ToSet(w) \cup {i}
    BY AppendProperties, Appended
  <2>2. Distinct(longer)
    BY <1>2, AppendedDistinct
  <2>3. RememberId(w, i) = IF Len(longer) > DedupeEvents THEN Tail(longer) ELSE longer
    BY <1>2 DEF RememberId
  <2> HIDE DEF longer
  <2>4. Distinct(Tail(longer))
    BY <2>1, <2>2, RestDistinct
  <2>5. Cardinality(Ids) <= DedupeEvents => ~(Len(longer) > DedupeEvents)
    <3>1. ToSet(longer) \subseteq Ids /\ IsFiniteSet(Ids)
      BY <2>1, SqlSinkAssumption, Elements
    <3>2. Len(longer) <= Cardinality(Ids)
      BY <2>1, <2>2, <3>1, DistinctFits
    <3>3. Len(longer) \in Nat /\ Cardinality(Ids) \in Nat /\ DedupeEvents \in Nat
      BY <2>1, <3>1, FS_CardinalityType, LenProperties, JournalStateAssumption
    <3> QED BY <3>2, <3>3
  <2> QED BY <2>1, <2>2, <2>3, <2>4, <2>5
<1> QED BY <1>1, <1>2

LEMMA DiskFacts ==
    ASSUME NEW d \in Disk
    PROVE  /\ d.pend \in Seq(Ids) /\ d.done \in Seq(Ids)
           /\ ToSet(d.pend) \subseteq Ids /\ ToSet(d.done) \subseteq Ids
<1>1. d.pend \in Seq(Ids) /\ d.done \in Seq(Ids)
  BY DEF Disk
<1> QED BY <1>1, Elements

\* A pending line for an event that is not pending.
LEMMA PendingLine ==
    ASSUME NEW d \in Disk, Sound(d), NEW i \in Ids, i \notin ToSet(d.pend)
    PROVE  /\ Sound(PutPending(d, i))
           /\ PutPending(d, i).pend = IF i \in ToSet(d.done) THEN d.pend
                                      ELSE Append(d.pend, i)
<1>0. d.pend \in Seq(Ids) /\ d.done \in Seq(Ids) /\ d = [pend |-> d.pend, done |-> d.done]
  BY DEF Disk
<1>1. CASE i \in ToSet(d.done)
  BY <1>1 DEF PutPending
<1>2. CASE i \notin ToSet(d.done)
  <2> DEFINE p == Append(d.pend, i)
  <2>1. PutPending(d, i) = [pend |-> p, done |-> d.done]
    BY <1>0, <1>2 DEF PutPending
  <2>2. ToSet(p) = ToSet(d.pend) \cup {i} /\ Distinct(p)
    BY <1>0, Appended, AppendedDistinct DEF Sound
  <2> HIDE DEF p
  <2>3. Sound(PutPending(d, i))
    BY <1>2, <2>1, <2>2 DEF Sound
  <2> QED BY <1>2, <2>1, <2>3 DEF p
<1> QED BY <1>1, <1>2

LEMMA DoneLine ==
    ASSUME NEW d \in Disk, Sound(d), NEW i \in Ids
    PROVE  /\ Sound(PutDone(d, i))
           /\ PutDone(d, i).pend = Among(d.pend, Ids \ {i})
           /\ Cardinality(Ids) <= DedupeEvents
                => ToSet(PutDone(d, i).done) = ToSet(d.done) \cup {i}
<1> DEFINE p == Without(d.pend, i)
           w == RememberId(d.done, i)
<1>0. d.pend \in Seq(Ids) /\ d.done \in Seq(Ids) /\ d = [pend |-> d.pend, done |-> d.done]
  BY DEF Disk
<1>1. PutDone(d, i) = [pend |-> p, done |-> w]
  <2>1. PutDone(d, i) = [d EXCEPT !.pend = p, !.done = w]
    BY DEF PutDone
  <2> HIDE DEF p, w
  <2> QED BY <1>0, <2>1
<1>2. /\ p = Among(d.pend, Ids \ {i}) /\ Distinct(p)
      /\ ToSet(p) = ToSet(d.pend) \ {i}
  BY <1>0, WithoutOne DEF Sound
<1>3. /\ Distinct(w) /\ ToSet(w) \subseteq ToSet(d.done) \cup {i}
      /\ Cardinality(Ids) <= DedupeEvents => ToSet(w) = ToSet(d.done) \cup {i}
  BY <1>0, Remembers, RememberFacts DEF Sound
<1> HIDE DEF p, w
<1>4. Sound(PutDone(d, i))
  BY <1>1, <1>2, <1>3 DEF Sound
<1> QED BY <1>1, <1>2, <1>3, <1>4

\* The events of lane l.
LEMMA LaneFacts ==
    ASSUME NEW s \in Seq(Ids), NEW l \in Lanes
    PROVE  /\ Lane(s, l) \in Seq(Ids)
           /\ ToSet(Lane(s, l)) = {i \in ToSet(s) : LaneOf[i] = l}
           /\ Lane(s, l) = Among(s, IdsOfLane[l])
           /\ IdsOfLane[l] = {i \in Ids : LaneOf[i] = l}
<1> DEFINE L == IdsOfLane[l]
<1>1. L = {i \in Ids : LaneOf[i] = l} /\ Lane(s, l) = Among(s, L)
  BY DEF IdsOfLane, Lane
<1>2. ToSet(s) \subseteq Ids
  BY Elements
<1> HIDE DEF L
<1>3. Among(s, L) \in Seq(Ids) /\ ToSet(Among(s, L)) = ToSet(s) \cap L
  BY AmongElements
<1> QED BY <1>1, <1>2, <1>3 DEF L

LEMMA LaneJoined ==
    ASSUME NEW s \in Seq(Ids), NEW t \in Seq(Ids), NEW l \in Lanes
    PROVE  Lane(s \o t, l) = Lane(s, l) \o Lane(t, l)
BY AmongJoined DEF Lane

\* Selecting by lane and by anything else, in either order.
LEMMA LaneAmong ==
    ASSUME NEW s \in Seq(Ids), NEW S, NEW l \in Lanes
    PROVE  Lane(Among(s, S), l) = Among(Lane(s, l), S)
<1> DEFINE L == IdsOfLane[l]
<1>1. Among(Among(s, S), L) = Among(s, S \cap L)
  BY AmongTwice
<1>2. Among(Among(s, L), S) = Among(s, L \cap S)
  BY AmongTwice
<1>3. S \cap L = L \cap S
  OBVIOUS
<1> QED BY <1>1, <1>2, <1>3 DEF Lane

-----------------------------------------------------------------------------
(* The journal file: what it holds while it is written                     *)

FileSound == Sound(disk) /\ Sound(Stable)

\* What an unfinished append has added to the file so far, or taken away.
Written ==
    /\ jrnl.holder = "pub" =>
         /\ disk.done = jrnl.before.done
         /\ disk.pend = jrnl.before.pend
                          \o Among(SubSeq(pub.kept, 1, jrnl.n),
                                   Ids \ ToSet(jrnl.before.done))
    /\ jrnl.holder \in Lanes =>
         disk.pend = Among(jrnl.before.pend, Ids \ Recorded)

\* Memory and file agree on the events still owed, lane by lane.
Agreement(l) ==
    /\ Among(Held(l), ToSet(Stable.pend)) = Lane(Stable.pend, l)
    /\ ToSet(Held(l)) \subseteq ToSet(Stable.pend) \cup retired

Agreed == up \/ pub.stage = "push" => \A l \in Lanes : Agreement(l)

After == {"remember", "finish", "retire"}

\* An event whose completion is durable is pending no longer.
Gone ==
    \A l \in Lanes : stage[l] \in After
        => ToSet(JobIds(committed[l])) \cap ToSet(Stable.pend) = {}

\* The replay goes through the pending events as they are in the file, and finds
\* none of them complete.
Replaying ==
    ~up => /\ pub.stage = "filter" => pub.kept \o pub.todo = disk.pend
           /\ pub.stage # "free" => dedupe = disk.done
           /\ pub.stage # "push" => \A l \in Lanes : LiveJobs(l) = <<>>

Clients == up /\ pub.stage # "free" => pub.who \in Conns

Files == FileSound /\ Written /\ Agreed /\ Gone /\ Replaying /\ Clients

LEMMA StableTyped ==
    TypeOK => Stable \in Disk /\ Stable.pend \in Seq(Ids) /\ Stable.done \in Seq(Ids)
BY DEF TypeOK, Stable, Disk, AppendState

LEMMA HeldTyped ==
    ASSUME TypeOK, NEW l \in Lanes
    PROVE  /\ Held(l) \in Seq(Ids) /\ Live(l) \in Seq(Ids)
           /\ pub.stage # "push" => Held(l) = Live(l)
           /\ pub.stage = "push" => Held(l) = Live(l) \o Lane(pub.todo, l)
           /\ ToSet(Live(l)) \subseteq ToSet(Held(l))
<1>1. Live(l) \in Seq(Ids) /\ Live(l) \o <<>> = Live(l)
  BY LiveTyped, ConcatEmptySeq
<1>2. pub.todo \in Seq(Ids)
  BY DEF TypeOK, PubState
<1>3. Lane(pub.todo, l) \in Seq(Ids)
  BY <1>2, LaneFacts
<1>4. /\ pub.stage # "push" => Held(l) = Live(l)
      /\ pub.stage = "push" => Held(l) = Live(l) \o Lane(pub.todo, l)
  BY <1>1 DEF Held, Live
<1>5. CASE pub.stage = "push"
  <2> DEFINE a == Live(l)
             b == Lane(pub.todo, l)
  <2>1. a \in Seq(Ids) /\ b \in Seq(Ids) /\ Held(l) = a \o b
    BY <1>1, <1>3, <1>4, <1>5
  <2> HIDE DEF a, b
  <2>2. a \o b \in Seq(Ids) /\ ToSet(a \o b) = ToSet(a) \cup ToSet(b)
    BY <2>1, Joined
  <2> QED BY <1>4, <2>1, <2>2 DEF a
<1>6. CASE pub.stage # "push"
  BY <1>1, <1>4, <1>6
<1> QED BY <1>5, <1>6, <1>4, <1>1

\* Whoever publishes for a client does so while the daemon is up.
LEMMA PublisherUp ==
    ASSUME Shape, pub.stage # "free", pub.who \in Conns
    PROVE  up
BY DEF Shape, Publishing, Stopped

LEMMA PendingIsHeld ==
    ASSUME Shape, Agreed, up \/ pub.stage = "push", NEW i \in ToSet(Stable.pend)
    PROVE  LaneOf[i] \in Lanes /\ i \in ToSet(Held(LaneOf[i]))
<1> DEFINE l == LaneOf[i]
           P == Stable.pend
<1>1. P \in Seq(Ids) /\ i \in Ids /\ l \in Lanes
  BY StableTyped, Elements, SqlSinkAssumption DEF Shape
<1>2. Held(l) \in Seq(Ids)
  BY <1>1, HeldTyped DEF Shape
<1>3. i \in ToSet(Lane(P, l))
  BY <1>1, LaneFacts
<1>4. Among(Held(l), ToSet(P)) = Lane(P, l)
  BY <1>1 DEF Agreed, Agreement
<1> QED BY <1>1, <1>2, <1>3, <1>4, AmongElements

\* A batch that is being journalled has no event that is pending already.
LEMMA KeptIsNew ==
    ASSUME Shape, Table, Agreed, pub.stage = "append"
    PROVE  /\ up /\ pub.kept \in Seq(Ids) /\ Distinct(pub.kept)
           /\ ToSet(pub.kept) \cap ToSet(Stable.pend) = {}
           /\ \A l \in Lanes : ToSet(pub.kept) \cap ToSet(Live(l)) = {}
<1>1. up /\ pub.kept \in Seq(Ids) /\ TypeOK
  BY PublisherUp DEF Shape, Publishing, TypeOK, PubState
<1>2. Unpublished = pub.kept
  BY DEF Unpublished
<1>3. /\ Distinct(pub.kept)
      /\ \A l \in Lanes : ToSet(pub.kept) \cap ToSet(Live(l)) = {}
  BY <1>2 DEF Table, Lined
<1>4. \A l \in Lanes : Held(l) = Live(l)
  BY <1>1, HeldTyped
<1>5. ASSUME NEW i \in ToSet(Stable.pend) PROVE i \notin ToSet(pub.kept)
  BY <1>1, <1>3, <1>4, PendingIsHeld
<1> QED BY <1>1, <1>3, <1>5

\* Before the next line, with or without earlier ones.
LEMMA WrittenSoFar ==
    ASSUME Shape, Written, pub.stage = "append", jrnl.holder \in {"none", "pub"}
    PROVE  /\ jrnl.n \in 0 .. Len(pub.kept) /\ disk.done = Stable.done
           /\ disk.pend = Stable.pend \o Among(SubSeq(pub.kept, 1, jrnl.n),
                                               Ids \ ToSet(Stable.done))
<1>1. pub.kept \in Seq(Ids) /\ Len(pub.kept) \in Nat /\ Stable.pend \in Seq(Ids)
  BY StableTyped DEF Shape, TypeOK, PubState
<1>2. CASE jrnl.holder = "none"
  <2> DEFINE S == Ids \ ToSet(Stable.done)
  <2>1. jrnl.n = 0 /\ Stable = disk
    BY <1>2 DEF Shape, Journalling, Stable
  <2>2. SubSeq(pub.kept, 1, 0) = <<>>
    BY SubSeqEmpty
  <2>3. Stable.pend \o <<>> = Stable.pend
    BY <1>1, ConcatEmptySeq
  <2> HIDE DEF S
  <2>4. Among(<<>>, S) = <<>>
    BY AmongNone
  <2>5. Stable.pend \o Among(SubSeq(pub.kept, 1, jrnl.n), S) = disk.pend
    BY <2>1, <2>2, <2>3, <2>4
  <2>6. jrnl.n \in 0 .. Len(pub.kept)
    BY <1>1, <2>1
  <2> QED BY <2>1, <2>5, <2>6 DEF S
<1>3. CASE jrnl.holder = "pub"
  <2>1. Stable = jrnl.before /\ jrnl.n \in Nat /\ jrnl.n < Len(pub.kept)
    BY <1>3 DEF Stable, Shape, Journalling, TypeOK, AppendState
  <2>2. jrnl.n \in 0 .. Len(pub.kept)
    BY <1>1, <2>1
  <2>3. /\ disk.done = jrnl.before.done
        /\ disk.pend = jrnl.before.pend
                         \o Among(SubSeq(pub.kept, 1, jrnl.n),
                                  Ids \ ToSet(jrnl.before.done))
    BY <1>3 DEF Written
  <2> QED BY <2>1, <2>2, <2>3
<1> QED BY <1>2, <1>3

\* A pending line reaches the file.
LEMMA WritePendingMoves ==
    ASSUME Shape, Table, Files, WritePending, NEW n, n = jrnl.n, NEW kept, kept = pub.kept
    PROVE  /\ kept \in Seq(Ids) /\ n \in Nat /\ n < Len(kept) /\ Sound(disk')
           /\ disk'.done = Stable.done
           /\ disk'.pend = Stable.pend \o Among(SubSeq(kept, 1, n + 1),
                                                Ids \ ToSet(Stable.done))
           /\ IF n + 1 = Len(kept) THEN jrnl' = Idle /\ Accepted
              ELSE /\ jrnl' = [holder |-> "pub", before |-> Stable, n |-> n + 1]
                   /\ UNCHANGED <<pub, left>>
<1> DEFINE i == kept[n + 1]
           P == Stable.pend
           S == Ids \ ToSet(Stable.done)
           a == SubSeq(kept, 1, n)
           b == SubSeq(kept, 1, n + 1)
           A == Among(a, S)
<1>1. /\ kept \in Seq(Ids) /\ Distinct(kept) /\ ToSet(kept) \cap ToSet(P) = {}
      /\ P \in Seq(Ids) /\ disk \in Disk
  BY KeptIsNew, StableTyped DEF Files, WritePending, Shape, TypeOK
<1>2. /\ jrnl.holder \in {"none", "pub"} /\ pub.stage = "append" /\ kept # <<>>
      /\ disk' = PutPending(disk, i)
      /\ jrnl' = IF n + 1 = Len(kept) THEN Idle
                 ELSE [holder |-> "pub", before |-> Stable, n |-> n + 1]
      /\ IF n + 1 = Len(kept) THEN Accepted ELSE UNCHANGED <<pub, left>>
  BY DEF WritePending, WriteLine
<1>3. n \in Nat /\ n < Len(kept)
  <2>1. Len(kept) \in Nat \ {0} /\ jrnl.n \in Nat
    BY <1>1, <1>2, EmptySeq DEF Shape, TypeOK, AppendState
  <2> QED BY <1>2, <2>1 DEF Shape, Journalling
<1>4. disk.done = Stable.done /\ disk.pend = P \o A
  BY <1>2, WrittenSoFar DEF Files
<1>5. /\ a \in Seq(Ids) /\ i \in Ids /\ b = Append(a, i)
      /\ ToSet(b) = ToSet(a) \cup {i} /\ ToSet(b) \subseteq ToSet(kept)
      /\ i \notin ToSet(a)
  BY <1>1, <1>3, OneMore
<1> HIDE DEF i, P, S, a, b
<1>6. A \in Seq(Ids) /\ ToSet(A) = ToSet(a) \cap S
  BY <1>5, AmongElements
<1>7. Among(b, S) = IF i \in S THEN Append(A, i) ELSE A
  BY <1>5, AmongAppended
<1> HIDE DEF A
<1>8. i \notin ToSet(disk.pend)
  BY <1>1, <1>4, <1>5, <1>6, Joined
<1>9. /\ Sound(disk')
      /\ disk'.pend = IF i \in ToSet(disk.done) THEN disk.pend ELSE Append(disk.pend, i)
      /\ disk'.done = disk.done
  BY <1>1, <1>2, <1>5, <1>8, PendingLine, LineFacts DEF Files, FileSound
<1>10. disk'.pend = P \o Among(b, S)
  <2>1. i \in ToSet(disk.done) <=> i \notin S
    BY <1>4, <1>5 DEF S
  <2>2. P \o Append(A, i) = Append(P \o A, i)
    BY <1>1, <1>5, <1>6, AppendsBehind
  <2> QED BY <1>4, <1>7, <1>9, <2>1, <2>2
<1> QED BY <1>1, <1>2, <1>3, <1>4, <1>9, <1>10 DEF P, S, b

\* The first n elements, as a set.
LEMMA FirstOnes ==
    ASSUME NEW s \in Seq(Ids), NEW n \in 0 .. Len(s)
    PROVE  ToSet(SubSeq(s, 1, n)) = {s[k] : k \in 1 .. n}
<1> DEFINE a == SubSeq(s, 1, n)
<1>1. a \in Seq(Ids) /\ Len(a) = n
  BY Cut
<1>2. \A k \in 1 .. n : a[k] = s[k]
  BY LenProperties
<1> HIDE DEF a
<1>3. \A x : x \in ToSet(a) <=> \E k \in 1 .. n : a[k] = x
  BY <1>1, Elements
<1> QED BY <1>2, <1>3 DEF a

\* Completion lines already in the file, with or without any.
LEMMA RecordedSoFar ==
    ASSUME Shape, Written, NEW l \in Lanes, jrnl.holder \in {"none", l}
    PROVE  /\ jrnl.n \in 0 .. Len(JobIds(committed[l]))
           /\ jrnl.holder = l => Recorded = ToSet(SubSeq(JobIds(committed[l]), 1, jrnl.n))
           /\ disk.pend = Among(Stable.pend,
                                Ids \ ToSet(SubSeq(JobIds(committed[l]), 1, jrnl.n)))
<1> DEFINE c == committed[l]
           ids == JobIds(c)
           n == jrnl.n
<1>1. c \in Seq(Job) /\ Len(c) \in Nat /\ Stable.pend \in Seq(Ids) /\ n \in Nat
  BY StableTyped, LenProperties DEF Shape, TypeOK, AppendState
<1>2. ids \in Seq(Ids) /\ Len(ids) = Len(c) /\ \A k \in 1 .. Len(c) : ids[k] = c[k].id
  BY <1>1, JobIdsTyped
<1>3. CASE jrnl.holder = "none"
  <2>1. n = 0 /\ Stable = disk /\ jrnl.holder # l
    BY <1>3, SqlSinkAssumption DEF Shape, Journalling, Stable
  <2>2. SubSeq(ids, 1, 0) = <<>> /\ ToSet(<<>>) = {} /\ Ids \ {} = Ids
    BY SubSeqEmpty, ElementsOfFew
  <2>3. Among(Stable.pend, Ids) = Stable.pend
    BY <1>1, AmongAll
  <2>4. 0 \in 0 .. Len(ids)
    BY <1>1, <1>2
  <2> QED BY <2>1, <2>2, <2>3, <2>4
<1>4. CASE jrnl.holder = l
  <2>1. Stable = jrnl.before /\ n < Len(c)
    BY <1>4, SqlSinkAssumption DEF Stable, Shape, Journalling
  <2>2. n \in 0 .. Len(ids) /\ \A k \in 1 .. n : k \in 1 .. Len(c)
    BY <1>1, <1>2, <2>1
  <2>3. Recorded = {c[k].id : k \in 1 .. n}
    BY <1>4 DEF Recorded
  <2> HIDE DEF c, ids, n
  <2>4. {c[k].id : k \in 1 .. n} = {ids[k] : k \in 1 .. n}
    BY <1>2, <2>2
  <2>5. ToSet(SubSeq(ids, 1, n)) = {ids[k] : k \in 1 .. n}
    BY <1>2, <2>2, FirstOnes
  <2>6. Recorded = ToSet(SubSeq(ids, 1, n))
    BY <2>3, <2>4, <2>5
  <2>7. disk.pend = Among(jrnl.before.pend, Ids \ Recorded)
    BY <1>4 DEF Written
  <2> QED BY <2>1, <2>2, <2>6, <2>7 DEF c, ids, n
<1> QED BY <1>3, <1>4

\* A completion line reaches the file.
LEMMA WriteDoneMoves ==
    ASSUME Shape, Files, NEW l \in Lanes, WriteDone(l), NEW n, n = jrnl.n,
           NEW ids, ids = JobIds(committed[l])
    PROVE  /\ ids \in Seq(Ids) /\ n \in Nat /\ n < Len(ids) /\ Len(ids) = Len(committed[l])
           /\ Sound(disk')
           /\ disk'.pend = Among(Stable.pend, Ids \ ToSet(SubSeq(ids, 1, n + 1)))
           /\ Cardinality(Ids) <= DedupeEvents
                => ToSet(disk'.done) = ToSet(disk.done) \cup {ids[n + 1]}
           /\ IF n + 1 = Len(ids)
              THEN /\ jrnl' = Idle /\ retired' = retired \cup ToSet(ids)
                   /\ stage' = [stage EXCEPT ![l] = "remember"]
              ELSE /\ jrnl' = [holder |-> l, before |-> Stable, n |-> n + 1]
                   /\ UNCHANGED <<retired, stage>>
<1> DEFINE i == ids[n + 1]
           P == Stable.pend
           a == SubSeq(ids, 1, n)
           b == SubSeq(ids, 1, n + 1)
<1>0. /\ committed[l] \in Seq(Job) /\ P \in Seq(Ids) /\ jrnl.n \in Nat /\ disk \in Disk
      /\ stage[l] = "confirm" /\ committed[l] # <<>>
  BY StableTyped DEF Shape, TypeOK, AppendState, Working, WriteDone
<1>1. /\ ids \in Seq(Ids) /\ Len(ids) = Len(committed[l])
      /\ \A k \in 1 .. Len(ids) : ids[k] = committed[l][k].id
  BY <1>0, JobIdsTyped
<1>2. n \in Nat /\ n < Len(ids) /\ jrnl.holder \in {"none", l}
  <2>1. Len(committed[l]) \in Nat \ {0} /\ jrnl.holder \in {"none", l}
    BY <1>0, EmptySeq DEF WriteDone, WriteLine
  <2> QED BY <1>0, <1>1, <2>1 DEF Shape, Journalling
<1>3. n + 1 \in 1 .. Len(ids)
  BY <1>1, <1>2
<1>4. /\ disk' = PutDone(disk, i)
      /\ jrnl' = IF n + 1 = Len(ids) THEN Idle
                 ELSE [holder |-> l, before |-> Stable, n |-> n + 1]
      /\ IF n + 1 = Len(ids)
         THEN /\ retired' = retired \cup ToSet(ids)
              /\ stage' = [stage EXCEPT ![l] = "remember"]
         ELSE UNCHANGED <<retired, stage>>
  <2>1. ids[n + 1] = committed[l][n + 1].id
    BY <1>1, <1>3
  <2> QED BY <1>1, <2>1 DEF WriteDone, WriteLine
<1>5. /\ a \in Seq(Ids) /\ i \in Ids /\ ToSet(b) = ToSet(a) \cup {i}
  BY <1>1, <1>2, OneMore
<1>6. disk.pend = Among(P, Ids \ ToSet(a))
  BY <1>2, RecordedSoFar DEF Files
<1> HIDE DEF i, P, a, b
<1>7. /\ Sound(disk') /\ disk'.pend = Among(disk.pend, Ids \ {i})
      /\ Cardinality(Ids) <= DedupeEvents
           => ToSet(disk'.done) = ToSet(disk.done) \cup {i}
  BY <1>0, <1>4, <1>5, DoneLine DEF Files, FileSound
<1>8. disk'.pend = Among(P, Ids \ ToSet(b))
  <2>1. (Ids \ ToSet(a)) \cap (Ids \ {i}) = Ids \ ToSet(b)
    BY <1>5
  <2> QED BY <1>0, <1>6, <1>7, <2>1, AmongTwice
<1> QED BY <1>1, <1>2, <1>4, <1>7, <1>8 DEF P, b, i

\* Steps that leave the file and the batch being written alone.
FileStill ==
    /\ UNCHANGED <<disk, jrnl>>
    /\ jrnl.holder = "pub" => pub'.kept = pub.kept
    /\ \A l \in Lanes : jrnl.holder = l => committed'[l] = committed[l]

LEMMA FileStillKeeps ==
    ASSUME FileStill, FileSound, Written
    PROVE  FileSound' /\ Written' /\ Stable' = Stable
<1>1. Stable' = Stable
  BY DEF FileStill, Stable
<1>2. jrnl.holder \in Lanes => Recorded' = Recorded
  BY DEF FileStill, Recorded
<1>3. FileSound'
  BY <1>1 DEF FileStill, FileSound
<1>4. Written'
  BY <1>2 DEF FileStill, Written
<1> QED BY <1>1, <1>3, <1>4

LEMMA RollBackKeeps ==
    ASSUME FileSound, NEW who, RollBack(who)
    PROVE  FileSound' /\ Written' /\ Stable' = Stable
<1>1. disk' = Stable /\ jrnl' = Idle
  BY DEF RollBack
<1>2. jrnl'.holder = "none" /\ Stable' = Stable
  BY <1>1 DEF Stable, Idle
<1>3. Written'
  BY <1>2, SqlSinkAssumption DEF Written
<1>4. FileSound'
  BY <1>1, <1>2 DEF FileSound
<1> QED BY <1>2, <1>3, <1>4

LEMMA WritePendingFile ==
    ASSUME Shape, Table, Files, WritePending
    PROVE  /\ FileSound' /\ Written'
           /\ jrnl.n + 1 # Len(pub.kept) => Stable' = Stable /\ UNCHANGED <<pub, left>>
           /\ jrnl.n + 1 = Len(pub.kept) =>
                /\ Accepted /\ Stable'.done = Stable.done
                /\ Stable'.pend = Stable.pend \o Among(pub.kept, Ids \ ToSet(Stable.done))
<1>1. PICK n, kept : n = jrnl.n /\ kept = pub.kept
  OBVIOUS
<1>2. /\ kept \in Seq(Ids) /\ n \in Nat /\ n < Len(kept) /\ Sound(disk')
      /\ disk'.done = Stable.done
      /\ disk'.pend = Stable.pend \o Among(SubSeq(kept, 1, n + 1), Ids \ ToSet(Stable.done))
      /\ IF n + 1 = Len(kept) THEN jrnl' = Idle /\ Accepted
         ELSE /\ jrnl' = [holder |-> "pub", before |-> Stable, n |-> n + 1]
              /\ UNCHANGED <<pub, left>>
  BY <1>1, WritePendingMoves
<1>3. Sound(Stable)
  BY DEF Files, FileSound
<1>4. CASE n + 1 = Len(kept)
  <2>1. jrnl' = Idle /\ Accepted /\ jrnl'.holder = "none" /\ Stable' = disk'
    BY <1>2, <1>4 DEF Stable, Idle
  <2>2. Written'
    BY <2>1, SqlSinkAssumption DEF Written
  <2>3. SubSeq(kept, 1, n + 1) = kept
    BY <1>2, <1>4, SubSeqFull
  <2>4. FileSound'
    BY <1>2, <2>1 DEF FileSound
  <2> QED BY <1>1, <1>2, <1>4, <2>1, <2>2, <2>3, <2>4
<1>5. CASE n + 1 # Len(kept)
  <2>1. /\ jrnl' = [holder |-> "pub", before |-> Stable, n |-> n + 1]
        /\ UNCHANGED <<pub, left>>
    BY <1>2, <1>5
  <2>2. /\ jrnl'.holder = "pub" /\ jrnl'.before = Stable /\ jrnl'.n = n + 1
        /\ pub'.kept = kept
    BY <1>1, <2>1
  <2>3. Stable' = Stable
    BY <2>2 DEF Stable
  <2>4. Written'
    BY <1>2, <2>2, SqlSinkAssumption DEF Written
  <2>5. FileSound'
    BY <1>2, <1>3, <2>3 DEF FileSound
  <2> QED BY <1>1, <1>5, <2>1, <2>3, <2>4, <2>5
<1> QED BY <1>4, <1>5

LEMMA WriteDoneFile ==
    ASSUME Shape, Files, NEW l \in Lanes, WriteDone(l), NEW ids, ids = JobIds(committed[l])
    PROVE  /\ FileSound' /\ Written' /\ ids \in Seq(Ids)
           /\ jrnl.n + 1 # Len(ids) => Stable' = Stable /\ UNCHANGED <<retired, stage>>
           /\ jrnl.n + 1 = Len(ids) =>
                /\ Stable'.pend = Among(Stable.pend, Ids \ ToSet(ids))
                /\ retired' = retired \cup ToSet(ids)
                /\ stage' = [stage EXCEPT ![l] = "remember"]
<1>1. PICK n : n = jrnl.n
  OBVIOUS
<1>2. /\ ids \in Seq(Ids) /\ n \in Nat /\ n < Len(ids) /\ Len(ids) = Len(committed[l])
      /\ Sound(disk')
      /\ disk'.pend = Among(Stable.pend, Ids \ ToSet(SubSeq(ids, 1, n + 1)))
      /\ IF n + 1 = Len(ids)
         THEN /\ jrnl' = Idle /\ retired' = retired \cup ToSet(ids)
              /\ stage' = [stage EXCEPT ![l] = "remember"]
         ELSE /\ jrnl' = [holder |-> l, before |-> Stable, n |-> n + 1]
              /\ UNCHANGED <<retired, stage>>
  BY <1>1, WriteDoneMoves
<1>3. Sound(Stable) /\ committed' = committed
  BY DEF Files, FileSound, WriteDone
<1>4. CASE n + 1 = Len(ids)
  <2>1. jrnl' = Idle /\ jrnl'.holder = "none" /\ Stable' = disk'
    BY <1>2, <1>4 DEF Stable, Idle
  <2>2. Written'
    BY <2>1, SqlSinkAssumption DEF Written
  <2>3. SubSeq(ids, 1, n + 1) = ids
    BY <1>2, <1>4, SubSeqFull
  <2>4. FileSound'
    BY <1>2, <2>1 DEF FileSound
  <2> QED BY <1>1, <1>2, <1>4, <2>1, <2>2, <2>3, <2>4
<1>5. CASE n + 1 # Len(ids)
  <2>1. /\ jrnl' = [holder |-> l, before |-> Stable, n |-> n + 1]
        /\ UNCHANGED <<retired, stage>>
    BY <1>2, <1>5
  <2>2. jrnl'.holder = l /\ jrnl'.before = Stable /\ jrnl'.n = n + 1 /\ l # "pub" /\ l # "none"
    BY <2>1, SqlSinkAssumption
  <2>3. Stable' = Stable
    BY <2>2 DEF Stable
  <2>4. Recorded' = ToSet(SubSeq(ids, 1, n + 1))
    <3> DEFINE m == n + 1
               c == committed[l]
    <3>1. Recorded' = {c[k].id : k \in 1 .. m}
      BY <1>3, <2>2 DEF Recorded
    <3>2. c \in Seq(Job) /\ m \in 0 .. Len(ids) /\ \A k \in 1 .. m : k \in 1 .. Len(c)
      BY <1>2, LenProperties DEF Shape, TypeOK
    <3>3. \A k \in 1 .. Len(c) : ids[k] = c[k].id
      BY <3>2, JobIdsTyped
    <3> HIDE DEF m, c
    <3>4. {c[k].id : k \in 1 .. m} = {ids[k] : k \in 1 .. m}
      BY <3>2, <3>3
    <3>5. ToSet(SubSeq(ids, 1, m)) = {ids[k] : k \in 1 .. m}
      BY <1>2, <3>2, FirstOnes
    <3> QED BY <3>1, <3>4, <3>5 DEF m
  <2>5. Written'
    BY <1>2, <2>2, <2>4 DEF Written
  <2>6. FileSound'
    BY <1>2, <1>3, <2>3 DEF FileSound
  <2> QED BY <1>1, <1>2, <1>5, <2>1, <2>3, <2>5, <2>6
<1> QED BY <1>4, <1>5

LEMMA CrashFile ==
    ASSUME FileSound, Crash
    PROVE  FileSound' /\ Written' /\ Stable' = disk
<1>1. disk' = disk /\ jrnl' = Idle
  BY DEF Crash
<1>2. jrnl'.holder = "none" /\ Stable' = disk
  BY <1>1 DEF Stable, Idle
<1>3. Written'
  BY <1>2, SqlSinkAssumption DEF Written
<1>4. FileSound'
  BY <1>1, <1>2 DEF FileSound
<1> QED BY <1>2, <1>3, <1>4

-----------------------------------------------------------------------------
(* Memory and the journal                                                  *)

\* Steps that change neither what the file owes nor what memory holds of it.
Undisturbed ==
    /\ Stable' = Stable /\ retired' = retired
    /\ up' \/ pub'.stage = "push" => up \/ pub.stage = "push"
    /\ \A l \in Lanes :
         /\ Held(l)' = Held(l)
         /\ stage'[l] \in After => stage[l] \in After /\ committed'[l] = committed[l]

LEMMA UndisturbedKeeps ==
    ASSUME Agreed, Gone, Undisturbed
    PROVE  Agreed' /\ Gone'
<1>1. Agreed'
  <2> SUFFICES ASSUME (up \/ pub.stage = "push")', NEW l \in Lanes
               PROVE  Agreement(l)'
    BY DEF Agreed
  <2>1. Agreement(l)
    BY DEF Agreed, Undisturbed
  <2> QED BY <2>1 DEF Undisturbed, Agreement
<1>2. Gone'
  BY DEF Gone, Undisturbed
<1> QED BY <1>1, <1>2

\* What is held for a lane while nothing is published.
LEMMA HeldSame ==
    ASSUME TypeOK, TypeOK', NEW l \in Lanes, LiveJobs(l)' = LiveJobs(l),
           \/ pub.stage # "push" /\ pub'.stage # "push"
           \/ pub'.stage = pub.stage /\ pub'.todo = pub.todo
           \/ pub.stage = "push" /\ pub.todo = <<>> /\ pub'.stage # "push"
    PROVE  Held(l)' = Held(l)
<1>1. CASE pub.stage = "push" /\ pub.todo = <<>> /\ pub'.stage # "push"
  <2>1. Lane(pub.todo, l) = <<>>
    BY <1>1, AmongNone DEF Lane
  <2> QED BY <1>1, <2>1 DEF Held
<1>2. CASE pub.stage # "push" /\ pub'.stage # "push"
  BY <1>2 DEF Held
<1>3. CASE pub'.stage = pub.stage /\ pub'.todo = pub.todo
  BY <1>3 DEF Held
<1> QED BY <1>1, <1>2, <1>3

LEMMA HandlerStill ==
    ASSUME Shape, Shape', NEW c \in Conns, Handler(c)
    PROVE  FileStill /\ Undisturbed
<1>1. UNCHANGED <<disk, jrnl, retired, up, queue, batch, committed, stage>>
  BY DEF Handler, Receive, BeginPublish, Acknowledge, GiveUp, diskVars, laneVars, histVars
<1>2. pub' = pub \/ (pub.stage = "free" /\ pub'.stage = "filter")
  BY DEF Handler, Receive, BeginPublish, Acknowledge, GiveUp, Offline
<1>3. FileStill
  BY <1>1, <1>2 DEF FileStill, Shape, Journalling
<1>4. \A l \in Lanes : LiveJobs(l)' = LiveJobs(l)
  BY <1>1 DEF LiveJobs
<1>5. \A l \in Lanes : Held(l)' = Held(l)
  BY <1>2, <1>4, HeldSame DEF Shape
<1>6. Stable' = Stable
  BY <1>1 DEF Stable
<1> QED BY <1>1, <1>2, <1>3, <1>5, <1>6 DEF Undisturbed

LEMMA PublisherStill ==
    ASSUME Shape, Shape',
           FilterOne \/ ReserveBatch \/ RefuseBatch \/ UndoOne \/ RefuseUnjournalled
             \/ Published \/ Start
    PROVE  FileStill /\ Undisturbed
<1>0. pub \in PubState
  BY DEF Shape, TypeOK
<1>1. UNCHANGED <<disk, jrnl, retired, queue, batch, committed>>
  BY DEF FilterOne, ReserveBatch, RefuseBatch, UndoOne, RefuseUnjournalled, Published,
         Start, diskVars, laneVars, histVars
<1>2. /\ pub.stage # "append"
      /\ up' => up \/ pub.stage = "push"
      /\ \/ pub.stage # "push" /\ pub'.stage # "push"
         \/ pub.stage = "push" /\ pub.todo = <<>> /\ pub'.stage # "push"
  <2>1. CASE FilterOne
    <3>1. PICK r, k : pub' = [pub EXCEPT !.todo = r, !.kept = k]
      BY <2>1, Zenon DEF FilterOne
    <3> QED BY <1>0, <2>1, <3>1 DEF FilterOne, PubState
  <2>5. CASE UndoOne
    <3>1. PICK r : pub' = [pub EXCEPT !.todo = r]
      BY <2>5, Zenon DEF UndoOne
    <3> QED BY <1>0, <2>5, <3>1 DEF UndoOne, PubState
  <2>2. CASE ReserveBatch
    BY <1>0, <2>2 DEF ReserveBatch, PubState
  <2>3. CASE RefuseBatch \/ RefuseUnjournalled
    BY <2>3 DEF RefuseBatch, RefuseUnjournalled, ReleaseMutex, Offline
  <2>4. CASE Published \/ Start
    BY <2>4 DEF Published, Start, ReleaseMutex, Offline
  <2> QED BY <2>1, <2>2, <2>3, <2>4, <2>5
<1>3. \A l \in Lanes : stage'[l] \in After => stage[l] \in After
  <2>1. CASE Published
    BY <2>1 DEF Published, After
  <2>2. CASE ~Published
    <3>1. stage' = stage
      BY <2>2 DEF FilterOne, ReserveBatch, RefuseBatch, UndoOne, RefuseUnjournalled,
                  Start, laneVars
    <3> QED BY <3>1
  <2> QED BY <2>1, <2>2
<1>4. FileStill
  BY <1>1, <1>2 DEF FileStill, Shape, Journalling
<1>5. \A l \in Lanes : LiveJobs(l)' = LiveJobs(l)
  BY <1>1 DEF LiveJobs
<1>6. \A l \in Lanes : Held(l)' = Held(l)
  BY <1>2, <1>5, HeldSame DEF Shape
<1>7. Stable' = Stable
  BY <1>1 DEF Stable
<1> QED BY <1>1, <1>2, <1>3, <1>4, <1>6, <1>7 DEF Undisturbed

LEMMA WorkerStill ==
    ASSUME Shape, Shape', Resting, NEW l \in Lanes,
           Sleep(l) \/ TakeBatch(l) \/ Execute(l) \/ ExecuteFails(l) \/ ExecuteUnknown(l)
             \/ RememberOne(l) \/ FinishOne(l)
    PROVE  FileStill /\ Undisturbed
<1>1. UNCHANGED <<disk, jrnl, retired, up, pub>>
  BY DEF Sleep, TakeBatch, Execute, ExecuteFails, ExecuteUnknown, RememberOne, FinishOne,
         diskVars, histVars
<1>2. \A m \in Lanes : LiveJobs(m)' = LiveJobs(m)
  BY WorkerMovesNothing DEF Unmoved
<1>3. \A m \in Lanes : committed'[m] = committed[m] \/ (m = l /\ stage[l] = "execute")
  BY DEF Sleep, TakeBatch, Execute, ExecuteFails, ExecuteUnknown, RememberOne, FinishOne,
         laneVars, Shape, TypeOK
<1>4. \A m \in Lanes : stage'[m] \in After => stage[m] \in After
  BY DEF Sleep, TakeBatch, Execute, ExecuteFails, ExecuteUnknown, RememberOne, FinishOne,
         AfterFailure, WillRun, laneVars, Shape, TypeOK, After
<1>5. FileStill
  BY <1>1, <1>3 DEF FileStill, Shape, Journalling
<1>6. \A m \in Lanes : Held(m)' = Held(m)
  BY <1>1, <1>2, HeldSame DEF Shape
<1>7. Stable' = Stable
  BY <1>1 DEF Stable
<1>8. \A m \in Lanes : stage'[m] \in After => committed'[m] = committed[m]
  BY <1>3, <1>4 DEF After
<1> QED BY <1>1, <1>4, <1>5, <1>6, <1>7, <1>8 DEF Undisturbed

LEMMA RollBackUndisturbed ==
    ASSUME Shape, Shape', FileSound,
           WritePendingFails \/ \E l \in Lanes : WriteDoneFails(l)
    PROVE  FileSound' /\ Written' /\ Undisturbed
<1>0. pub \in PubState
  BY DEF Shape, TypeOK
<1>1. FileSound' /\ Written' /\ Stable' = Stable
  BY RollBackKeeps DEF WritePendingFails, WriteDoneFails
<1>2. UNCHANGED <<retired, up, queue, batch, committed, stage>>
  BY DEF WritePendingFails, WriteDoneFails, laneVars, histVars
<1>3. pub' = pub \/ (pub.stage = "append" /\ pub'.stage = "undo")
  <2>1. CASE WritePendingFails
    BY <1>0, <2>1 DEF WritePendingFails, PubState
  <2>2. CASE \E l \in Lanes : WriteDoneFails(l)
    BY <2>2 DEF WriteDoneFails
  <2> QED BY <2>1, <2>2
<1>4. \A l \in Lanes : LiveJobs(l)' = LiveJobs(l)
  BY <1>2 DEF LiveJobs
<1>5. \A l \in Lanes : Held(l)' = Held(l)
  BY <1>3, <1>4, HeldSame DEF Shape
<1> QED BY <1>1, <1>2, <1>3, <1>5 DEF Undisturbed

\* Between the lines of an append.
LEMMA HalfWrittenUndisturbed ==
    ASSUME Shape, Shape', Stable' = Stable,
           \/ WritePending /\ UNCHANGED <<pub, left>>
           \/ \E l \in Lanes : WriteDone(l) /\ UNCHANGED <<retired, stage>>
    PROVE  Undisturbed
<1>1. UNCHANGED <<retired, up, queue, batch, committed, stage, pub>>
  BY DEF WritePending, WriteDone, laneVars, histVars
<1>2. \A l \in Lanes : LiveJobs(l)' = LiveJobs(l)
  BY <1>1 DEF LiveJobs
<1>3. \A l \in Lanes : Held(l)' = Held(l)
  BY <1>1, <1>2, HeldSame DEF Shape
<1> QED BY <1>1, <1>3 DEF Undisturbed

LEMMA StartStill ==
    ASSUME Shape, Shape', Repair \/ Recover \/ UNCHANGED vars
    PROVE  FileStill /\ Undisturbed
<1>1. UNCHANGED <<disk, jrnl, retired, up, queue, batch, committed, stage>>
  BY DEF Repair, Recover, vars, diskVars, laneVars, histVars
<1>2. pub' = pub \/ (pub.stage = "free" /\ pub'.stage = "filter")
  BY DEF Repair, Recover, vars, Offline
<1>3. FileStill
  BY <1>1, <1>2 DEF FileStill, Shape, Journalling
<1>4. \A l \in Lanes : LiveJobs(l)' = LiveJobs(l)
  BY <1>1 DEF LiveJobs
<1>5. \A l \in Lanes : Held(l)' = Held(l)
  BY <1>2, <1>4, HeldSame DEF Shape
<1>6. Stable' = Stable
  BY <1>1 DEF Stable
<1> QED BY <1>1, <1>2, <1>3, <1>5, <1>6 DEF Undisturbed

LEMMA CommittedLive ==
    ASSUME TypeOK, NEW l \in Lanes
    PROVE  /\ JobIds(committed[l]) \in Seq(Ids)
           /\ ToSet(JobIds(committed[l])) \subseteq ToSet(Live(l))
<1> DEFINE a == JobIds(committed[l])
           b == JobIds(batch[l])
           q == JobIds(queue[l])
           c == a \o b
<1>1. a \in Seq(Ids) /\ b \in Seq(Ids) /\ q \in Seq(Ids) /\ Live(l) = c \o q
  BY JobIdsTyped, LiveTyped DEF TypeOK
<1> HIDE DEF a, b, q
<1>2. c \in Seq(Ids) /\ ToSet(c) = ToSet(a) \cup ToSet(b)
  BY <1>1, Joined
<1> HIDE DEF c
<1>3. ToSet(c \o q) = ToSet(c) \cup ToSet(q)
  BY <1>1, <1>2, Joined
<1> QED BY <1>1, <1>2, <1>3 DEF a

LEMMA LaneOfOne ==
    ASSUME NEW i \in Ids, NEW l \in Lanes
    PROVE  Lane(<<i>>, l) = IF LaneOf[i] = l THEN <<i>> ELSE <<>>
<1> DEFINE one == <<i>>
           L == IdsOfLane[l]
<1>1. one \in Seq(Ids) /\ ToSet(one) = {i}
  BY ElementsOfFew
<1>2. i \in L <=> LaneOf[i] = l
  BY DEF IdsOfLane
<1> HIDE DEF one, L
<1>3. CASE i \in L
  <2>1. ToSet(one) \subseteq L
    BY <1>1, <1>3
  <2>2. Among(one, L) = one
    BY <1>1, <2>1, AmongWhole
  <2> QED BY <1>2, <1>3, <2>2 DEF Lane, one, L
<1>4. CASE i \notin L
  <2>1. ToSet(one) \cap L = {}
    BY <1>1, <1>4
  <2>2. Among(one, L) = <<>>
    BY <1>1, <2>1, AmongOthers
  <2> QED BY <1>2, <1>4, <2>2 DEF Lane, one, L
<1> QED BY <1>3, <1>4

\* Pushing moves an event from the batch to its lane, behind the same events.
LEMMA PushStill ==
    ASSUME Shape, Shape', Table, PushOne
    PROVE  FileStill /\ Undisturbed
<1>1. PICK i, r : i = Head(pub.todo) /\ r = Tail(pub.todo)
  OBVIOUS
<1>2. /\ i \in Ids /\ r \in Seq(Ids) /\ LaneOf[i] \in Lanes
      /\ pub.todo = <<i>> \o r /\ pub'.todo = r
      /\ Live(LaneOf[i])' = Append(Live(LaneOf[i]), i)
      /\ \A m \in Lanes : m # LaneOf[i] => Live(m)' = Live(m)
  BY <1>1, PushMoves
<1>3. /\ UNCHANGED <<disk, jrnl, retired, up, committed, stage>>
      /\ pub.stage = "push" /\ pub'.stage = "push"
  <2>1. PICK x : pub' = [pub EXCEPT !.todo = x]
    BY Zenon DEF PushOne
  <2> QED BY <2>1 DEF PushOne, diskVars, histVars, Shape, TypeOK, PubState
<1>4. FileStill
  BY <1>3 DEF FileStill, Shape, Journalling
<1>5. Stable' = Stable
  BY <1>3 DEF Stable
<1>6. ASSUME NEW m \in Lanes PROVE Held(m)' = Held(m)
  <2> DEFINE one == <<i>>
             L == Live(m)
             R == Lane(r, m)
             X == Lane(one, m)
             New == Live(m)'
  <2>1. one \in Seq(Ids) /\ r \in Seq(Ids)
    BY <1>2, ElementsOfFew
  <2>2. L \in Seq(Ids) /\ R \in Seq(Ids) /\ Held(m) = L \o Lane(pub.todo, m)
    BY <1>2, <1>3, HeldTyped, LaneFacts DEF Shape
  <2>3. Held(m)' = New \o R
    BY <1>2, <1>3 DEF Held, Live
  <2>4. X = IF LaneOf[i] = m THEN one ELSE <<>>
    BY <1>2, LaneOfOne
  <2>5. pub.todo = one \o r
    BY <1>2
  <2> HIDE DEF one
  <2>6. Lane(pub.todo, m) = X \o R
    BY <2>1, <2>5, LaneJoined
  <2>7. New = IF LaneOf[i] = m THEN Append(L, i) ELSE L
    BY <1>2
  <2> HIDE DEF L, R, X, New
  <2>8. CASE LaneOf[i] = m
    <3>1. Append(L, i) = L \o one
      BY <1>2, <2>2, AppendIsConcat DEF one
    <3>2. (L \o one) \o R = L \o (one \o R)
      BY <2>1, <2>2, ConcatAssociative
    <3> QED BY <2>2, <2>3, <2>4, <2>6, <2>7, <2>8, <3>1, <3>2
  <2>9. CASE LaneOf[i] # m
    <3>1. <<>> \o R = R
      BY <2>2, ConcatEmptySeq
    <3> QED BY <2>2, <2>3, <2>4, <2>6, <2>7, <2>9, <3>1
  <2> QED BY <2>8, <2>9
<1> QED BY <1>3, <1>4, <1>5, <1>6 DEF Undisturbed

\* H is held and P is owed of lane l alike, nothing of either is in the batch
\* kept, and what is not yet in D of the batch makes P the journal's Q.
Fresh(P, H, kept, D, l, Q) ==
    /\ Q = P \o Among(kept, Ids \ D)
    /\ Among(H, ToSet(P)) = Lane(P, l)
    /\ ToSet(kept) \cap ToSet(H) = {}
    /\ ToSet(kept) \cap ToSet(P) = {}

\* With the batch, more is held and more is owed, and again alike.
Grown(P, H, kept, D, l, Q) ==
    /\ Among(H \o Lane(kept, l), ToSet(Q)) = Lane(Q, l)
    /\ ToSet(H \o Lane(kept, l)) \subseteq ToSet(H) \cup ToSet(kept)
    /\ ToSet(P) \subseteq ToSet(Q) /\ ToSet(kept) \subseteq ToSet(Q) \cup D
    /\ ToSet(Q) \subseteq ToSet(P) \cup ToSet(kept)

\* A batch joins what is held and what the file owes alike.
LEMMA Joining ==
    ASSUME NEW P \in Seq(Ids), NEW H \in Seq(Ids), NEW kept \in Seq(Ids), NEW D,
           NEW l \in Lanes, NEW Q, Fresh(P, H, kept, D, l, Q)
    PROVE  Grown(P, H, kept, D, l, Q)
<1> DEFINE S == Ids \ D
           K == Among(kept, S)
           T == Lane(kept, l)
<1>1. T \in Seq(Ids) /\ ToSet(T) \subseteq ToSet(kept) /\ ToSet(kept) \subseteq Ids
  BY LaneFacts, Elements
<1>2. Lane(K, l) = Among(T, S)
  BY LaneAmong
<1> HIDE DEF T
<1>3. K \in Seq(Ids) /\ ToSet(K) = ToSet(kept) \cap S
  BY AmongElements
<1> HIDE DEF K
<1>4. Q \in Seq(Ids) /\ ToSet(Q) = ToSet(P) \cup ToSet(K) /\ Lane(Q, l) = Lane(P, l) \o Lane(K, l)
  <2>1. Q = P \o K
    BY DEF K, Fresh
  <2>2. P \o K \in Seq(Ids) /\ ToSet(P \o K) = ToSet(P) \cup ToSet(K)
    BY <1>3, Joined
  <2>3. Lane(P \o K, l) = Lane(P, l) \o Lane(K, l)
    BY <1>3, LaneJoined
  <2> QED BY <2>1, <2>2, <2>3
<1>5. Among(H \o T, ToSet(Q)) = Among(H, ToSet(Q)) \o Among(T, ToSet(Q))
  <2> DEFINE U == ToSet(Q)
  <2> HIDE DEF U
  <2>1. Among(H \o T, U) = Among(H, U) \o Among(T, U)
    <3>1. H \in Seq(Ids) /\ T \in Seq(Ids)
      BY <1>1
    <3>2. PICK s, t : s = H /\ t = T /\ s \in Seq(Ids) /\ t \in Seq(Ids)
      BY <3>1
    <3>3. Among(s \o t, U) = Among(s, U) \o Among(t, U)
      BY <3>2, AmongJoined
    <3> QED BY <3>2, <3>3
  <2> QED BY <2>1 DEF U
<1>6. Among(H, ToSet(Q)) = Among(H, ToSet(P))
  <2>1. \A x \in ToSet(H) : x \in ToSet(Q) <=> x \in ToSet(P)
    BY <1>3, <1>4 DEF Fresh
  <2> QED BY <2>1, AmongSame
<1>7. Among(T, ToSet(Q)) = Among(T, S)
  <2>1. \A x \in ToSet(T) : x \in ToSet(Q) <=> x \in S
    BY <1>1, <1>3, <1>4 DEF Fresh
  <2> QED BY <1>1, <2>1, AmongSame
<1>8. ToSet(H \o T) = ToSet(H) \cup ToSet(T)
  BY <1>1, Joined
<1> QED BY <1>1, <1>2, <1>3, <1>4, <1>5, <1>6, <1>7, <1>8 DEF T, S, Fresh, Grown

\* The batch of a client is accepted.
LEMMA AcceptAgrees ==
    ASSUME Shape, Shape', Table, Promise, Files, pub.stage = "append", Accepted,
           UNCHANGED <<retired, queue, batch, committed, stage>>,
           Stable'.pend = Stable.pend \o Among(pub.kept, Ids \ ToSet(Stable.done))
    PROVE  Agreed' /\ Gone'
<1>1. PICK P, D, kept, Q : /\ P = Stable.pend /\ D = ToSet(Stable.done) /\ kept = pub.kept
                           /\ Q = P \o Among(kept, Ids \ D)
  OBVIOUS
<1>2. /\ up /\ kept \in Seq(Ids) /\ ToSet(kept) \cap ToSet(P) = {}
      /\ \A l \in Lanes : ToSet(kept) \cap ToSet(Live(l)) = {}
  BY <1>1, KeptIsNew DEF Files
<1>3. P \in Seq(Ids) /\ Stable'.pend = Q
  BY <1>1, StableTyped DEF Shape
<1>4. D \subseteq retired
  BY <1>1, SqlSinkAssumption DEF Promise, Marked, Stable, Recorded
<1>5. pub'.stage = "push" /\ pub'.todo = kept
  BY <1>1 DEF Accepted, Shape, TypeOK, PubState
<1>6. \A l \in Lanes : LiveJobs(l)' = LiveJobs(l) /\ Live(l)' = Live(l)
  BY DEF LiveJobs, Live
<1>7. ASSUME NEW l \in Lanes
      PROVE  Agreement(l)' /\ ToSet(Q) \cap ToSet(Live(l)) \subseteq ToSet(P)
  <2> DEFINE H == Live(l)
             T == Lane(kept, l)
  <2>1. Held(l) = H /\ H \in Seq(Ids)
    BY HeldTyped DEF Shape
  <2>2. Held(l)' = H \o T
    BY <1>5, <1>6 DEF Held, Live
  <2>3. Among(H, ToSet(P)) = Lane(P, l) /\ ToSet(H) \subseteq ToSet(P) \cup retired
    BY <1>1, <1>2, <2>1 DEF Files, Agreed, Agreement
  <2> HIDE DEF H
  <2>4. ToSet(kept) \cap ToSet(H) = {}
    BY <1>2 DEF H
  <2>5. /\ Among(H \o T, ToSet(Q)) = Lane(Q, l)
        /\ ToSet(H \o T) \subseteq ToSet(H) \cup ToSet(kept)
        /\ ToSet(P) \subseteq ToSet(Q) /\ ToSet(kept) \subseteq ToSet(Q) \cup D
        /\ ToSet(Q) \subseteq ToSet(P) \cup ToSet(kept)
    <3>1. /\ P \in Seq(Ids) /\ H \in Seq(Ids) /\ kept \in Seq(Ids)
          /\ Fresh(P, H, kept, D, l, Q)
      BY <1>1, <1>2, <1>3, <2>1, <2>3, <2>4 DEF Fresh
    <3>2. Grown(P, H, kept, D, l, Q)
      BY <3>1, Joining
    <3> QED BY <3>2 DEF Grown
  <2> HIDE DEF T
  <2>6. Agreement(l)'
    BY <1>3, <1>4, <2>2, <2>3, <2>5 DEF Agreement
  <2> QED BY <2>4, <2>5, <2>6 DEF H
<1>8. Gone'
  <2>1. ASSUME NEW l \in Lanes, stage[l] \in After
        PROVE  ToSet(JobIds(committed[l])) \cap ToSet(Q) = {}
    <3>1. ToSet(JobIds(committed[l])) \cap ToSet(P) = {}
      BY <1>1, <2>1 DEF Files, Gone
    <3>2. ToSet(JobIds(committed[l])) \subseteq ToSet(Live(l))
      BY CommittedLive DEF Shape
    <3> QED BY <1>7, <3>1, <3>2
  <2> QED BY <1>3, <2>1 DEF Gone
<1> QED BY <1>7, <1>8 DEF Agreed

InStep == FileSound /\ Written /\ Agreed /\ Gone

LEMMA AcceptNothingInStep ==
    ASSUME Shape, Shape', Table, Promise, Files, AcceptNothing
    PROVE  InStep'
<1>1. /\ pub.stage = "append" /\ pub.kept = <<>> /\ Accepted
      /\ UNCHANGED <<disk, jrnl, retired, queue, batch, committed, stage>>
  BY DEF AcceptNothing, diskVars, laneVars, histVars
<1>2. jrnl.holder \notin {"pub"}
  <2>1. Len(<<>>) = 0 /\ \A n \in Nat : ~(n < 0)
    BY EmptySeq
  <2> QED BY <1>1, <2>1 DEF Shape, Journalling, TypeOK, AppendState
<1>3. FileStill
  BY <1>1, <1>2, SqlSinkAssumption DEF FileStill
<1>4. FileSound' /\ Written' /\ Stable' = Stable
  BY <1>3, FileStillKeeps DEF Files
<1>5. Stable'.pend = Stable.pend \o Among(pub.kept, Ids \ ToSet(Stable.done))
  <2> DEFINE S == Ids \ ToSet(Stable.done)
  <2>1. Stable.pend \in Seq(Ids)
    BY StableTyped DEF Shape
  <2> HIDE DEF S
  <2>2. Among(<<>>, S) = <<>> /\ Stable.pend \o <<>> = Stable.pend
    BY <2>1, AmongNone, ConcatEmptySeq
  <2> QED BY <1>1, <1>4, <2>2 DEF S
<1> QED BY <1>1, <1>4, <1>5, AcceptAgrees DEF InStep

LEMMA WritePendingInStep ==
    ASSUME Shape, Shape', Table, Promise, Files, WritePending
    PROVE  InStep'
<1>1. /\ FileSound' /\ Written'
      /\ jrnl.n + 1 # Len(pub.kept) => Stable' = Stable /\ UNCHANGED <<pub, left>>
      /\ jrnl.n + 1 = Len(pub.kept) =>
           /\ Accepted /\ Stable'.done = Stable.done
           /\ Stable'.pend = Stable.pend \o Among(pub.kept, Ids \ ToSet(Stable.done))
  BY WritePendingFile
<1>2. /\ pub.stage = "append" /\ jrnl.holder \in {"none", "pub"}
      /\ UNCHANGED <<retired, queue, batch, committed, stage>>
  BY DEF WritePending, WriteLine, laneVars, histVars
<1>3. CASE jrnl.n + 1 = Len(pub.kept)
  BY <1>1, <1>2, <1>3, AcceptAgrees DEF InStep
<1>4. CASE jrnl.n + 1 # Len(pub.kept)
  <2>1. Undisturbed
    BY <1>1, <1>4, HalfWrittenUndisturbed
  <2> QED BY <1>1, <2>1, UndisturbedKeeps DEF InStep, Files
<1> QED BY <1>3, <1>4

\* The replay holds what the file owes.
LEMMA ReserveReplayInStep ==
    ASSUME Shape, Shape', Files, ReserveReplay
    PROVE  InStep' /\ UNCHANGED disk /\ ~up
<1>1. /\ pub.stage = "filter" /\ pub.todo = <<>> /\ pub.who = NoConn /\ Accepted
      /\ UNCHANGED <<disk, jrnl, retired, up, queue, batch, committed, stage>>
  BY DEF ReserveReplay, diskVars, laneVars, histVars
<1>2. ~up
  BY <1>1, SqlSinkAssumption DEF Files, Clients
<1>3. jrnl.holder = "none" /\ \A l \in Lanes : stage[l] = "take"
  BY <1>2 DEF Shape, Stopped
<1>4. pub.kept = disk.pend /\ \A l \in Lanes : LiveJobs(l) = <<>>
  <2>1. pub.kept \in Seq(Ids)
    BY DEF Shape, TypeOK, PubState
  <2>2. pub.kept \o <<>> = pub.kept
    BY <2>1, ConcatEmptySeq
  <2> QED BY <1>1, <1>2, <2>2 DEF Files, Replaying
<1>5. pub'.stage = "push" /\ pub'.todo = disk.pend
  BY <1>1, <1>4 DEF Accepted, Shape, TypeOK, PubState
<1>6. FileSound' /\ Written' /\ Stable' = Stable /\ Stable = disk
  <2>1. FileStill
    BY <1>1, <1>3, SqlSinkAssumption DEF FileStill
  <2> QED BY <1>3, <2>1, FileStillKeeps DEF Files, Stable
<1>7. ASSUME NEW l \in Lanes PROVE Agreement(l)'
  <2> DEFINE P == disk.pend
             T == Lane(P, l)
  <2>1. P \in Seq(Ids)
    BY DEF Shape, TypeOK, Disk
  <2>2. T \in Seq(Ids) /\ ToSet(T) \subseteq ToSet(P)
    BY <2>1, LaneFacts
  <2>3. Held(l)' = <<>> \o T
    <3>1. JobIds(LiveJobs(l)') = <<>>
      BY <1>1, <1>4, JobIdsOfNone DEF LiveJobs
    <3> QED BY <1>5, <3>1 DEF Held
  <2>4. Stable'.pend = P
    BY <1>6
  <2> HIDE DEF T, P
  <2>5. Held(l)' = T
    BY <2>2, <2>3, ConcatEmptySeq
  <2>6. Among(T, ToSet(P)) = T
    BY <2>2, AmongWhole
  <2> QED BY <2>2, <2>4, <2>5, <2>6 DEF Agreement, T
<1>8. Gone'
  BY <1>1, <1>3 DEF Gone, After
<1> QED BY <1>1, <1>2, <1>6, <1>7, <1>8 DEF InStep, Agreed

LEMMA WriteDoneInStep ==
    ASSUME Shape, Shape', Files, NEW l \in Lanes, WriteDone(l)
    PROVE  InStep'
<1>1. PICK ids : ids = JobIds(committed[l])
  OBVIOUS
<1>2. /\ FileSound' /\ Written' /\ ids \in Seq(Ids)
      /\ jrnl.n + 1 # Len(ids) => Stable' = Stable /\ UNCHANGED <<retired, stage>>
      /\ jrnl.n + 1 = Len(ids) =>
           /\ Stable'.pend = Among(Stable.pend, Ids \ ToSet(ids))
           /\ retired' = retired \cup ToSet(ids)
           /\ stage' = [stage EXCEPT ![l] = "remember"]
  BY <1>1, WriteDoneFile
<1>3. CASE jrnl.n + 1 # Len(ids)
  <2>1. Undisturbed
    BY <1>2, <1>3, HalfWrittenUndisturbed
  <2> QED BY <1>2, <2>1, UndisturbedKeeps DEF InStep, Files
<1>4. CASE jrnl.n + 1 = Len(ids)
  <2>1. UNCHANGED <<up, pub, queue, batch, committed>>
    BY DEF WriteDone
  <2>2. PICK P, C, Q : P = Stable.pend /\ C = ToSet(ids) /\ Q = Among(P, Ids \ C)
    OBVIOUS
  <2>3. P \in Seq(Ids) /\ Stable'.pend = Q /\ retired' = retired \cup C
    BY <1>2, <1>4, <2>2, StableTyped DEF Shape
  <2>4. Q \in Seq(Ids) /\ ToSet(Q) = ToSet(P) \cap (Ids \ C) /\ ToSet(P) \subseteq Ids
    BY <2>2, <2>3, AmongElements, Elements
  <2>5. ASSUME NEW m \in Lanes, Agreement(m) PROVE Agreement(m)'
    <3> DEFINE H == Held(m)
    <3>1. H \in Seq(Ids) /\ Held(m)' = H
      BY <2>1, HeldTyped DEF Shape, Held, LiveJobs
    <3>2. Among(H, ToSet(P)) = Lane(P, m) /\ ToSet(H) \subseteq ToSet(P) \cup retired
      BY <2>2, <2>5 DEF Agreement
    <3> HIDE DEF H
    <3>3. Among(Among(H, ToSet(P)), Ids \ C) = Among(H, ToSet(P) \cap (Ids \ C))
      BY <3>1, AmongTwice
    <3>4. Lane(Q, m) = Among(Lane(P, m), Ids \ C)
      BY <2>2, <2>3, LaneAmong
    <3>5. ToSet(H) \subseteq ToSet(Q) \cup (retired \cup C)
      BY <2>4, <3>2
    <3> QED BY <2>3, <2>4, <3>1, <3>2, <3>3, <3>4, <3>5 DEF Agreement
  <2>6. Agreed'
    BY <2>1, <2>5 DEF Agreed, Files
  <2>7. Gone'
    <3>1. ASSUME NEW m \in Lanes, stage'[m] \in After
          PROVE  ToSet(JobIds(committed[m])) \cap ToSet(Q) = {}
      <4>1. CASE m = l
        BY <1>1, <2>2, <2>4, <4>1
      <4>2. CASE m # l
        BY <1>2, <1>4, <2>2, <2>4, <3>1, <4>2 DEF Shape, TypeOK, Files, Gone
      <4> QED BY <4>1, <4>2
    <3> QED BY <2>1, <2>3, <3>1 DEF Gone
  <2> QED BY <1>2, <2>6, <2>7 DEF InStep
<1> QED BY <1>3, <1>4

LEMMA CrashInStep ==
    ASSUME Files, Crash
    PROVE  InStep'
<1>1. /\ ~up' /\ pub' = Offline /\ \A l \in Lanes : stage'[l] = "take"
  BY DEF Crash
<1>2. Agreed' /\ Gone'
  BY <1>1 DEF Agreed, Gone, After, Offline
<1> QED BY <1>2, CrashFile DEF InStep, Files

LEMMA RetireInStep ==
    ASSUME Shape, Shape', Table, Files, NEW l \in Lanes, RetireOne(l)
    PROVE  InStep'
<1>1. PICK i : i = Head(committed[l]).id
  OBVIOUS
<1>2. /\ i \in Ids /\ Live(l) = <<i>> \o Live(l)' /\ Live(l)' \in Seq(Ids)
      /\ \A m \in Lanes : m # l => Live(m)' = Live(m)
  BY <1>1, RetireMoves
<1>3. /\ UNCHANGED <<disk, jrnl, retired, up, pub>> /\ stage[l] = "retire"
      /\ committed' = [committed EXCEPT ![l] = Tail(@)]
      /\ \A m \in Lanes : m # l => stage'[m] = stage[m] /\ committed'[m] = committed[m]
  BY DEF RetireOne, diskVars, histVars, Shape, TypeOK
<1>4. FileStill
  BY <1>3 DEF FileStill, Shape, Journalling
<1>5. FileSound' /\ Written' /\ Stable' = Stable
  BY <1>4, FileStillKeeps DEF Files
<1>6. PICK P : P = Stable.pend
  OBVIOUS
<1>7. /\ committed[l] \in Seq(Job) /\ committed[l] # <<>>
      /\ ToSet(JobIds(committed[l])) \cap ToSet(P) = {}
  BY <1>3, <1>6 DEF Shape, TypeOK, Working, Files, Gone, After
<1>8. /\ committed'[l] = Tail(committed[l])
      /\ ToSet(JobIds(committed[l])) = {i} \cup ToSet(JobIds(Tail(committed[l])))
  <2> DEFINE ids == JobIds(committed[l])
             r == JobIds(Tail(committed[l]))
  <2>1. /\ ids \in Seq(Ids) /\ ids # <<>> /\ Head(ids) = i /\ Tail(ids) = r
    BY <1>1, <1>7, JobIdsHead, JobIdsTyped
  <2>2. committed'[l] = Tail(committed[l])
    BY <1>3 DEF Shape, TypeOK
  <2> HIDE DEF ids, r
  <2>3. ToSet(ids) = {i} \cup ToSet(r)
    BY <2>1, HeadAndTail
  <2> QED BY <2>2, <2>3 DEF ids, r
<1>9. i \notin ToSet(P)
  BY <1>7, <1>8
<1>10. Gone'
  <2>1. ASSUME NEW m \in Lanes, stage'[m] \in After
        PROVE  ToSet(JobIds(committed'[m])) \cap ToSet(P) = {}
    <3>1. CASE m = l
      BY <1>7, <1>8, <3>1
    <3>2. CASE m # l
      BY <1>3, <1>6, <2>1, <3>2 DEF Files, Gone
    <3> QED BY <3>1, <3>2
  <2> QED BY <1>5, <1>6, <2>1 DEF Gone
<1>11. ASSUME NEW m \in Lanes, Agreement(m) PROVE Agreement(m)'
  <2>1. CASE m # l
    <3>1. Held(m)' = Held(m)
      BY <1>2, <1>3, <2>1 DEF Held, Live
    <3> QED BY <1>3, <1>5, <1>11, <3>1 DEF Agreement
  <2>2. CASE m = l
    <3> DEFINE one == <<i>>
               L == Live(l)'
               T == IF pub.stage = "push" THEN Lane(pub.todo, l) ELSE <<>>
               S == ToSet(P)
    <3>1. one \in Seq(Ids) /\ ToSet(one) = {i} /\ L \in Seq(Ids)
      BY <1>2, ElementsOfFew
    <3>2. T \in Seq(Ids)
      <4>1. pub.todo \in Seq(Ids)
        BY DEF Shape, TypeOK, PubState
      <4> QED BY <4>1, LaneFacts, EmptySeq
    <3>3. Held(l) = Live(l) \o T /\ Held(l)' = L \o T
      BY <1>3 DEF Held, Live
    <3>4. Live(l) = one \o L
      BY <1>2
    <3> HIDE DEF one, L, T, S
    <3>5. (one \o L) \o T = one \o (L \o T)
      BY <3>1, <3>2, ConcatAssociative
    <3> DEFINE H == L \o T
    <3>6. H \in Seq(Ids)
      BY <3>1, <3>2, Joined
    <3>7. Held(l) = one \o H /\ Held(l)' = H
      BY <3>3, <3>4, <3>5
    <3> HIDE DEF H
    <3>8. ToSet(one \o H) = ToSet(one) \cup ToSet(H)
      BY <3>1, <3>6, Joined
    <3>9. Among(one \o H, S) = Among(one, S) \o Among(H, S)
      BY <3>1, <3>6, AmongJoined
    <3>10. Among(one, S) = <<>>
      <4>1. ToSet(one) \cap S = {}
        BY <1>9, <3>1 DEF S
      <4> QED BY <3>1, <4>1, AmongOthers
    <3>11. Among(H, S) \in Seq(Ids)
      BY <3>6, AmongElements
    <3>12. <<>> \o Among(H, S) = Among(H, S)
      BY <3>11, ConcatEmptySeq
    <3>13. Among(Held(l), S) = Lane(P, l) /\ ToSet(Held(l)) \subseteq S \cup retired
      BY <1>6, <1>11, <2>2 DEF Agreement, S
    <3>14. Among(H, S) = Lane(P, l) /\ ToSet(H) \subseteq S \cup retired
      BY <3>7, <3>8, <3>9, <3>10, <3>12, <3>13
    <3> QED BY <1>3, <1>5, <1>6, <2>2, <3>7, <3>14 DEF Agreement, S
  <2> QED BY <2>1, <2>2
<1>12. Agreed'
  BY <1>3, <1>11 DEF Agreed, Files
<1> QED BY <1>5, <1>10, <1>12 DEF InStep

LEMMA ClientsInductive == Shape /\ Clients /\ [Next]_vars => Clients'
<1> SUFFICES ASSUME Shape, Clients, [Next]_vars PROVE Clients'
  OBVIOUS
<1>0. pub \in PubState
  BY DEF Shape, TypeOK
<1>1. ASSUME NEW c \in Conns, Handler(c) PROVE Clients'
  BY <1>1 DEF Handler, Receive, BeginPublish, Acknowledge, GiveUp, Offline, Clients
<1>2. CASE Publisher
  <2>1. (up' = up /\ pub'.who = pub.who /\ pub.stage # "free") \/ pub'.stage = "free"
    <3>1. CASE FilterOne
      <4>1. PICK r, k : pub' = [pub EXCEPT !.todo = r, !.kept = k]
        BY <3>1, Zenon DEF FilterOne
      <4> QED BY <1>0, <3>1, <4>1 DEF FilterOne, PubState
    <3>2. CASE UndoOne \/ PushOne
      <4>1. PICK r : pub' = [pub EXCEPT !.todo = r]
        BY <3>2, Zenon DEF UndoOne, PushOne
      <4>2. up' = up /\ pub.stage # "free"
        BY <3>2 DEF UndoOne, PushOne
      <4> QED BY <1>0, <4>1, <4>2 DEF PubState
    <3>5. CASE ReserveBatch \/ WritePendingFails
      BY <1>0, <3>5 DEF ReserveBatch, WritePendingFails, PubState
    <3>3. CASE RefuseBatch \/ RefuseUnjournalled \/ Published \/ Start
      BY <3>3 DEF RefuseBatch, RefuseUnjournalled, Published, Start, ReleaseMutex, Offline
    <3>4. CASE ReserveReplay \/ AcceptNothing \/ WritePending
      <4>1. Accepted => pub'.who = pub.who
        BY <1>0 DEF Accepted, PubState
      <4> QED BY <3>4, <4>1 DEF ReserveReplay, AcceptNothing, WritePending
    <3> QED BY <1>2, <3>1, <3>2, <3>3, <3>4, <3>5 DEF Publisher
  <2> QED BY <2>1 DEF Clients
<1>3. ASSUME NEW l \in Lanes, Worker(l) PROVE Clients'
  <2>1. UNCHANGED <<up, pub>>
    BY <1>3 DEF Worker, Sleep, TakeBatch, Execute, ExecuteFails, ExecuteUnknown, WriteDone,
           WriteDoneFails, RememberOne, FinishOne, RetireOne
  <2> QED BY <2>1 DEF Clients
<1>4. CASE Crash \/ Repair \/ Recover \/ UNCHANGED vars
  BY <1>4 DEF Crash, Repair, Recover, vars, Offline, Clients
<1> QED BY <1>1, <1>2, <1>3, <1>4 DEF Next

\* What may happen while the daemon is down.
LEMMA DownSteps ==
    ASSUME Shape, ~up, Next
    PROVE  FilterOne \/ ReserveReplay \/ PushOne \/ Start \/ Crash \/ Repair \/ Recover
<1>1. /\ \A l \in Lanes : stage[l] = "take"
      /\ \A c \in Conns : conn[c].st = "idle"
  BY DEF Shape, Stopped
<1>2. ASSUME NEW c \in Conns PROVE ~Handler(c)
  BY <1>1 DEF Handler, Receive, BeginPublish, Acknowledge, GiveUp
<1>3. ASSUME NEW l \in Lanes PROVE ~Worker(l)
  <2>1. stage[l] = "take"
    BY <1>1
  <2> QED BY <2>1 DEF Worker, Sleep, TakeBatch, Execute, ExecuteFails, ExecuteUnknown,
                      WillRun, WriteDone, WriteDoneFails, RememberOne, FinishOne, RetireOne
<1>4. pub.stage = "free" \/ pub.who \notin Conns
  BY PublisherUp
<1>5. /\ ~ReserveBatch /\ ~RefuseBatch /\ ~AcceptNothing /\ ~WritePending
      /\ ~WritePendingFails /\ ~UndoOne /\ ~RefuseUnjournalled /\ ~Published
  BY <1>4 DEF ReserveBatch, RefuseBatch, AcceptNothing, WritePending, WritePendingFails,
         UndoOne, RefuseUnjournalled, Published, Shape, Publishing
<1> QED BY <1>2, <1>3, <1>5 DEF Next, Publisher

\* No pending event is found complete by the replay.
LEMMA FilterReplays ==
    ASSUME Shape, Files, ~up, FilterOne
    PROVE  pub'.kept \o pub'.todo = disk.pend /\ pub'.stage = "filter" /\ pub'.who = pub.who
<1>1. PICK i, r, kept : i = Head(pub.todo) /\ r = Tail(pub.todo) /\ kept = pub.kept
  OBVIOUS
<1>2. /\ pub \in PubState /\ kept \in Seq(Ids) /\ pub.todo \in Seq(Ids) /\ pub.todo # <<>>
      /\ pub.stage = "filter"
  BY <1>1 DEF Shape, TypeOK, PubState, FilterOne
<1>3. kept \o pub.todo = disk.pend /\ dedupe = disk.done
  BY <1>1, <1>2 DEF Files, Replaying
<1>4. /\ i \in Ids /\ r \in Seq(Ids) /\ ToSet(pub.todo) = {i} \cup ToSet(r)
      /\ pub.todo = <<i>> \o r
  BY <1>1, <1>2, HeadAndTail, HeadJoinsTail
<1>5. i \in ToSet(disk.pend)
  <2>1. PICK t : t = pub.todo
    OBVIOUS
  <2>2. t \in Seq(Ids) /\ i \in ToSet(t) /\ kept \o t = disk.pend
    BY <1>2, <1>3, <1>4, <2>1
  <2>3. kept \in Seq(Ids) /\ t \in Seq(Ids)
    BY <1>2, <2>2
  <2>4. ToSet(kept \o t) = ToSet(kept) \cup ToSet(t)
    BY <2>3, Joined
  <2> QED BY <2>2, <2>4
<1>6. i \notin ToSet(dedupe)
  BY <1>3, <1>5 DEF Files, FileSound, Sound
<1>7. pub' = [pub EXCEPT !.todo = r, !.kept = Append(kept, i)]
  BY <1>1, <1>6 DEF FilterOne
<1>8. /\ pub'.todo = r /\ pub'.kept = Append(kept, i) /\ pub'.stage = "filter"
      /\ pub'.who = pub.who
  BY <1>2, <1>7 DEF PubState
<1>9. Append(kept, i) \o r = kept \o pub.todo
  <2> DEFINE one == <<i>>
  <2>1. one \in Seq(Ids) /\ pub.todo = one \o r /\ Append(kept, i) = kept \o one
    BY <1>2, <1>4, ElementsOfFew, AppendIsConcat
  <2> HIDE DEF one
  <2>2. (kept \o one) \o r = kept \o (one \o r)
    BY <1>2, <1>4, <2>1, ConcatAssociative
  <2> QED BY <2>1, <2>2
<1> QED BY <1>3, <1>8, <1>9

LEMMA ReplayingInductive == Shape /\ Files /\ [Next]_vars => Replaying'
<1> SUFFICES ASSUME Shape, Files, [Next]_vars, ~up' PROVE Replaying'
  BY DEF Replaying
<1>1. CASE Crash
  <2>1. \A l \in Lanes : LiveJobs(l)' = <<>>
    BY <1>1, CrashEmpties
  <2> QED BY <1>1, <2>1 DEF Crash, Replaying, Offline
<1>2. CASE up /\ ~Crash
  <2>1. up' = up
    BY <1>2 DEF Next, vars, Handler, Receive, BeginPublish, Acknowledge, GiveUp, Publisher,
           FilterOne, ReserveBatch, RefuseBatch, ReserveReplay, AcceptNothing, WritePending,
           WritePendingFails, UndoOne, RefuseUnjournalled, PushOne, Published, Start,
           Worker, Sleep, TakeBatch, Execute, ExecuteFails, ExecuteUnknown, WriteDone,
           WriteDoneFails, RememberOne, FinishOne, RetireOne, Repair, Recover
  <2> QED BY <1>2, <2>1
<1>3. CASE ~up
  <2>0. /\ pub.stage = "filter" => pub.kept \o pub.todo = disk.pend
        /\ pub.stage # "free" => dedupe = disk.done
        /\ pub.stage # "push" => \A l \in Lanes : LiveJobs(l) = <<>>
        /\ pub \in PubState
    BY <1>3 DEF Files, Replaying, Shape, TypeOK
  <2>1. CASE FilterOne
    <3>1. /\ pub'.kept \o pub'.todo = disk.pend /\ pub'.stage = "filter"
          /\ pub.stage = "filter"
      BY <1>3, <2>1, FilterReplays DEF FilterOne
    <3>2. UNCHANGED <<disk, dedupe, queue, batch, committed>>
      BY <2>1 DEF FilterOne, diskVars, laneVars
    <3> QED BY <2>0, <3>1, <3>2 DEF Replaying, LiveJobs
  <2>2. CASE ReserveReplay \/ PushOne
    <3>1. pub.stage \in {"filter", "push"} /\ UNCHANGED <<disk, dedupe>>
      BY <2>2 DEF ReserveReplay, PushOne, diskVars
    <3>2. pub'.stage = "push"
      <4>1. CASE ReserveReplay
        BY <2>0, <4>1 DEF ReserveReplay, Accepted, PubState
      <4>2. CASE PushOne
        <5>1. PICK r : pub' = [pub EXCEPT !.todo = r]
          BY <4>2, Zenon DEF PushOne
        <5> QED BY <2>0, <4>2, <5>1 DEF PushOne, PubState
      <4> QED BY <2>2, <4>1, <4>2
    <3> QED BY <2>0, <3>1, <3>2 DEF Replaying
  <2>3. CASE Start
    BY <2>3 DEF Start
  <2>4. CASE Recover
    <3>1. /\ pub'.stage = "filter" /\ pub'.kept = <<>> /\ pub'.todo = disk.pend
          /\ dedupe' = disk.done /\ pub.stage = "free"
          /\ UNCHANGED <<disk, queue, batch, committed>>
      BY <2>4 DEF Recover, Offline, diskVars, laneVars
    <3>2. disk.pend \in Seq(Ids)
      BY DEF Shape, TypeOK, Disk
    <3>3. <<>> \o disk.pend = disk.pend
      BY <3>2, ConcatEmptySeq
    <3> QED BY <2>0, <3>1, <3>3 DEF Replaying, LiveJobs
  <2>5. CASE Repair \/ UNCHANGED vars
    BY <2>0, <2>5 DEF Repair, vars, laneVars, Replaying, LiveJobs
  <2> QED BY <1>1, <1>3, <2>1, <2>2, <2>3, <2>4, <2>5, DownSteps
<1> QED BY <1>1, <1>2, <1>3

LEMMA InitFiles == Init => Files
<1> SUFFICES ASSUME Init PROVE Files
  OBVIOUS
<1>1. Stable = disk /\ disk = [pend |-> <<>>, done |-> <<>>] /\ jrnl.holder = "none"
  BY DEF Init, Stable, Idle
<1>2. ToSet(<<>>) = {} /\ Distinct(<<>>)
  BY ElementsOfFew DEF Distinct
<1>3. FileSound
  BY <1>1, <1>2 DEF FileSound, Sound
<1>4. Written
  BY <1>1, SqlSinkAssumption DEF Written
<1>5. ~up /\ pub.stage = "free" /\ \A l \in Lanes : stage[l] = "take"
  BY DEF Init, Offline
<1>6. <<>> \o <<>> = <<>>
  BY ConcatEmptySeq, EmptySeq
<1>7. Replaying /\ Clients /\ Agreed /\ Gone
  BY <1>5, <1>6 DEF Init, Replaying, Clients, Agreed, Gone, After, LiveJobs
<1> QED BY <1>3, <1>4, <1>7 DEF Files

LEMMA FilesInductive ==
    Shape /\ Shape' /\ Promise /\ Table /\ Files /\ [Next]_vars => Files'
<1> SUFFICES ASSUME Shape, Shape', Promise, Table, Files, [Next]_vars PROVE Files'
  OBVIOUS
<1>1. Clients' /\ Replaying'
  BY ClientsInductive, ReplayingInductive DEF Files
<1> SUFFICES InStep'
  BY <1>1 DEF InStep, Files
<1>2. FileStill /\ Undisturbed => InStep'
  BY FileStillKeeps, UndisturbedKeeps DEF Files, InStep
<1>3. Resting
  BY DEF Table
<1>4. ASSUME NEW c \in Conns, Handler(c) PROVE InStep'
  BY <1>2, <1>4, HandlerStill
<1>5. CASE Publisher
  <2>1. CASE FilterOne \/ ReserveBatch \/ RefuseBatch \/ UndoOne \/ RefuseUnjournalled
               \/ Published \/ Start
    BY <1>2, <2>1, PublisherStill
  <2>2. CASE PushOne
    BY <1>2, <2>2, PushStill
  <2>3. CASE WritePendingFails
    BY <2>3, RollBackUndisturbed, UndisturbedKeeps DEF Files, InStep
  <2> QED BY <1>5, <2>1, <2>2, <2>3, ReserveReplayInStep, AcceptNothingInStep,
             WritePendingInStep DEF Publisher
<1>6. ASSUME NEW l \in Lanes, Worker(l) PROVE InStep'
  <2>1. CASE Sleep(l) \/ TakeBatch(l) \/ Execute(l) \/ ExecuteFails(l) \/ ExecuteUnknown(l)
               \/ RememberOne(l) \/ FinishOne(l)
    BY <1>2, <1>3, <2>1, WorkerStill
  <2>2. CASE WriteDoneFails(l)
    BY <2>2, RollBackUndisturbed, UndisturbedKeeps DEF Files, InStep
  <2> QED BY <1>6, <2>1, <2>2, WriteDoneInStep, RetireInStep DEF Worker
<1>7. CASE Crash
  BY <1>7, CrashInStep
<1>8. CASE Repair \/ Recover \/ UNCHANGED vars
  BY <1>2, <1>8, StartStill
<1> QED BY <1>4, <1>5, <1>6, <1>7, <1>8 DEF Next

SinkInv == Shape /\ Promise /\ Table /\ Files

LEMMA SinkInductive == Spec => []SinkInv
<1>1. Init => SinkInv
  BY InitShape, InitPromise, InitTable, InitFiles DEF SinkInv
<1>2. SinkInv /\ [Next]_vars => SinkInv'
  BY ShapeInductive, PromiseInductive, TableInductive, FilesInductive DEF SinkInv
<1> QED BY <1>1, <1>2, PTL DEF Spec

\* Whatever crashes, fails or is retried, the events the journal would replay
\* are at any moment the accepted ones still held in memory, in the same lane
\* order, and what memory holds beyond them is on record as complete.
THEOREM NothingLostInACrash == Spec => []CrashKeepsQueues
<1>1. SinkInv => CrashKeepsQueues
  BY DEF SinkInv, Files, Agreed, Agreement, CrashKeepsQueues
<1> QED BY <1>1, SinkInductive, PTL

-----------------------------------------------------------------------------
(* The daemon can come back                                                *)

\* Every event pending in the file, the unfinished append included, belongs to
\* a permit while the daemon is up.
LEMMA PendingIsOwned ==
    ASSUME SinkInv, up
    PROVE  ToSet(disk.pend) \subseteq Owners
<1>1. TypeOK /\ Shape /\ Table /\ Files /\ Agreed
  BY DEF SinkInv, Shape, Files
<1>2. Stable.pend \in Seq(Ids) /\ pub.kept \in Seq(Ids) /\ pub.todo \in Seq(Ids)
  BY <1>1, StableTyped DEF TypeOK, PubState
<1>3. ASSUME NEW i \in ToSet(Stable.pend) PROVE i \in Owners
  <2> DEFINE l == LaneOf[i]
  <2>1. l \in Lanes /\ i \in ToSet(Held(l))
    BY <1>1, PendingIsHeld
  <2> HIDE DEF l
  <2>2. CASE pub.stage = "push"
    <3> DEFINE a == Live(l)
               b == Lane(pub.todo, l)
    <3>1. Held(l) = a \o b /\ a \in Seq(Ids)
      BY <1>1, <2>1, <2>2, HeldTyped
    <3>2. b \in Seq(Ids) /\ ToSet(b) \subseteq ToSet(pub.todo)
      BY <1>2, <2>1, LaneFacts
    <3> HIDE DEF a, b
    <3>3. ToSet(a \o b) = ToSet(a) \cup ToSet(b)
      BY <3>1, <3>2, Joined
    <3>4. i \in ToSet(a) \/ i \in ToSet(pub.todo)
      BY <2>1, <3>1, <3>2, <3>3
    <3> QED BY <2>1, <2>2, <3>4 DEF Owners, Unpublished, a
  <2>3. CASE pub.stage # "push"
    BY <1>1, <2>1, <2>3, HeldTyped DEF Owners
  <2> QED BY <2>2, <2>3
<1>4. CASE jrnl.holder = "none"
  BY <1>3, <1>4 DEF Stable
<1>5. CASE jrnl.holder \in Lanes
  <2>1. Stable = jrnl.before /\ disk.pend = Among(Stable.pend, Ids \ Recorded)
    BY <1>1, <1>5, SqlSinkAssumption DEF Files, Written, Stable
  <2>2. ToSet(disk.pend) \subseteq ToSet(Stable.pend)
    <3> DEFINE S == Ids \ Recorded
    <3>1. disk.pend = Among(Stable.pend, S)
      BY <2>1
    <3> HIDE DEF S
    <3> QED BY <1>2, <3>1, AmongElements
  <2> QED BY <1>3, <2>2
<1>6. CASE jrnl.holder = "pub"
  <2> DEFINE S == Ids \ ToSet(Stable.done)
             a == SubSeq(pub.kept, 1, jrnl.n)
             K == Among(a, S)
  <2>1. /\ pub.stage = "append" /\ jrnl.n \in 0 .. Len(pub.kept)
        /\ disk.pend = Stable.pend \o K
    BY <1>1, <1>6, WrittenSoFar DEF Files, Shape, Journalling
  <2>2. a \in Seq(Ids) /\ ToSet(a) \subseteq ToSet(pub.kept)
    <3>1. a \in Seq(Ids) /\ Len(a) = jrnl.n /\ Len(pub.kept) \in Nat
      BY <1>2, <2>1, Cut, LenProperties
    <3>2. ToSet(a) = {pub.kept[k] : k \in 1 .. jrnl.n}
      BY <1>2, <2>1, FirstOnes
    <3>3. \A k \in 1 .. jrnl.n : k \in 1 .. Len(pub.kept)
      BY <2>1, <3>1
    <3> QED BY <1>2, <3>1, <3>2, <3>3, Elements
  <2> HIDE DEF a, S
  <2>3. K \in Seq(Ids) /\ ToSet(K) \subseteq ToSet(a)
    BY <2>2, AmongElements
  <2> HIDE DEF K
  <2>4. ToSet(disk.pend) = ToSet(Stable.pend) \cup ToSet(K)
    BY <1>2, <2>1, <2>3, Joined
  <2>5. Unpublished = pub.kept
    BY <2>1 DEF Unpublished
  <2> QED BY <1>3, <2>2, <2>3, <2>4, <2>5 DEF Owners
<1> QED BY <1>1, <1>4, <1>5, <1>6 DEF TypeOK, AppendState

\* The batch a list of owned events would make fits the limits.
LEMMA OwnedFits ==
    ASSUME SinkInv, NEW s \in Seq(Ids), Distinct(s), ToSet(s) \subseteq Owners
    PROVE  Len(s) <= RowLimit /\ AdmP!BatchBytes(Requests(s)) <= ByteLimit
<1> DEFINE r == Requests(s)
           n == Len(s)
<1>1. TypeOK /\ AdmP!IInv
  BY DEF SinkInv, Shape, Table
<1>2. Permits = {PermitOf(i) : i \in Owners}
  BY <1>1, OwnersPermits DEF Listed
<1>3. /\ r \in [1 .. n -> AdmP!Permit] /\ n \in Nat /\ AdmP!DistinctIds(r)
      /\ ToSet(r) = {PermitOf(i) : i \in ToSet(s)}
  BY RequestFacts
<1> HIDE DEF r, n
<1>4. AdmP!ToSet(r) \subseteq Permits
  BY <1>2, <1>3, SameWords
<1>5. n <= RowLimit /\ AdmP!BatchBytes(r) <= ByteLimit
  BY <1>1, <1>3, <1>4, AdmP!SomeFit, Assumed
<1> QED BY <1>5 DEF r, n

Refillable ==
    /\ Len(disk.pend) <= RowLimit
    /\ AdmP!BatchBytes(Requests(disk.pend)) <= ByteLimit

LEMMA UpFits == SinkInv /\ up => Refillable
<1> SUFFICES ASSUME SinkInv, up PROVE Refillable
  OBVIOUS
<1>1. disk.pend \in Seq(Ids) /\ Distinct(disk.pend) /\ ToSet(disk.pend) \subseteq Owners
  BY PendingIsOwned DEF SinkInv, Shape, TypeOK, Disk, Files, FileSound, Sound
<1> QED BY <1>1, OwnedFits DEF Refillable

\* Nobody writes to the journal while the daemon is down or goes down.
LEMMA DownWritesNothing ==
    ASSUME Shape, [Next]_vars, ~up'
    PROVE  disk' = disk
<1>1. CASE Crash \/ Repair \/ Recover \/ UNCHANGED vars
  BY <1>1 DEF Crash, Repair, Recover, diskVars, vars
<1>2. CASE ~up /\ (FilterOne \/ ReserveReplay \/ PushOne \/ Start)
  BY <1>2 DEF FilterOne, ReserveReplay, PushOne, Start, diskVars
<1>3. CASE up /\ ~Crash
  <2>1. up' = up
    BY <1>3 DEF Next, vars, Handler, Receive, BeginPublish, Acknowledge, GiveUp, Publisher,
           FilterOne, ReserveBatch, RefuseBatch, ReserveReplay, AcceptNothing, WritePending,
           WritePendingFails, UndoOne, RefuseUnjournalled, PushOne, Published, Start,
           Worker, Sleep, TakeBatch, Execute, ExecuteFails, ExecuteUnknown, WriteDone,
           WriteDoneFails, RememberOne, FinishOne, RetireOne, Repair, Recover
  <2> QED BY <1>3, <2>1
<1> QED BY <1>1, <1>2, <1>3, DownSteps

\* What the journal holds at any moment would be admitted by the replay: the
\* daemon never refuses to start because of its own backlog.
THEOREM ReplayAlwaysFits == Spec => []ReplayNeverRefused
<1>1. Init => Refillable
  <2> SUFFICES ASSUME Init PROVE Refillable
    OBVIOUS
  <2>1. disk.pend = <<>> /\ Requests(<<>>) = <<>>
    BY DEF Init, Requests
  <2>2. AdmP!BatchBytes(<<>>) = 0 /\ Len(<<>>) = 0
    BY AdmP!BytesOfNone, Assumed, EmptySeq
  <2> QED BY <2>1, <2>2, SqlSinkAssumption DEF Refillable
<1>2. SinkInv /\ SinkInv' /\ Refillable /\ [Next]_vars => Refillable'
  <2> SUFFICES ASSUME SinkInv, SinkInv', Refillable, [Next]_vars PROVE Refillable'
    OBVIOUS
  <2>1. CASE up'
    <3>1. (SinkInv /\ up => Refillable)'
      BY UpFits, PTL
    <3> QED BY <2>1, <3>1
  <2>2. CASE ~up'
    <3>1. disk' = disk
      BY <2>2, DownWritesNothing DEF SinkInv
    <3> QED BY <3>1 DEF Refillable
  <2> QED BY <2>1, <2>2
<1>3. SinkInv /\ Refillable => ReplayNeverRefused
  <2> SUFFICES ASSUME SinkInv, Refillable PROVE ReplayNeverRefused
    OBVIOUS
  <2>1. disk.pend \in Seq(Ids) /\ Distinct(disk.pend)
    BY DEF SinkInv, Shape, TypeOK, Disk, Files, FileSound, Sound
  <2>2. Adm!DistinctIds(Requests(disk.pend))
    BY <2>1, RequestFacts, SameWords
  <2> QED BY <2>2, SameWords DEF Refillable, ReplayNeverRefused
<1> QED BY <1>1, <1>2, <1>3, SinkInductive, PTL DEF Spec

-----------------------------------------------------------------------------
(* The window of completed ids                                             *)

\* The window has not overflowed, whatever happens: it has room for every id.
Roomy == Cardinality(Ids) <= DedupeEvents

\* What is on record is in the window of the file, the lines of an unfinished
\* append included, ...
Windowed ==
    /\ retired \subseteq ToSet(Stable.done)
    /\ jrnl.holder \in Lanes
         => Recorded \cup ToSet(jrnl.before.done) \subseteq ToSet(disk.done)

\* ... and in the cache, or with a worker on its way there, ...
Cached ==
    up => \A i \in retired :
            \/ i \in ToSet(dedupe)
            \/ \E l \in Lanes : stage[l] \in After /\ i \in ToSet(JobIds(committed[l]))

\* ... which the job that is retired next has reached.
Reached ==
    \A l \in Lanes : stage[l] \in {"finish", "retire"}
                       => Head(committed[l]).id \in ToSet(dedupe)

Window == Distinct(dedupe) /\ (Roomy => Windowed /\ Cached /\ Reached)

\* Steps that touch neither the file nor what memory says of completed ids.
LogStill ==
    /\ UNCHANGED <<disk, jrnl>>
    /\ \A l \in Lanes : jrnl.holder = l => committed'[l] = committed[l]

CacheStill ==
    /\ dedupe' = dedupe /\ retired' = retired /\ up' = up
    /\ \A l \in Lanes : stage[l] \in After \/ stage'[l] \in After
         => stage'[l] = stage[l] /\ committed'[l] = committed[l]

LEMMA LogStillKeeps ==
    ASSUME LogStill, retired' = retired, Windowed
    PROVE  Windowed'
<1>1. Stable' = Stable
  BY DEF LogStill, Stable
<1>2. jrnl.holder \in Lanes => Recorded' = Recorded
  BY DEF LogStill, Recorded
<1> QED BY <1>1, <1>2 DEF LogStill, Windowed

LEMMA CacheStillKeeps ==
    ASSUME CacheStill, Distinct(dedupe), Roomy => Cached /\ Reached
    PROVE  Distinct(dedupe') /\ (Roomy => Cached' /\ Reached')
<1>1. Distinct(dedupe')
  BY DEF CacheStill
<1>2. ASSUME Roomy PROVE Cached'
  <2> SUFFICES ASSUME up', NEW i \in retired'
               PROVE  \/ i \in ToSet(dedupe')
                      \/ \E l \in Lanes : stage'[l] \in After
                                            /\ i \in ToSet(JobIds(committed'[l]))
    BY DEF Cached
  <2>1. up /\ i \in retired
    BY DEF CacheStill
  <2>2. CASE i \in ToSet(dedupe)
    BY <2>2 DEF CacheStill
  <2>3. CASE i \notin ToSet(dedupe)
    <3>1. PICK l \in Lanes : stage[l] \in After /\ i \in ToSet(JobIds(committed[l]))
      BY <1>2, <2>1, <2>3 DEF Cached
    <3>2. stage'[l] \in After /\ committed'[l] = committed[l]
      BY <3>1 DEF CacheStill
    <3> QED BY <3>1, <3>2
  <2> QED BY <2>2, <2>3
<1>3. ASSUME Roomy PROVE Reached'
  BY <1>3 DEF CacheStill, Reached, After
<1> QED BY <1>1, <1>2, <1>3

LEMMA QuietWindow ==
    ASSUME LogStill, CacheStill, Window
    PROVE  Window'
BY LogStillKeeps, CacheStillKeeps DEF Window, CacheStill

LEMMA HandlerWindow ==
    ASSUME NEW c \in Conns, Handler(c)
    PROVE  LogStill /\ CacheStill
BY DEF Handler, Receive, BeginPublish, Acknowledge, GiveUp, diskVars, laneVars, histVars,
       LogStill, CacheStill

LEMMA PublisherWindow ==
    ASSUME FilterOne \/ ReserveBatch \/ RefuseBatch \/ ReserveReplay \/ AcceptNothing
             \/ UndoOne \/ RefuseUnjournalled \/ PushOne \/ Published
    PROVE  LogStill /\ CacheStill
<1>1. CASE Published
  BY <1>1 DEF Published, diskVars, histVars, LogStill, CacheStill, After
<1>2. CASE ~Published
  BY <1>2 DEF FilterOne, ReserveBatch, RefuseBatch, ReserveReplay, AcceptNothing, UndoOne,
       RefuseUnjournalled, PushOne, diskVars, laneVars, histVars, LogStill, CacheStill
<1> QED BY <1>1, <1>2

LEMMA WorkerWindow ==
    ASSUME Shape, NEW l \in Lanes,
           Sleep(l) \/ TakeBatch(l) \/ Execute(l) \/ ExecuteFails(l) \/ ExecuteUnknown(l)
    PROVE  LogStill /\ CacheStill
<1>1. UNCHANGED <<disk, jrnl, dedupe, retired, up>>
  BY DEF Sleep, TakeBatch, Execute, ExecuteFails, ExecuteUnknown, diskVars, histVars
<1>2. \A m \in Lanes : \/ committed'[m] = committed[m] /\ stage'[m] = stage[m]
                       \/ /\ stage[m] \in {"take", "execute"}
                          /\ stage'[m] \in {"asleep", "execute", "confirm"}
  <2> TAKE m \in Lanes
  <2>1. CASE m # l
    BY <2>1 DEF Sleep, TakeBatch, Execute, ExecuteFails, ExecuteUnknown, AfterFailure,
           Shape, TypeOK
  <2>2. CASE m = l
    BY <2>2 DEF Sleep, TakeBatch, Execute, ExecuteFails, ExecuteUnknown, AfterFailure, WillRun,
           Shape, TypeOK
  <2> QED BY <2>1, <2>2
<1>3. LogStill
  BY <1>1, <1>2 DEF LogStill, Shape, Journalling
<1>4. CacheStill
  BY <1>1, <1>2 DEF CacheStill, After
<1> QED BY <1>3, <1>4

\* The steps of an append, completed or not, for a batch, and of a rollback.
LEMMA AppendWindow ==
    ASSUME Shape, Table, Files, Window,
           WritePending \/ WritePendingFails \/ \E l \in Lanes : WriteDoneFails(l)
    PROVE  Window'
<1>1. CacheStill
  BY DEF WritePending, WritePendingFails, WriteDoneFails, laneVars, histVars, CacheStill
<1>2. Stable'.done = Stable.done /\ jrnl'.holder \notin Lanes
  <2>1. CASE WritePending
    <3>1. jrnl'.holder \in {"none", "pub"}
      BY <2>1 DEF WritePending, WriteLine, Idle
    <3>2. Stable'.done = Stable.done
      BY <2>1, WritePendingFile
    <3> QED BY <3>1, <3>2, SqlSinkAssumption
  <2>2. CASE ~WritePending
    <3>1. disk' = Stable /\ jrnl' = Idle
      BY <2>2 DEF WritePendingFails, WriteDoneFails, RollBack
    <3> QED BY <3>1, SqlSinkAssumption DEF Stable, Idle
  <2> QED BY <2>1, <2>2
<1>3. Roomy => Windowed'
  BY <1>1, <1>2 DEF Windowed, Window, CacheStill
<1> QED BY <1>1, <1>3, CacheStillKeeps DEF Window

\* What an append of completion lines has written is in the window already.
LEMMA AlreadyWindowed ==
    ASSUME Shape, Files, Windowed, NEW l \in Lanes, jrnl.holder \in {"none", l}
    PROVE  ToSet(SubSeq(JobIds(committed[l]), 1, jrnl.n)) \cup ToSet(Stable.done)
             \subseteq ToSet(disk.done)
<1>1. CASE jrnl.holder = "none"
  <2>1. jrnl.n = 0 /\ Stable = disk
    BY <1>1 DEF Shape, Journalling, Stable
  <2>2. SubSeq(JobIds(committed[l]), 1, 0) = <<>> /\ ToSet(<<>>) = {}
    BY SubSeqEmpty, ElementsOfFew
  <2> QED BY <2>1, <2>2
<1>2. CASE jrnl.holder = l
  <2>1. Recorded = ToSet(SubSeq(JobIds(committed[l]), 1, jrnl.n))
    BY <1>2, RecordedSoFar DEF Files
  <2>2. Stable = jrnl.before
    BY <1>2, SqlSinkAssumption DEF Stable
  <2> QED BY <1>2, <2>1, <2>2 DEF Windowed
<1> QED BY <1>1, <1>2

\* What the append of lane l has written is on record in memory as well.
Accounted ==
    \A l \in Lanes : jrnl.holder = l
        => Recorded = ToSet(SubSeq(JobIds(committed[l]), 1, jrnl.n))

LEMMA AllAccounted == Shape /\ Written => Accounted
BY RecordedSoFar DEF Accounted

LEMMA WriteDoneWindowed ==
    ASSUME Shape, Shape', Files, Windowed, Roomy, NEW l \in Lanes, WriteDone(l)
    PROVE  Windowed'
<1>1. (Shape /\ Written => Accounted)'
  BY AllAccounted, PTL
<1>2. PICK n, ids : n = jrnl.n /\ ids = JobIds(committed[l])
  OBVIOUS
<1> DEFINE a == SubSeq(ids, 1, n)
           b == SubSeq(ids, 1, n + 1)
<1>3. /\ ids \in Seq(Ids) /\ n \in Nat /\ n < Len(ids)
      /\ ToSet(disk'.done) = ToSet(disk.done) \cup {ids[n + 1]}
      /\ IF n + 1 = Len(ids)
         THEN jrnl' = Idle /\ retired' = retired \cup ToSet(ids)
         ELSE /\ jrnl' = [holder |-> l, before |-> Stable, n |-> n + 1]
              /\ UNCHANGED retired
  BY <1>2, WriteDoneMoves DEF Roomy
<1>4. jrnl.holder \in {"none", l} /\ committed' = committed
  BY DEF WriteDone, WriteLine
<1>5. ToSet(a) \cup ToSet(Stable.done) \subseteq ToSet(disk.done)
  BY <1>2, <1>4, AlreadyWindowed
<1>6. ToSet(b) = ToSet(a) \cup {ids[n + 1]}
  BY <1>3, OneMore
<1>7. Written'
  BY <1>2, WriteDoneFile
<1> HIDE DEF a
<1>8. ToSet(b) \cup ToSet(Stable.done) \subseteq ToSet(disk'.done)
  BY <1>3, <1>5, <1>6
<1>9. retired \subseteq ToSet(Stable.done)
  BY DEF Windowed
<1>10. CASE n + 1 = Len(ids)
  <2>1. jrnl'.holder = "none" /\ Stable' = disk' /\ retired' = retired \cup ToSet(ids)
    BY <1>3, <1>10 DEF Idle, Stable
  <2>2. b = ids
    BY <1>3, <1>10, SubSeqFull
  <2> QED BY <1>8, <1>9, <2>1, <2>2, SqlSinkAssumption DEF Windowed
<1>11. CASE n + 1 # Len(ids)
  <2>1. /\ jrnl'.holder = l /\ jrnl'.n = n + 1 /\ jrnl'.before = Stable /\ retired' = retired
        /\ l # "none"
    BY <1>3, <1>11, SqlSinkAssumption
  <2>2. Recorded' = ToSet(b)
    BY <1>1, <1>2, <1>4, <1>7, <2>1 DEF Accounted
  <2>3. Stable' = Stable
    BY <2>1 DEF Stable
  <2> QED BY <1>8, <1>9, <2>1, <2>2, <2>3 DEF Windowed
<1> QED BY <1>10, <1>11

\* Markers that became durable are on their way to the cache.
LEMMA WriteDoneWindow ==
    ASSUME Shape, Shape', Files, Window, NEW l \in Lanes, WriteDone(l)
    PROVE  Window'
<1>1. Roomy => Windowed'
  BY WriteDoneWindowed DEF Window
<1>2. PICK n, ids : n = jrnl.n /\ ids = JobIds(committed[l])
  OBVIOUS
<1>3. /\ UNCHANGED <<dedupe, up, committed>> /\ stage[l] = "confirm"
      /\ IF n + 1 = Len(ids)
         THEN /\ retired' = retired \cup ToSet(ids)
              /\ stage' = [stage EXCEPT ![l] = "remember"]
         ELSE UNCHANGED <<retired, stage>>
  BY <1>2, WriteDoneMoves DEF WriteDone
<1>4. CASE n + 1 # Len(ids)
  <2>1. CacheStill
    BY <1>3, <1>4 DEF CacheStill
  <2> QED BY <1>1, <2>1, CacheStillKeeps DEF Window
<1>5. CASE n + 1 = Len(ids)
  <2>1. \A m \in Lanes : stage'[m] = IF m = l THEN "remember" ELSE stage[m]
    BY <1>3, <1>5 DEF Shape, TypeOK
  <2>2. ASSUME Roomy PROVE Cached'
    <3> SUFFICES ASSUME up', NEW i \in retired', i \notin ToSet(dedupe')
                 PROVE  \E m \in Lanes : stage'[m] \in After
                                           /\ i \in ToSet(JobIds(committed'[m]))
      BY DEF Cached
    <3>1. CASE i \in ToSet(ids)
      <4>1. stage'[l] \in After /\ i \in ToSet(JobIds(committed'[l]))
        BY <1>2, <1>3, <2>1, <3>1 DEF After
      <4> QED BY <4>1
    <3>2. CASE i \notin ToSet(ids)
      <4>1. PICK m \in Lanes : stage[m] \in After /\ i \in ToSet(JobIds(committed[m]))
        BY <1>3, <1>5, <2>2, <3>2 DEF Window, Cached
      <4>2. m # l
        BY <1>3, <4>1 DEF After
      <4> QED BY <1>3, <2>1, <4>1, <4>2
    <3> QED BY <3>1, <3>2
  <2>3. ASSUME Roomy PROVE Reached'
    BY <1>3, <2>1, <2>3 DEF Window, Reached
  <2> QED BY <1>1, <1>3, <2>2, <2>3 DEF Window
<1> QED BY <1>4, <1>5

\* A job leaves its worker only when the cache has its id.
LEMMA ConfirmWindow ==
    ASSUME Shape, Window, NEW l \in Lanes, RememberOne(l) \/ FinishOne(l) \/ RetireOne(l)
    PROVE  Window'
<1>0. /\ committed[l] \in Seq(Job) /\ committed[l] # <<>> /\ stage \in [Lanes -> WorkerStages]
      /\ committed \in [Lanes -> Seq(Job)] /\ dedupe \in Seq(Ids)
      /\ stage[l] \in After
  BY DEF Shape, TypeOK, Working, RememberOne, FinishOne, RetireOne, After
<1>1. UNCHANGED <<disk, jrnl, retired, up>>
      /\ \A m \in Lanes : m # l => stage'[m] = stage[m] /\ committed'[m] = committed[m]
  BY <1>0 DEF RememberOne, FinishOne, RetireOne, diskVars, histVars
<1>2. LogStill
  BY <1>0, <1>1 DEF LogStill, Shape, Journalling, After
<1>3. Roomy => Windowed'
  BY <1>1, <1>2, LogStillKeeps DEF Window
<1>4. PICK h : h = Head(committed[l]).id
  OBVIOUS
<1>5. h \in Ids
  BY <1>0, <1>4, JobFacts
<1>6. CASE RememberOne(l)
  <2>1. dedupe' = RememberId(dedupe, h) /\ stage'[l] = "finish" /\ committed' = committed
    BY <1>0, <1>4, <1>6 DEF RememberOne
  <2>2. Distinct(dedupe') /\ (Roomy => ToSet(dedupe') = ToSet(dedupe) \cup {h})
    BY <1>0, <1>5, <2>1, Remembers DEF Window, Roomy
  <2>3. \A m \in Lanes : stage[m] \in After => stage'[m] \in After
    BY <1>1, <2>1 DEF After
  <2>4. Roomy => Cached'
    BY <1>1, <2>1, <2>2, <2>3 DEF Window, Cached
  <2>5. Roomy => Reached'
    BY <1>1, <1>4, <2>1, <2>2 DEF Window, Reached
  <2> QED BY <1>3, <2>2, <2>4, <2>5 DEF Window
<1>7. CASE FinishOne(l)
  <2>1. dedupe' = dedupe /\ stage[l] = "finish" /\ stage'[l] = "retire" /\ committed' = committed
    BY <1>0, <1>7 DEF FinishOne
  <2>2. \A m \in Lanes : stage[m] \in After => stage'[m] \in After
    BY <1>1, <2>1 DEF After
  <2>3. Roomy => Cached'
    BY <1>1, <2>1, <2>2 DEF Window, Cached
  <2>4. Roomy => Reached'
    BY <1>1, <2>1 DEF Window, Reached
  <2> QED BY <1>3, <2>1, <2>3, <2>4 DEF Window
<1>8. CASE RetireOne(l)
  <2>1. /\ dedupe' = dedupe /\ stage[l] = "retire" /\ committed'[l] = Tail(committed[l])
        /\ stage'[l] = IF Len(committed[l]) > 1 THEN "remember"
                       ELSE IF batch[l] # <<>> THEN "execute" ELSE "take"
    BY <1>0, <1>8 DEF RetireOne
  <2>2. Roomy => h \in ToSet(dedupe)
    BY <1>4, <2>1 DEF Window, Reached
  <2>3. PICK c, r : c = committed[l] /\ r = Tail(committed[l])
    OBVIOUS
  <2>4. /\ ToSet(JobIds(c)) = {h} \cup ToSet(JobIds(r))
        /\ ToSet(JobIds(r)) # {} => Len(c) > 1
    <3>1. c \in Seq(Job) /\ r \in Seq(Job) /\ Len(r) = Len(c) - 1 /\ Len(c) \in Nat
      BY <1>0, <2>3, HeadTailProperties, LenProperties
    <3>2. JobIds(c) \in Seq(Ids) /\ Len(JobIds(c)) = Len(c) /\ JobIds(r) \in Seq(Ids)
          /\ Len(JobIds(r)) = Len(r)
      BY <3>1, JobIdsTyped
    <3>3. Head(JobIds(c)) = h /\ Tail(JobIds(c)) = JobIds(r) /\ JobIds(c) # <<>>
      BY <1>0, <1>4, <2>3, <3>1, JobIdsHead
    <3>4. ToSet(JobIds(r)) # {} => Len(r) # 0
      BY <3>1, JobIdsOfNone, EmptySeq, ElementsOfFew
    <3> DEFINE s == JobIds(c)
               t == JobIds(r)
    <3> HIDE DEF s, t
    <3>5. ToSet(s) = {h} \cup ToSet(t)
      BY <3>2, <3>3, HeadAndTail DEF s, t
    <3> QED BY <3>1, <3>4, <3>5 DEF s, t
  <2>5. ASSUME Roomy PROVE Cached'
    <3> SUFFICES ASSUME up', NEW i \in retired', i \notin ToSet(dedupe')
                 PROVE  \E m \in Lanes : stage'[m] \in After
                                           /\ i \in ToSet(JobIds(committed'[m]))
      BY DEF Cached
    <3>1. PICK m \in Lanes : stage[m] \in After /\ i \in ToSet(JobIds(committed[m]))
      BY <1>1, <2>1, <2>5 DEF Window, Cached
    <3>2. CASE m # l
      BY <1>1, <3>1, <3>2
    <3>3. CASE m = l
      <4>1. i \in ToSet(JobIds(r))
        BY <2>1, <2>2, <2>3, <2>4, <2>5, <3>1, <3>3
      <4>2. stage'[l] \in After /\ committed'[l] = r
        BY <2>1, <2>3, <2>4, <4>1 DEF After
      <4> QED BY <4>1, <4>2
    <3> QED BY <3>2, <3>3
  <2>6. Roomy => Reached'
    BY <1>1, <2>1 DEF Window, Reached
  <2> QED BY <1>3, <2>1, <2>5, <2>6 DEF Window
<1> QED BY <1>6, <1>7, <1>8

\* The window outlives a crash, and is what the cache starts with.
LEMMA CrashWindow ==
    ASSUME Shape, Files, Window, Crash \/ Recover \/ Start \/ Repair
    PROVE  Window'
<1>0. "pub" \notin Lanes /\ "none" \notin Lanes
  BY SqlSinkAssumption
<1>1. CASE Crash
  <2>1. /\ disk' = disk /\ jrnl'.holder = "none" /\ Stable' = disk
        /\ retired' = retired \cup Recorded
    BY <1>1 DEF Crash, Idle, Stable
  <2>2. /\ ~up' /\ dedupe' = <<>> /\ \A l \in Lanes : stage'[l] = "take"
    BY <1>1 DEF Crash
  <2>3. ASSUME Roomy PROVE retired \cup Recorded \subseteq ToSet(disk.done)
    <3>1. retired \subseteq ToSet(Stable.done)
      BY <2>3 DEF Window, Windowed
    <3>2. CASE jrnl.holder \in Lanes
      <4>1. Recorded \cup ToSet(Stable.done) \subseteq ToSet(disk.done)
        BY <1>0, <2>3, <3>2 DEF Window, Windowed, Stable
      <4> QED BY <3>1, <4>1
    <3>3. CASE jrnl.holder \notin Lanes
      <4>1. Stable.done = disk.done
        BY <3>3 DEF Files, Written, Stable, Shape, TypeOK, AppendState
      <4> QED BY <3>1, <3>3, <4>1 DEF Recorded
    <3> QED BY <3>2, <3>3
  <2>4. Roomy => Windowed'
    BY <1>0, <2>1, <2>3 DEF Windowed
  <2>5. Distinct(dedupe')
    BY <2>2, EmptySeq DEF Distinct
  <2> QED BY <2>2, <2>4, <2>5 DEF Window, Cached, Reached
<1>2. CASE Recover
  <2>1. /\ dedupe' = disk.done /\ ~up' /\ ~up /\ UNCHANGED <<disk, jrnl, stage, committed, retired>>
    BY <1>2 DEF Recover, diskVars, laneVars, histVars
  <2>2. Distinct(dedupe')
    BY <2>1 DEF Files, FileSound, Sound
  <2>3. Roomy => Windowed'
    BY <2>1, LogStillKeeps DEF Window, LogStill
  <2>4. Cached' /\ Reached'
    BY <2>1 DEF Cached, Reached, Shape, Stopped
  <2> QED BY <2>2, <2>3, <2>4 DEF Window
<1>3. CASE Start
  <2>1. UNCHANGED <<disk, jrnl, stage, committed, retired, dedupe>>
        /\ pub.stage = "push" /\ pub.who \notin Conns
    BY <1>3, SqlSinkAssumption DEF Start, diskVars, laneVars, histVars
  <2>2. ~up /\ dedupe = disk.done /\ Stable = disk
    BY <2>1 DEF Files, Clients, Replaying, Shape, Stopped, Stable
  <2>3. Roomy => Windowed'
    BY <2>1, LogStillKeeps DEF Window, LogStill
  <2>4. Roomy => Cached' /\ Reached'
    BY <2>1, <2>2 DEF Window, Windowed, Cached, Reached
  <2> QED BY <2>1, <2>3, <2>4 DEF Window
<1>4. CASE Repair
  <2>1. LogStill /\ CacheStill
    BY <1>4 DEF Repair, laneVars, histVars, LogStill, CacheStill
  <2> QED BY <2>1, QuietWindow
<1> QED BY <1>1, <1>2, <1>3, <1>4

LEMMA InitWindow == Init => Window
<1> SUFFICES ASSUME Init PROVE Window
  OBVIOUS
<1>1. jrnl.holder = "none" /\ retired = {} /\ ~up /\ dedupe = <<>>
      /\ \A l \in Lanes : stage[l] = "take"
  BY DEF Init, Idle
<1>2. Distinct(<<>>)
  BY EmptySeq DEF Distinct
<1> QED BY <1>1, <1>2, SqlSinkAssumption DEF Window, Windowed, Cached, Reached

LEMMA WindowInductive ==
    Shape /\ Shape' /\ Table /\ Files /\ Window /\ [Next]_vars => Window'
<1> SUFFICES ASSUME Shape, Shape', Table, Files, Window, [Next]_vars PROVE Window'
  OBVIOUS
<1>1. LogStill /\ CacheStill => Window'
  BY QuietWindow
<1>2. ASSUME NEW c \in Conns, Handler(c) PROVE Window'
  BY <1>1, <1>2, HandlerWindow
<1>3. CASE Publisher
  BY <1>1, <1>3, PublisherWindow, AppendWindow, CrashWindow DEF Publisher
<1>4. ASSUME NEW l \in Lanes, Worker(l) PROVE Window'
  BY <1>1, <1>4, WorkerWindow, AppendWindow, WriteDoneWindow, ConfirmWindow DEF Worker
<1>5. CASE UNCHANGED vars
  <2>1. LogStill /\ CacheStill
    BY <1>5 DEF vars, LogStill, CacheStill
  <2> QED BY <1>1, <2>1
<1>6. CASE Crash \/ Repair \/ Recover
  BY <1>6, CrashWindow
<1> QED BY <1>2, <1>3, <1>4, <1>5, <1>6 DEF Next

\* The job a worker runs next is one of those alive in its lane.
LEMMA BatchLive ==
    ASSUME TypeOK, NEW l \in Lanes, batch[l] # <<>>
    PROVE  Head(batch[l]).id \in ToSet(Live(l))
<1> DEFINE a == JobIds(committed[l])
           b == JobIds(batch[l])
           q == JobIds(queue[l])
           c == a \o b
<1>1. a \in Seq(Ids) /\ b \in Seq(Ids) /\ q \in Seq(Ids) /\ Live(l) = c \o q
  BY JobIdsTyped, LiveTyped DEF TypeOK
<1>2. b # <<>> /\ Head(b) = Head(batch[l]).id
  BY JobIdsHead DEF TypeOK
<1> HIDE DEF a, b, q
<1>3. Head(b) \in ToSet(b)
  BY <1>1, <1>2, HeadAndTail
<1>4. c \in Seq(Ids) /\ ToSet(c) = ToSet(a) \cup ToSet(b)
  BY <1>1, Joined
<1> HIDE DEF c
<1>5. ToSet(c \o q) = ToSet(c) \cup ToSet(q)
  BY <1>1, <1>4, Joined
<1> QED BY <1>1, <1>2, <1>3, <1>4, <1>5

\* An event on record as complete that a worker has not executed yet would have
\* two places in memory: with the worker that recorded it, and here.
LEMMA HeadIsNew ==
    ASSUME SinkInv, Window, Roomy, NEW l \in Lanes, WillRun(l)
    PROVE  Head(batch[l]).id \notin retired
<1> SUFFICES ASSUME Head(batch[l]).id \in retired PROVE FALSE
  OBVIOUS
<1>1. /\ Shape /\ TypeOK /\ Table /\ stage[l] = "execute" /\ batch[l] \in Seq(Job)
      /\ batch[l] # <<>> /\ Head(batch[l]).id \notin ToSet(dedupe)
  BY DEF SinkInv, Shape, Working, TypeOK, WillRun
<1>2. PICK i : i = Head(batch[l]).id
  OBVIOUS
<1>3. up
  BY <1>1 DEF Shape, Stopped
<1>4. PICK m \in Lanes : stage[m] \in After /\ i \in ToSet(JobIds(committed[m]))
  BY <1>1, <1>2, <1>3 DEF Window, Cached
<1>5. i \in ToSet(Live(m))
  BY <1>1, <1>4, CommittedLive
<1>6. i \in ToSet(Live(l))
  BY <1>1, <1>2, BatchLive
<1>7. m = l
  BY <1>1, <1>5, <1>6 DEF Table, Lined
<1> QED BY <1>1, <1>4, <1>7 DEF After

\* While the window has room for every id in use, an event is not run again
\* once the marker of its completion is durable.
THEOREM CompletedRunsOnce == Spec => []RetiredNeverRunsAgain
<1>1. Init => Window
  BY InitWindow
<1>2. SinkInv /\ SinkInv' /\ Window /\ [Next]_vars => Window'
  BY WindowInductive DEF SinkInv
<1>3. SinkInv /\ Window => RetiredNeverRunsAgain
  BY HeadIsNew DEF RetiredNeverRunsAgain, Roomy
<1> QED BY <1>1, <1>2, <1>3, SinkInductive, PTL DEF Spec

-----------------------------------------------------------------------------
(* The durable queue: what the sink owes, applies and discharges           *)

\* What the sink owes, as the abstract queue sees it.
Owes == [l \in Lanes |-> Lane(Stable.pend, l)]

\* The operators of the abstract queue are the sink's.
LEMMA QueueWords ==
    /\ \A s : Queue!ToSet(s) = ToSet(s)
    /\ \A l \in Lanes : \A s : Queue!OfLaneSeq(s, l) = Lane(s, l)
    /\ \A s \in Seq(Ids) : Len(s) <= RowLimit => s \in Queue!BoundedSeq(Ids, RowLimit)
<1>1. \A s : Queue!ToSet(s) = ToSet(s)
  BY DEF Queue!ToSet, ToSet
<1>2. \A l \in Lanes : \A s : Queue!OfLaneSeq(s, l) = Lane(s, l)
  <2>1. \A l \in Lanes : Queue!OfLane[l] = IdsOfLane[l]
    BY DEF Queue!OfLane, IdsOfLane
  <2>2. \A s, S : Queue!Among(s, S) = Among(s, S)
    BY DEF Queue!Among, Among
  <2> QED BY <2>1, <2>2 DEF Queue!OfLaneSeq, Lane
<1>3. ASSUME NEW s \in Seq(Ids), Len(s) <= RowLimit
      PROVE  s \in Queue!BoundedSeq(Ids, RowLimit)
  <2>1. Len(s) \in 0 .. RowLimit /\ s \in [1 .. Len(s) -> Ids]
    BY <1>3, LenProperties, SqlSinkAssumption
  <2> QED BY <2>1 DEF Queue!BoundedSeq, Queue!SeqOf
<1> QED BY <1>1, <1>2, <1>3

LEMMA QueueInit == Init => Queue!Init
<1> SUFFICES ASSUME Init PROVE Queue!Init
  OBVIOUS
<1>1. Stable.pend = <<>> /\ applied = {} /\ retired = {}
  BY DEF Init, Stable, Idle
<1>2. \A l \in Lanes : Lane(<<>>, l) = <<>>
  BY AmongNone DEF Lane
<1> QED BY <1>1, <1>2 DEF Queue!Init

\* A step the abstract queue does not see.
Unseen == Stable'.pend = Stable.pend /\ UNCHANGED <<applied, retired>>

LEMMA UnseenStutters == Unseen => UNCHANGED Queue!dqVars
BY DEF Unseen, Queue!dqVars

\* A batch is taken over when what is owed grows by it.
LEMMA QueueAccepts ==
    ASSUME SinkInv, SinkInv', NEW K \in Seq(Ids), ToSet(K) \subseteq Owners,
           Stable'.pend = Stable.pend \o K, UNCHANGED <<applied, retired>>
    PROVE  Queue!Next
<1>1. PICK P : P = Stable.pend
  OBVIOUS
<1>2. P \in Seq(Ids)
  BY <1>1, StableTyped DEF SinkInv, Shape
<1>3. Distinct(K) /\ ToSet(P) \cap ToSet(K) = {}
  <2>1. Distinct(P \o K)
    BY <1>1 DEF SinkInv, Files, FileSound, Sound
  <2> QED BY <1>2, <2>1, DistinctParts
<1>4. K \in Queue!BoundedSeq(Ids, RowLimit)
  BY <1>3, OwnedFits, QueueWords
<1>5. \A i \in ToSet(K) : LaneOf[i] \in Lanes /\ i \notin ToSet(Lane(P, LaneOf[i]))
  <2> TAKE i \in ToSet(K)
  <2>1. i \in Ids /\ LaneOf[i] \in Lanes
    BY Elements, SqlSinkAssumption
  <2> QED BY <1>2, <1>3, <2>1, LaneFacts
<1>6. \A l \in Lanes : Lane(P \o K, l) = Lane(P, l) \o Lane(K, l)
  BY <1>2, LaneJoined
<1>7. Queue!Accept(K)
  <2>1. \A i \in Queue!ToSet(K) : i \notin Queue!ToSet(Owes[LaneOf[i]])
    BY <1>1, <1>5, QueueWords DEF Owes
  <2>2. Owes' = [l \in Lanes |-> Owes[l] \o Queue!OfLaneSeq(K, l)]
    BY <1>1, <1>6, QueueWords DEF Owes
  <2> QED BY <2>1, <2>2 DEF Queue!Accept, Owes
<1> QED BY <1>4, <1>7 DEF Queue!Next

\* The parts behind the first one can be joined before it.
Regrouped(X, a, b, c, d) ==
    /\ ((a \o b) \o c) \o d = a \o ((b \o c) \o d)
    /\ (b \o c) \o d \in Seq(X)

LEMMA FourParts ==
    ASSUME NEW X, NEW a \in Seq(X), NEW b \in Seq(X), NEW c \in Seq(X), NEW d \in Seq(X)
    PROVE  Regrouped(X, a, b, c, d)
<1>1. PICK bc : bc = b \o c
  OBVIOUS
<1>2. bc \in Seq(X) /\ (a \o b) \o c = a \o bc
  <2>1. b \o c \in Seq(X)
    BY Joined
  <2>2. (a \o b) \o c = a \o (b \o c)
    BY ConcatAssociative
  <2> QED BY <1>1, <2>1, <2>2
<1>3. (a \o bc) \o d = a \o (bc \o d)
  BY <1>2, ConcatAssociative
<1>4. bc \o d \in Seq(X)
  BY <1>2, Joined
<1> QED BY <1>1, <1>2, <1>3, <1>4 DEF Regrouped

\* What is held for a lane: the jobs executed, those taken and the others.
LEMMA HeldInOrder ==
    ASSUME TypeOK, NEW l \in Lanes
    PROVE  \E rest \in Seq(Ids) :
             /\ Held(l) = JobIds(committed[l]) \o rest
             /\ batch[l] # <<>> =>
                  /\ Head(batch[l]).id \in Ids
                  /\ \E more \in Seq(Ids) : rest = <<Head(batch[l]).id>> \o more
<1>1. pub.todo \in Seq(Ids)
  BY DEF TypeOK, PubState
<1>2. PICK a, b, q, t : /\ a = JobIds(committed[l]) /\ b = JobIds(batch[l])
                        /\ q = JobIds(queue[l])
                        /\ t = IF pub.stage = "push" THEN Lane(pub.todo, l) ELSE <<>>
  OBVIOUS
<1>3. /\ a \in Seq(Ids) /\ b \in Seq(Ids) /\ q \in Seq(Ids) /\ t \in Seq(Ids)
      /\ Live(l) = (a \o b) \o q
  BY <1>1, <1>2, JobIdsTyped, LiveTyped, LaneFacts, EmptySeq DEF TypeOK
<1>4. Held(l) = ((a \o b) \o q) \o t
  BY <1>2, <1>3 DEF Held, Live
<1>5. Held(l) = a \o ((b \o q) \o t) /\ (b \o q) \o t \in Seq(Ids)
  <2>1. a \in Seq(Ids) /\ b \in Seq(Ids) /\ q \in Seq(Ids) /\ t \in Seq(Ids)
    BY <1>3
  <2>2. /\ ((a \o b) \o q) \o t = a \o ((b \o q) \o t)
        /\ (b \o q) \o t \in Seq(Ids)
    <3>1. Regrouped(Ids, a, b, q, t)
      BY <2>1, FourParts
    <3> QED BY <3>1 DEF Regrouped
  <2> QED BY <1>4, <2>2, Zenon
<1>6. ASSUME batch[l] # <<>>
      PROVE  /\ Head(batch[l]).id \in Ids
             /\ \E more \in Seq(Ids) : (b \o q) \o t = <<Head(batch[l]).id>> \o more
  <2>1. batch[l] \in Seq(Job)
    BY DEF TypeOK
  <2>2. PICK i, c : i = Head(batch[l]).id /\ c = JobIds(Tail(batch[l]))
    OBVIOUS
  <2>3. i \in Ids /\ c \in Seq(Ids) /\ b = <<i>> \o c
    <3>1. Tail(batch[l]) \in Seq(Job)
      BY <1>6, <2>1, HeadAndTail
    <3> QED BY <1>2, <1>6, <2>1, <2>2, <3>1, JobFacts, JobIdsTyped, JobIdsHead
  <2> DEFINE one == <<i>>
  <2>4. one \in Seq(Ids) /\ b = one \o c
    BY <2>3
  <2> HIDE DEF one
  <2>5. ((one \o c) \o q) \o t = one \o ((c \o q) \o t) /\ (c \o q) \o t \in Seq(Ids)
    <3>1. one \in Seq(Ids) /\ c \in Seq(Ids) /\ q \in Seq(Ids) /\ t \in Seq(Ids)
      BY <1>3, <2>3, <2>4
    <3>2. Regrouped(Ids, one, c, q, t)
      BY <3>1, FourParts
    <3> QED BY <3>2 DEF Regrouped
  <2>6. (b \o q) \o t = <<i>> \o ((c \o q) \o t)
    BY <2>4, <2>5 DEF one
  <2> QED BY <2>2, <2>3, <2>5, <2>6
<1> QED BY <1>2, <1>5, <1>6

\* Element i comes behind a.
Placed(a, i, b, s) == s = a \o (<<i>> \o b)

LEMMA PlaceBehind ==
    ASSUME NEW X, NEW a \in Seq(X), NEW i \in X, NEW b \in Seq(X),
           NEW s, Placed(a, i, b, s)
    PROVE  /\ Len(a) + 1 \in DOMAIN s /\ s[Len(a) + 1] = i
           /\ \A m \in 1 .. Len(a) : s[m] \in ToSet(a)
<1>1. PICK r, p, q : r = <<i>> \o b /\ p = Len(a) /\ q = Len(r)
  OBVIOUS
<1>2. r \in Seq(X) /\ r # <<>> /\ Head(r) = i
  BY <1>1, FirstAndRest
<1>3. q \in Nat \ {0} /\ r[1] = i /\ p \in Nat
  BY <1>1, <1>2, EmptySeq
<1>4. /\ s \in Seq(X) /\ Len(s) = p + q
      /\ \A k \in 1 .. p + q : s[k] = IF k <= p THEN a[k] ELSE r[k - p]
  BY <1>1, <1>2, ConcatProperties DEF Placed
<1>5. DOMAIN s = 1 .. p + q /\ \A m \in 1 .. p : a[m] \in ToSet(a)
  BY <1>1, <1>4, LenProperties, Elements
<1>6. PICK k : k = p + 1
  OBVIOUS
<1>7. k \in 1 .. p + q /\ ~(k <= p) /\ k - p = 1
  BY <1>3, <1>6
<1>10. s[k] = r[k - p]
  BY <1>4, <1>7, Zenon
<1>8. \A m \in 1 .. p : m \in 1 .. p + q /\ m <= p
  BY <1>3
<1>9. \A m \in 1 .. p : s[m] = a[m]
  BY <1>4, <1>8
<1>11. k \in DOMAIN s /\ s[k] = i
  BY <1>3, <1>5, <1>7, <1>10
<1> QED BY <1>1, <1>5, <1>6, <1>9, <1>11

\* A sequence cut where it was joined.
Split(a, b, s) == s = a \o b

LEMMA CutApart ==
    ASSUME NEW X, NEW a \in Seq(X), NEW b \in Seq(X), NEW s, Split(a, b, s)
    PROVE  /\ Len(a) \in 0 .. Len(s)
           /\ SubSeq(s, 1, Len(a)) = a
           /\ SubSeq(s, Len(a) + 1, Len(s)) = b
<1>1. PICK m, n : m = Len(a) /\ n = Len(b)
  OBVIOUS
<1>2. /\ s \in Seq(X) /\ Len(s) = m + n /\ m \in Nat /\ n \in Nat
      /\ \A k \in 1 .. m + n : s[k] = IF k <= m THEN a[k] ELSE b[k - m]
  BY <1>1, ConcatProperties, LenProperties DEF Split
<1>3. \A k \in 1 .. m + n : s[k] \in X
  BY <1>2, ElementOfSeq
<1>4. m \in 0 .. m + n
  BY <1>2
<1>5. PICK x, y : x = SubSeq(s, 1, m) /\ y = SubSeq(s, m + 1, m + n)
  OBVIOUS
<1>6. /\ x \in Seq(X) /\ y \in Seq(X) /\ x \o y = s /\ Len(x) = m
  BY <1>2, <1>4, <1>5, Cut
<1>7. \A k \in 1 .. m : x[k] = a[k]
  <2>1. PICK q : q = Len(y)
    OBVIOUS
  <2>2. q \in Nat /\ \A k \in 1 .. m + q : s[k] = IF k <= m THEN x[k] ELSE y[k - m]
    BY <1>6, <2>1, ConcatProperties, LenProperties
  <2>3. \A k \in 1 .. m : k \in 1 .. m + q /\ k \in 1 .. m + n /\ k <= m
    BY <1>2, <2>2
  <2> QED BY <1>2, <2>2, <2>3
<1>8. x = a
  BY <1>1, <1>6, <1>7, SeqEqual
<1>9. y = b
  <2>1. PICK q : q = Len(y)
    OBVIOUS
  <2>2. /\ q \in Nat /\ Len(s) = m + q
        /\ \A k \in 1 .. m + q : s[k] = IF k <= m THEN x[k] ELSE y[k - m]
    BY <1>6, <2>1, ConcatProperties, LenProperties
  <2>3. q = n
    BY <1>2, <2>2
  <2>4. ASSUME NEW k \in 1 .. n PROVE y[k] = b[k]
    <3>1. PICK c : c = m + k
      OBVIOUS
    <3>2. c \in 1 .. m + n /\ ~(c <= m) /\ c - m = k
      BY <1>2, <3>1
    <3>3. s[c] = y[c - m] /\ s[c] = b[c - m]
      BY <1>2, <2>2, <2>3, <3>2, Zenon
    <3> QED BY <3>2, <3>3
  <2> QED BY <1>1, <1>6, <2>1, <2>3, <2>4, SeqEqual
<1> QED BY <1>1, <1>2, <1>4, <1>5, <1>8, <1>9

\* An event whose SQL commits is the first of its lane that is not applied, or
\* had been applied before.
LEMMA QueueRuns ==
    ASSUME SinkInv, up, NEW l \in Lanes, batch[l] # <<>>,
           NEW i, i = Head(batch[l]).id,
           applied' = applied \cup {i}, retired' = retired, Stable'.pend = Stable.pend
    PROVE  Queue!Next \/ UNCHANGED Queue!dqVars
<1>0. TypeOK /\ Promise /\ Agreement(l)
  BY DEF SinkInv, Shape, Files, Agreed
<1>1. CASE i \in applied
  <2>1. applied' = applied
    BY <1>1
  <2> QED BY <2>1, UnseenStutters DEF Unseen
<1>2. CASE i \notin applied
  <2>1. PICK P, U, a : P = Stable.pend /\ U = ToSet(P) /\ a = JobIds(committed[l])
    OBVIOUS
  <2>2. P \in Seq(Ids) /\ a \in Seq(Ids) /\ Held(l) \in Seq(Ids)
    BY <1>0, <2>1, StableTyped, JobIdsTyped, HeldTyped DEF TypeOK
  <2>3. PICK r \in Seq(Ids), more \in Seq(Ids) :
          Held(l) = a \o r /\ r = <<i>> \o more /\ i \in Ids
    BY <1>0, <2>1, HeldInOrder
  <2> DEFINE one == <<i>>
  <2>4. one \in Seq(Ids) /\ ToSet(one) = {i} /\ r = one \o more
    BY <2>3, ElementsOfFew
  <2> HIDE DEF one
  <2>15. one \in Seq(Ids) /\ more \in Seq(Ids)
    BY <2>3, <2>4
  <2>16. a \in Seq(Ids) /\ r \in Seq(Ids)
    BY <2>2, <2>3
  <2>5. i \in U
    <3>1. ToSet(one \o more) = ToSet(one) \cup ToSet(more)
      BY <2>15, Joined
    <3>2. ToSet(a \o r) = ToSet(a) \cup ToSet(r)
      BY <2>16, Joined
    <3>3. i \in ToSet(Held(l))
      BY <2>3, <2>4, <3>1, <3>2
    <3> QED BY <1>0, <1>2, <2>1, <3>3 DEF Agreement, Promise, Executed
  <2>6. PICK A, M : A = Among(a, U) /\ M = Among(more, U)
    OBVIOUS
  <2>7. A \in Seq(Ids) /\ M \in Seq(Ids) /\ ToSet(A) \subseteq ToSet(a)
    BY <2>2, <2>3, <2>6, AmongElements
  <2>8. Lane(P, l) = A \o (<<i>> \o M)
    <3>1. Among(one, U) = one
      BY <2>4, <2>5, AmongWhole
    <3>2. Among(one \o more, U) = Among(one, U) \o Among(more, U)
      BY <2>15, AmongJoined
    <3>3. Among(a \o r, U) = Among(a, U) \o Among(r, U)
      BY <2>16, AmongJoined
    <3>4. Lane(P, l) = Among(Held(l), U)
      BY <1>0, <2>1 DEF Agreement
    <3>5. Lane(P, l) = A \o (one \o M)
      BY <2>3, <2>4, <2>6, <3>1, <3>2, <3>3, <3>4
    <3> QED BY <3>5 DEF one
  <2>9. ToSet(a) \subseteq applied
    <3>1. \A x \in ToSet(a) : \E j \in ToSet(committed[l]) : j.id = x
      BY <1>0, <2>1, JobIdsElements DEF TypeOK
    <3> QED BY <1>0, <3>1 DEF Promise, Executed
  <2>10. PICK k, s : k = Len(A) + 1 /\ s = Lane(P, l)
    OBVIOUS
  <2>11. /\ k \in DOMAIN s /\ s[k] = i
         /\ \A m \in 1 .. Len(A) : s[m] \in ToSet(A)
    <3>1. Placed(A, i, M, s) /\ A \in Seq(Ids) /\ M \in Seq(Ids) /\ i \in Ids
      BY <2>3, <2>7, <2>8, <2>10 DEF Placed
    <3>2. /\ Len(A) + 1 \in DOMAIN s /\ s[Len(A) + 1] = i
          /\ \A m \in 1 .. Len(A) : s[m] \in ToSet(A)
      BY <3>1, PlaceBehind
    <3> QED BY <2>10, <3>2
  <2>12. \A m \in 1 .. k - 1 : s[m] \in applied
    <3>1. Len(A) \in Nat
      BY <2>7, LenProperties
    <3> QED BY <2>7, <2>9, <2>10, <2>11, <3>1
  <2>13. Owes[l] = s /\ Owes' = Owes
    BY <2>1, <2>10 DEF Owes
  <2>14. Queue!Apply(l, k) /\ k \in DOMAIN Owes[l]
    BY <2>11, <2>12, <2>13 DEF Queue!Apply, Owes
  <2> QED BY <2>14 DEF Queue!Next, Owes
<1> QED BY <1>1, <1>2

\* The jobs whose markers became durable are the first ones owed of their lane,
\* or jobs that were taken over again although complete.
LEMMA QueueDischarges ==
    ASSUME SinkInv, up, NEW l \in Lanes, NEW ids, ids = JobIds(committed[l]),
           NEW n \in 0 .. Len(ids), NEW C, C = ToSet(SubSeq(ids, 1, n)),
           Stable'.pend = Among(Stable.pend, Ids \ C), retired' = retired \cup C,
           applied' = applied
    PROVE  Queue!Next
<1>0. TypeOK /\ Promise /\ Table /\ Agreement(l) /\ Sound(Stable)
  BY DEF SinkInv, Shape, Files, Agreed, FileSound
<1>1. PICK P, U, W : P = Stable.pend /\ U = ToSet(P) /\ W = Ids \ C
  OBVIOUS
<1>2. P \in Seq(Ids) /\ ids \in Seq(Ids) /\ Distinct(P)
  BY <1>0, <1>1, StableTyped, JobIdsTyped DEF TypeOK, Sound
<1>3. PICK rest \in Seq(Ids) : Held(l) = ids \o rest
  BY <1>0, HeldInOrder
<1>4. PICK a, d : a = SubSeq(ids, 1, n) /\ d = SubSeq(ids, n + 1, Len(ids))
  OBVIOUS
<1>5. a \in Seq(Ids) /\ d \in Seq(Ids) /\ a \o d = ids
  BY <1>2, <1>4, Cut
<1>6. PICK r : r = d \o rest
  OBVIOUS
<1>7. r \in Seq(Ids) /\ Held(l) = a \o r
  <2>1. a \in Seq(Ids) /\ d \in Seq(Ids) /\ rest \in Seq(Ids)
    BY <1>5
  <2>2. (a \o d) \o rest = a \o (d \o rest)
    BY <2>1, ConcatAssociative
  <2>3. d \o rest \in Seq(Ids)
    BY <2>1, Joined
  <2> QED BY <1>3, <1>5, <1>6, <2>2, <2>3
<1>8. C = ToSet(a) /\ C \subseteq ToSet(ids)
  <2>0. a \in Seq(Ids) /\ d \in Seq(Ids)
    BY <1>5
  <2>1. ToSet(a \o d) = ToSet(a) \cup ToSet(d)
    BY <2>0, Joined
  <2> QED BY <1>4, <1>5, <2>1
<1>9. C \subseteq applied /\ \A i \in C : LaneOf[i] = l
  <2>1. \A x \in ToSet(ids) : \E j \in ToSet(committed[l]) : j.id = x
    BY <1>0, JobIdsElements DEF TypeOK
  <2>2. ToSet(ids) \subseteq ToSet(Live(l))
    BY <1>0, CommittedLive
  <2> QED BY <1>0, <1>8, <2>1, <2>2 DEF Promise, Executed, Table, Lined
<1>10. PICK A, B, s : A = Among(a, U) /\ B = Among(r, U) /\ s = Lane(P, l)
  OBVIOUS
<1>11. /\ A \in Seq(Ids) /\ ToSet(A) = ToSet(a) \cap U
       /\ B \in Seq(Ids) /\ ToSet(B) = ToSet(r) \cap U
  BY <1>5, <1>7, <1>10, AmongElements
<1>12. s = A \o B
  <2>1. s = Among(Held(l), U)
    BY <1>0, <1>1, <1>10 DEF Agreement
  <2>2. a \in Seq(Ids) /\ r \in Seq(Ids)
    BY <1>5, <1>7
  <2>3. Among(a \o r, U) = Among(a, U) \o Among(r, U)
    BY <2>2, AmongJoined
  <2> QED BY <1>7, <1>10, <2>1, <2>3
<1>13. ToSet(A) \cap ToSet(B) = {}
  <2>1. Distinct(s)
    BY <1>2, <1>10, AmongDistinct DEF Lane
  <2>2. A \in Seq(Ids) /\ B \in Seq(Ids) /\ Distinct(A \o B)
    BY <1>11, <1>12, <2>1
  <2> QED BY <2>2, DistinctParts
<1>14. Among(s, W) = B
  <2>1. Among(A, W) = <<>>
    <3>1. ToSet(A) \cap W = {}
      BY <1>1, <1>8, <1>11
    <3> QED BY <1>11, <3>1, AmongOthers
  <2>2. Among(B, W) = B
    <3>1. ToSet(B) \subseteq W
      BY <1>1, <1>8, <1>11, <1>13, Elements
    <3> QED BY <1>11, <3>1, AmongWhole
  <2>3. Among(A \o B, W) = Among(A, W) \o Among(B, W)
    <3>1. A \in Seq(Ids) /\ B \in Seq(Ids)
      BY <1>11
    <3> QED BY <3>1, AmongJoined
  <2>4. <<>> \o B = B
    BY <1>11, ConcatEmptySeq
  <2> QED BY <1>12, <2>1, <2>2, <2>3, <2>4
<1>15. ASSUME NEW m \in Lanes, m # l PROVE Among(Lane(P, m), W) = Lane(P, m)
  <2>1. PICK t : t = Lane(P, m)
    OBVIOUS
  <2>2. t \in Seq(Ids) /\ \A i \in ToSet(t) : LaneOf[i] = m
    BY <1>2, <2>1, LaneFacts
  <2>3. ToSet(t) \subseteq W
    BY <1>1, <1>9, <1>15, <2>2, Elements
  <2> QED BY <2>1, <2>2, <2>3, AmongWhole
<1>16. PICK k : k = Len(A)
  OBVIOUS
<1>17. k \in 0 .. Len(s) /\ SubSeq(s, 1, k) = A /\ SubSeq(s, k + 1, Len(s)) = B
  <2>1. A \in Seq(Ids) /\ B \in Seq(Ids) /\ Split(A, B, s)
    BY <1>11, <1>12 DEF Split
  <2> QED BY <1>16, <2>1, CutApart
<1>18. Owes[l] = s /\ Owes' = [Owes EXCEPT ![l] = B]
  <2>1. \A m \in Lanes : Lane(Among(P, W), m) = Among(Lane(P, m), W)
    BY <1>2, LaneAmong
  <2>2. \A m \in Lanes : Lane(Among(P, W), m) = IF m = l THEN B ELSE Lane(P, m)
    BY <1>10, <1>14, <1>15, <2>1
  <2>3. Stable'.pend = Among(P, W)
    BY <1>1
  <2> QED BY <1>1, <1>10, <2>2, <2>3 DEF Owes
<1>19. ToSet(SubSeq(s, 1, k)) \cup C = C
  BY <1>8, <1>11, <1>17
<1>20. Queue!Discharge(l, k, C)
  BY <1>9, <1>17, <1>18, <1>19, QueueWords DEF Queue!Discharge, Owes
<1>21. C \in SUBSET applied /\ k \in 0 .. Len(Owes[l])
  BY <1>9, <1>17, <1>18
<1> QED BY <1>20, <1>21 DEF Queue!Next, Owes

\* Steps that write nothing to the file and commit no SQL.
LEMMA QuietUnseen ==
    ASSUME UNCHANGED <<disk, jrnl, applied, retired>>
    PROVE  Unseen
BY DEF Unseen, Stable

LEMMA HandlerUnseen ==
    ASSUME NEW c \in Conns, Handler(c)
    PROVE  Unseen
<1>1. UNCHANGED <<disk, jrnl, applied, retired>>
  BY DEF Handler, Receive, BeginPublish, Acknowledge, GiveUp, diskVars, histVars
<1> QED BY <1>1, QuietUnseen

LEMMA PublisherUnseen ==
    ASSUME FilterOne \/ ReserveBatch \/ RefuseBatch \/ ReserveReplay \/ AcceptNothing
             \/ UndoOne \/ RefuseUnjournalled \/ PushOne \/ Published \/ Start
    PROVE  Unseen
<1>1. UNCHANGED <<disk, jrnl, applied, retired>>
  BY DEF FilterOne, ReserveBatch, RefuseBatch, ReserveReplay, AcceptNothing, UndoOne,
         RefuseUnjournalled, PushOne, Published, Start, diskVars, histVars
<1> QED BY <1>1, QuietUnseen

LEMMA WorkerUnseen ==
    ASSUME NEW l \in Lanes,
           Sleep(l) \/ TakeBatch(l) \/ (Execute(l) /\ ~WillRun(l)) \/ ExecuteFails(l)
             \/ RememberOne(l) \/ FinishOne(l) \/ RetireOne(l)
    PROVE  Unseen
<1>1. UNCHANGED <<disk, jrnl, applied, retired>>
  BY DEF Sleep, TakeBatch, Execute, ExecuteFails, RememberOne, FinishOne, RetireOne,
         diskVars, histVars
<1> QED BY <1>1, QuietUnseen

LEMMA RollBackUnseen ==
    ASSUME WritePendingFails \/ \E l \in Lanes : WriteDoneFails(l)
    PROVE  Unseen
<1>1. \E who : RollBack(who)
  BY DEF WritePendingFails, WriteDoneFails
<1>2. Stable' = Stable
  BY <1>1 DEF RollBack, Stable, Idle
<1>3. UNCHANGED <<applied, retired>>
  BY DEF WritePendingFails, WriteDoneFails, histVars
<1> QED BY <1>2, <1>3 DEF Unseen

LEMMA StartUnseen ==
    ASSUME Repair \/ Recover \/ UNCHANGED vars
    PROVE  Unseen
<1>1. UNCHANGED <<disk, jrnl, applied, retired>>
  BY DEF Repair, Recover, vars, diskVars, histVars
<1> QED BY <1>1, QuietUnseen

\* The SQL of an event commits, whether the worker learns of it or not.
LEMMA RunRefines ==
    ASSUME SinkInv, NEW l \in Lanes, (Execute(l) /\ WillRun(l)) \/ ExecuteUnknown(l)
    PROVE  Queue!Next \/ UNCHANGED Queue!dqVars
<1>1. PICK i : i = Head(batch[l]).id
  OBVIOUS
<1>2. stage[l] = "execute" /\ applied' = applied \cup {i}
  BY <1>1 DEF Execute, ExecuteUnknown, WillRun
<1>3. UNCHANGED <<disk, jrnl, retired>>
  BY DEF Execute, ExecuteUnknown, diskVars, histVars
<1>4. up /\ batch[l] # <<>>
  BY <1>2 DEF SinkInv, Shape, Working, Stopped
<1>5. Stable'.pend = Stable.pend
  BY <1>3 DEF Stable
<1> QED BY <1>1, <1>2, <1>3, <1>4, <1>5, QueueRuns

\* The last line of a batch hands it over to the queue.
LEMMA WritePendingRefines ==
    ASSUME SinkInv, SinkInv', WritePending
    PROVE  Queue!Next \/ UNCHANGED Queue!dqVars
<1>1. UNCHANGED <<applied, retired>> /\ pub.stage = "append" /\ pub.kept \in Seq(Ids)
  BY DEF WritePending, histVars, SinkInv, Shape, TypeOK, PubState
<1>2. /\ jrnl.n + 1 # Len(pub.kept) => Stable' = Stable
      /\ jrnl.n + 1 = Len(pub.kept) =>
           Stable'.pend = Stable.pend \o Among(pub.kept, Ids \ ToSet(Stable.done))
  BY WritePendingFile DEF SinkInv
<1>3. CASE jrnl.n + 1 # Len(pub.kept)
  BY <1>1, <1>2, <1>3, UnseenStutters DEF Unseen
<1>4. CASE jrnl.n + 1 = Len(pub.kept)
  <2>1. PICK S, K : S = Ids \ ToSet(Stable.done) /\ K = Among(pub.kept, S)
    OBVIOUS
  <2>2. K \in Seq(Ids) /\ ToSet(K) \subseteq ToSet(pub.kept)
    BY <1>1, <2>1, AmongElements
  <2>3. ToSet(K) \subseteq Owners
    BY <1>1, <2>2 DEF Owners, Unpublished
  <2>4. Stable'.pend = Stable.pend \o K
    BY <1>2, <1>4, <2>1
  <2> QED BY <1>1, <2>2, <2>3, <2>4, QueueAccepts
<1> QED BY <1>3, <1>4

\* The last completion line of a confirmation discharges the jobs executed.
LEMMA WriteDoneRefines ==
    ASSUME SinkInv, NEW l \in Lanes, WriteDone(l)
    PROVE  Queue!Next \/ UNCHANGED Queue!dqVars
<1>1. applied' = applied /\ stage[l] = "confirm"
  BY DEF WriteDone
<1>2. up
  BY <1>1 DEF SinkInv, Shape, Stopped
<1>3. PICK ids : ids = JobIds(committed[l])
  OBVIOUS
<1>4. /\ ids \in Seq(Ids)
      /\ jrnl.n + 1 # Len(ids) => Stable' = Stable /\ retired' = retired
      /\ jrnl.n + 1 = Len(ids) =>
           /\ Stable'.pend = Among(Stable.pend, Ids \ ToSet(ids))
           /\ retired' = retired \cup ToSet(ids)
  BY <1>3, WriteDoneFile DEF SinkInv
<1>5. CASE jrnl.n + 1 # Len(ids)
  BY <1>1, <1>4, <1>5, UnseenStutters DEF Unseen
<1>6. CASE jrnl.n + 1 = Len(ids)
  <2>1. PICK n : n = Len(ids)
    OBVIOUS
  <2>2. SubSeq(ids, 1, n) = ids /\ n \in Nat
    BY <1>4, <2>1, LenProperties, SubSeqFull
  <2>3. PICK C : C = ToSet(SubSeq(ids, 1, n))
    OBVIOUS
  <2>4. n \in 0 .. Len(ids)
    BY <2>1, <2>2
  <2>5. /\ Stable'.pend = Among(Stable.pend, Ids \ C)
        /\ retired' = retired \cup C
    BY <1>4, <1>6, <2>2, <2>3
  <2> QED BY <1>1, <1>2, <1>3, <2>3, <2>4, <2>5, QueueDischarges
<1> QED BY <1>5, <1>6

\* A crash discharges the jobs whose completion lines were already written, or
\* accepts the part of a batch that was, or changes nothing that is owed.
LEMMA CrashRefines ==
    ASSUME SinkInv, SinkInv', Crash
    PROVE  Queue!Next \/ UNCHANGED Queue!dqVars
<1>1. /\ Stable'.pend = disk.pend /\ applied' = applied
      /\ retired' = retired \cup Recorded
  <2>1. Stable' = disk
    BY CrashFile DEF SinkInv, Files
  <2> QED BY <2>1 DEF Crash
<1>2. Shape /\ Files /\ Written /\ pub.kept \in Seq(Ids)
  BY DEF SinkInv, Files, Shape, TypeOK, PubState
<1>3. CASE jrnl.holder = "none"
  <2>1. Stable = disk /\ Recorded = {}
    BY <1>3, SqlSinkAssumption DEF Stable, Recorded
  <2> QED BY <1>1, <2>1, UnseenStutters DEF Unseen
<1>4. CASE jrnl.holder \in Lanes
  <2>0. PICK l \in Lanes : l = jrnl.holder
    BY <1>4
  <2>1. PICK ids, n, C :
          /\ ids = JobIds(committed[l]) /\ n = jrnl.n
          /\ C = ToSet(SubSeq(ids, 1, n))
    OBVIOUS
  <2>2. n \in 0 .. Len(ids) /\ Recorded = C /\ disk.pend = Among(Stable.pend, Ids \ C)
    BY <1>2, <2>0, <2>1, RecordedSoFar
  <2>3. up
    BY <1>2, <1>4, SqlSinkAssumption DEF Shape, Stopped
  <2> QED BY <1>1, <2>0, <2>1, <2>2, <2>3, QueueDischarges
<1>5. CASE jrnl.holder = "pub"
  <2>1. PICK n, a, S, K :
          /\ n = jrnl.n /\ a = SubSeq(pub.kept, 1, n)
          /\ S = Ids \ ToSet(Stable.done) /\ K = Among(a, S)
    OBVIOUS
  <2>2. pub.stage = "append" /\ n \in 0 .. Len(pub.kept) /\ disk.pend = Stable.pend \o K
    BY <1>2, <1>5, <2>1, WrittenSoFar DEF Shape, Journalling
  <2>3. a \in Seq(Ids) /\ ToSet(a) \subseteq ToSet(pub.kept)
    <3>1. a \in Seq(Ids) /\ Len(pub.kept) \in Nat
      BY <1>2, <2>1, <2>2, Cut, LenProperties
    <3>2. ToSet(a) = {pub.kept[k] : k \in 1 .. n}
      BY <1>2, <2>1, <2>2, FirstOnes
    <3>3. \A k \in 1 .. n : k \in 1 .. Len(pub.kept)
      BY <2>2, <3>1
    <3> QED BY <1>2, <3>1, <3>2, <3>3, Elements
  <2>4. K \in Seq(Ids) /\ ToSet(K) \subseteq ToSet(a)
    <3>1. a \in Seq(Ids)
      BY <2>3
    <3>2. Among(a, S) \in Seq(Ids) /\ ToSet(Among(a, S)) = ToSet(a) \cap S
      BY <3>1, AmongElements
    <3> QED BY <2>1, <3>2
  <2>5. ToSet(K) \subseteq Owners
    BY <2>2, <2>3, <2>4 DEF Owners, Unpublished
  <2>6. Stable'.pend = Stable.pend \o K /\ retired' = retired
    BY <1>1, <1>5, <2>2, SqlSinkAssumption DEF Recorded
  <2> QED BY <1>1, <2>4, <2>5, <2>6, QueueAccepts
<1> QED BY <1>2, <1>3, <1>4, <1>5 DEF Shape, TypeOK, AppendState

\* Every step of the sink is a step of the queue, or none.
LEMMA StepRefines ==
    SinkInv /\ SinkInv' /\ [Next]_vars => [Queue!Next]_(Queue!dqVars)
<1> SUFFICES ASSUME SinkInv, SinkInv', [Next]_vars
             PROVE  Queue!Next \/ UNCHANGED Queue!dqVars
  OBVIOUS
<1>1. Unseen => UNCHANGED Queue!dqVars
  BY UnseenStutters
<1>2. ASSUME NEW c \in Conns, Handler(c) PROVE UNCHANGED Queue!dqVars
  BY <1>1, <1>2, HandlerUnseen
<1>3. ASSUME Publisher PROVE Queue!Next \/ UNCHANGED Queue!dqVars
  BY <1>1, <1>3, PublisherUnseen, RollBackUnseen, WritePendingRefines DEF Publisher
<1>4. ASSUME NEW l \in Lanes, Worker(l) PROVE Queue!Next \/ UNCHANGED Queue!dqVars
  BY <1>1, <1>4, WorkerUnseen, RollBackUnseen, RunRefines, WriteDoneRefines DEF Worker
<1>5. ASSUME Repair \/ Recover \/ UNCHANGED vars PROVE UNCHANGED Queue!dqVars
  BY <1>1, <1>5, StartUnseen
<1> QED BY <1>2, <1>3, <1>4, <1>5, CrashRefines DEF Next

\* The sink implements the durable queue, for every set of events, lanes,
\* handlers and limits: whatever handlers, publisher, workers, failed appends,
\* lost replies and crashes do, what the journal owes grows only by batches
\* taken over, each lane in the batch's order; an event's SQL commits only after
\* that of the events before it in its lane; and an event leaves only when its
\* SQL has committed.
THEOREM SinkIsDurableQueue == Spec => ImplementsDurableQueue
<1>1. Init => Queue!Init
  BY QueueInit
<1>2. SinkInv /\ SinkInv' /\ [Next]_vars => [Queue!Next]_(Queue!dqVars)
  BY StepRefines
<1> QED BY <1>1, <1>2, SinkInductive, PTL DEF Spec, ImplementsDurableQueue, Queue!Spec
=============================================================================

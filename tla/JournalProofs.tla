---------------------------- MODULE JournalProofs ----------------------------
(* Theorems about Journal, for every set of ids and files, every capacity and *)
(* window, and any number of crashes and power losses: what was acknowledged  *)
(* is read back, and compaction does not change what is read.                 *)
EXTENDS Journal, SelectionProofs

-----------------------------------------------------------------------------
(* Reading.                                                                   *)

\* The states after each of the first k lines.
Upto(f, k, s, lines) ==
    /\ f = [n \in 0 .. k |-> f[n]]
    /\ f[0] = s
    /\ \A n \in 1 .. k : f[n] = ReadLine(f[n - 1], lines[n])

Steps(f, s, lines) == Upto(f, Len(lines), s, lines)

LEMMA NextStep ==
    ASSUME NEW s, NEW lines, NEW k \in Nat, NEW f, Upto(f, k, s, lines)
    PROVE  \E g : Upto(g, k + 1, s, lines)
<1> DEFINE next == ReadLine(f[k], lines[k + 1])
           g == [n \in 0 .. k + 1 |-> IF n = k + 1 THEN next ELSE f[n]]
<1>1. \A n \in 0 .. k : n \in 0 .. k + 1 /\ n # k + 1
  OBVIOUS
<1>2. k + 1 \in 0 .. k + 1 /\ 0 \in 0 .. k /\ k \in 0 .. k
  OBVIOUS
<1>3. /\ \A n \in 0 .. k : g[n] = f[n]
      /\ g[k + 1] = next
      /\ g = [n \in 0 .. k + 1 |-> g[n]]
  BY <1>1, <1>2
<1> HIDE DEF g
<1>4. ASSUME NEW n \in 1 .. k + 1
      PROVE  g[n] = ReadLine(g[n - 1], lines[n])
  <2>1. CASE n = k + 1
    <3>0. n - 1 = k
      BY <2>1
    <3>1. g[n - 1] = f[k]
      BY <1>2, <1>3, <3>0
    <3> QED BY <1>3, <2>1, <3>1
  <2>2. CASE n # k + 1
    <3>1. n \in 1 .. k /\ n \in 0 .. k /\ n - 1 \in 0 .. k
      BY <2>2
    <3>2. g[n] = f[n] /\ g[n - 1] = f[n - 1]
      BY <1>3, <3>1
    <3>3. f[n] = ReadLine(f[n - 1], lines[n])
      BY <3>1 DEF Upto
    <3> QED BY <3>2, <3>3
  <2> QED BY <2>1, <2>2
<1>5. g[0] = s
  BY <1>2, <1>3 DEF Upto
<1>6. Upto(g, k + 1, s, lines)
  BY <1>3, <1>4, <1>5 DEF Upto
<1> QED BY <1>6

LEMMA StepsExist ==
    ASSUME NEW s, NEW lines, Len(lines) \in Nat
    PROVE  \E f : Steps(f, s, lines)
<1> DEFINE T == {k \in Nat : \E f : Upto(f, k, s, lines)}
<1>1. 0 \in T
  <2>1. Upto([n \in 0 .. 0 |-> s], 0, s, lines)
    BY DEF Upto
  <2> QED BY <2>1
<1>2. \A k \in T : k + 1 \in T
  BY NextStep
<1>3. T = Nat
  <2> HIDE DEF T
  <2>1. T \in SUBSET Nat
    BY DEF T
  <2> QED BY <1>1, <1>2, <2>1, AllNumbers
<1> QED BY <1>3 DEF Steps

LEMMA ReadOnSteps ==
    ASSUME NEW s, NEW lines, Len(lines) \in Nat
    PROVE  \E f : Steps(f, s, lines) /\ ReadOn(s, lines) = f[Len(lines)]
<1> DEFINE m == Len(lines)
           Body(f) == [n \in 0 .. m |-> IF n = 0 THEN s ELSE ReadLine(f[n - 1], lines[n])]
           after == CHOOSE f : f = Body(f)
<1>1. PICK f : Steps(f, s, lines)
  BY StepsExist
<1>2. f = Body(f)
  BY <1>1 DEF Steps, Upto
<1>3. after = Body(after)
  BY <1>2
<1>4. ReadOn(s, lines) = after[m]
  BY DEF ReadOn
<1> HIDE DEF after
<1>5. Steps(after, s, lines)
  BY <1>3 DEF Steps, Upto
<1> QED BY <1>4, <1>5

\* Two runs over the same lines go through the same states.
LEMMA StepsAgree ==
    ASSUME NEW s, NEW a, NEW b, NEW k \in Nat, NEW m \in Nat, NEW f, NEW g, k <= m,
           Upto(f, k, s, a), Upto(g, m, s, b), \A n \in 1 .. k : a[n] = b[n]
    PROVE  f[k] = g[k]
<1> DEFINE T == {n \in Nat : n <= k => f[n] = g[n]}
<1>1. 0 \in T
  BY DEF Upto
<1>2. ASSUME NEW n \in T
      PROVE  n + 1 \in T
  <2> SUFFICES ASSUME n + 1 <= k PROVE f[n + 1] = g[n + 1]
    OBVIOUS
  <2>1. n + 1 \in 1 .. k /\ n + 1 \in 1 .. m /\ (n + 1) - 1 = n /\ f[n] = g[n]
    OBVIOUS
  <2>2. f[n + 1] = ReadLine(f[(n + 1) - 1], a[n + 1])
    BY <2>1 DEF Upto
  <2>3. g[n + 1] = ReadLine(g[(n + 1) - 1], b[n + 1])
    BY <2>1 DEF Upto
  <2> QED BY <2>1, <2>2, <2>3
<1>3. T = Nat
  <2> HIDE DEF T
  <2>1. T \in SUBSET Nat
    BY DEF T
  <2> QED BY <1>1, <1>2, <2>1, AllNumbers
<1> QED BY <1>3

LEMMA ReadNone ==
    ASSUME NEW s
    PROVE  ReadOn(s, <<>>) = s
<1>1. Len(<<>>) = 0
  BY EmptySeq
<1> QED BY <1>1, ReadOnSteps DEF Steps, Upto

LEMMA ReadOneMore ==
    ASSUME NEW X, NEW s, NEW lines \in Seq(X), NEW x \in X
    PROVE  ReadOn(s, Append(lines, x)) = ReadLine(ReadOn(s, lines), x)
<1> DEFINE more == Append(lines, x)
           k == Len(lines)
<1>1. /\ Len(more) = k + 1 /\ k \in Nat /\ more[k + 1] = x
      /\ \A n \in 1 .. k : lines[n] = more[n]
  BY AppendProperties, LenProperties
<1> HIDE DEF more
<1>2. PICK f : Steps(f, s, lines) /\ ReadOn(s, lines) = f[k]
  BY <1>1, ReadOnSteps
<1>3. PICK g : Steps(g, s, more) /\ ReadOn(s, more) = g[k + 1]
  BY <1>1, ReadOnSteps
<1> HIDE DEF k
<1>4. Upto(f, k, s, lines) /\ Upto(g, k + 1, s, more) /\ k + 1 \in Nat /\ k <= k + 1
  <2>1. Upto(f, k, s, lines)
    BY <1>2 DEF Steps, k
  <2>2. Upto(g, Len(more), s, more)
    BY <1>3 DEF Steps
  <2> QED BY <1>1, <2>1, <2>2
<1>5. f[k] = g[k]
  BY <1>1, <1>4, StepsAgree
<1>6. g[k + 1] = ReadLine(g[(k + 1) - 1], more[k + 1]) /\ (k + 1) - 1 = k
  <2>1. k + 1 \in 1 .. k + 1 /\ (k + 1) - 1 = k
    BY <1>1
  <2>2. \A n \in 1 .. k + 1 : g[n] = ReadLine(g[n - 1], more[n])
    BY <1>4 DEF Upto
  <2> QED BY <2>1, <2>2
<1> QED BY <1>1, <1>2, <1>3, <1>5, <1>6 DEF more

LEMMA ReadJoined ==
    ASSUME NEW X, NEW s, NEW a \in Seq(X), NEW b \in Seq(X)
    PROVE  ReadOn(s, a \o b) = ReadOn(ReadOn(s, a), b)
<1> DEFINE T == {c \in Seq(X) : ReadOn(s, a \o c) = ReadOn(ReadOn(s, a), c)}
<1>1. <<>> \in T
  BY ReadNone, ConcatEmptySeq, EmptySeq
<1>2. ASSUME NEW c \in T, NEW e \in X
      PROVE  Append(c, e) \in T
  <2> DEFINE ac == a \o c
  <2>0. c \in Seq(X) /\ ac \in Seq(X) /\ ReadOn(s, ac) = ReadOn(ReadOn(s, a), c)
    BY ConcatProperties
  <2>1. a \o Append(c, e) = ac \o <<e>> /\ Append(c, e) \in Seq(X)
    BY <2>0, JoinedAppended, AppendProperties
  <2> HIDE DEF ac
  <2>2. Append(ac, e) = ac \o <<e>>
    BY <2>0, AppendIsConcat
  <2>3. ReadOn(s, Append(ac, e)) = ReadLine(ReadOn(s, ac), e)
    BY <2>0, ReadOneMore
  <2>4. ReadOn(ReadOn(s, a), Append(c, e)) = ReadLine(ReadOn(ReadOn(s, a), c), e)
    BY <2>0, ReadOneMore
  <2> QED BY <2>0, <2>1, <2>2, <2>3, <2>4
<1>3. T = Seq(X)
  <2> HIDE DEF T
  <2>1. T \in SUBSET Seq(X)
    BY DEF T
  <2> QED BY <1>1, <1>2, <2>1, AllSequences
<1> QED BY <1>3

-----------------------------------------------------------------------------
(* The invariant.                                                            *)

PendingLine == {Pending(i) : i \in Ids}
DoneLine == {Done(i) : i \in Ids}
Line == PendingLine \cup DoneLine \cup {Torn}

State == [pend : Seq(Ids), done : Seq(Ids), ok : BOOLEAN]

\* What a journal that can be read adds up to.
Sound(s) ==
    /\ s \in State /\ s.ok
    /\ Distinct(s.pend) /\ Distinct(s.done)
    /\ ToSet(s.pend) \cap ToSet(s.done) = {}
    /\ Len(s.pend) <= MaxRows /\ Len(s.done) <= DedupeEvents

Calls == [call : {"none", "append", "rewrite", "rename", "syncdir"},
          todo : Seq(Line), all : Seq(Line), before : Nat, temp : Inodes \cup {NoInode}]

Typed ==
    /\ content \in [Inodes -> Seq(Line)]
    /\ synced \in [Inodes -> Nat]
    /\ path \in Inodes /\ durable \in Inodes
    /\ handle \in Inodes \cup {NoInode}
    /\ op \in Calls
    /\ owned \in SUBSET Ids /\ IsFiniteSet(owned)
    /\ handle = NoInode => op = NoCall

\* The file holds what was acknowledged, no more, and all of it is safe.
Whole(f) == ReadState(content[f]) = promised /\ synced[f] = Len(content[f])

IdsOf(lines) == {line.id : line \in ToSet(lines)}

\* What the callers append: events there is room for, or completions.
Appendable(lines) ==
    \/ /\ lines \in Seq(PendingLine)
       /\ Len(promised.pend) + Len(lines) <= MaxRows
       /\ IdsOf(lines) \subseteq owned \ ToSet(promised.pend)
    \/ lines \in Seq(DoneLine)

\* The append found base in the journal and has written w so far.
Growing(base, w) ==
    /\ content[path] = base \o w
    /\ op.all = w \o op.todo
    /\ Len(base) = op.before /\ Len(base) = synced[path]
    /\ ReadState(base) = promised

\* The journal while the process is up.
JournalHolds ==
    IF op.call = "append"
    THEN Appendable(op.all) /\ \E base, w \in Seq(Line) : Growing(base, w)
    ELSE Whole(path)

\* The replacement is another file, and what it misses is still to be written.
ReplacementHolds ==
    op.call \in {"rewrite", "rename"} =>
       /\ op.temp \in Inodes \ {path, durable}
       /\ content[op.temp] \o op.todo = Rewritten(promised)
       /\ op.call = "rename" => /\ op.todo = <<>>
                                /\ synced[op.temp] = Len(content[op.temp])

\* What a power loss may bring back instead of the journal.
FormerHolds ==
    ~detached => IF op.call = "syncdir" THEN Whole(durable) ELSE durable = path

Up ==
    /\ handle = path
    /\ Sound(promised)
    /\ ToSet(promised.pend) \subseteq owned
    /\ JournalHolds /\ ReplacementHolds /\ FormerHolds

JournalInv == Typed /\ (handle # NoInode => Up)

-----------------------------------------------------------------------------
(* One line.                                                                 *)

\* What is left of a sequence without one of its elements.
LEMMA WithoutOne ==
    ASSUME NEW p \in Seq(Ids), Distinct(p), NEW i \in Ids
    PROVE  /\ Without(p, i) = Among(p, Ids \ {i})
           /\ Without(p, i) \in Seq(Ids) /\ Distinct(Without(p, i))
           /\ ToSet(Without(p, i)) = ToSet(p) \ {i}
           /\ Len(Without(p, i)) <= Len(p)
<1> DEFINE S == Ids \ {i}
<1>0. Len(p) \in Nat /\ DOMAIN p = 1 .. Len(p) /\ ToSet(p) \subseteq Ids
  BY LenProperties, Elements
<1>1. Without(p, i) = Among(p, S) /\ Len(Without(p, i)) <= Len(p)
  <2>1. CASE i \notin ToSet(p)
    <3>1. Without(p, i) = p /\ ToSet(p) \subseteq S
      BY <1>0, <2>1 DEF Without
    <3> HIDE DEF S
    <3>2. Among(p, S) = p
      BY <3>1, AmongWhole
    <3> QED BY <1>0, <3>1, <3>2
  <2>2. CASE i \in ToSet(p)
    <3> DEFINE k == CHOOSE n \in DOMAIN p : p[n] = i
    <3>1. \E n \in 1 .. Len(p) : p[n] = i
      BY <2>2, Elements
    <3>2. k \in 1 .. Len(p) /\ p[k] = i
      BY <1>0, <3>1
    <3>3. Without(p, i) = RemoveAt(p, k)
      BY <2>2 DEF Without
    <3> HIDE DEF k
    <3> QED BY <3>2, <3>3, ElementRemoved
  <2> QED BY <2>1, <2>2
<1>2. Among(p, S) \in Seq(Ids) /\ ToSet(Among(p, S)) = ToSet(p) \cap S /\ Distinct(Among(p, S))
  BY AmongElements, AmongDistinct
<1> QED BY <1>0, <1>1, <1>2

\* The window keeps no id twice and does not grow beyond its capacity.
LEMMA Remembered ==
    ASSUME NEW w \in Seq(Ids), Distinct(w), Len(w) <= DedupeEvents, NEW i \in Ids
    PROVE  /\ RememberId(w, i) \in Seq(Ids) /\ Distinct(RememberId(w, i))
           /\ ToSet(RememberId(w, i)) \subseteq ToSet(w) \cup {i}
           /\ Len(RememberId(w, i)) <= DedupeEvents
<1> DEFINE longer == Append(w, i)
<1>0. Len(w) \in Nat /\ DedupeEvents \in Nat
  BY LenProperties, JournalStateAssumption
<1>1. CASE DedupeEvents = 0 \/ i \in ToSet(w)
  <2>1. RememberId(w, i) = w
    BY <1>1 DEF RememberId
  <2> QED BY <2>1
<1>2. CASE ~(DedupeEvents = 0 \/ i \in ToSet(w))
  <2>1. /\ longer \in Seq(Ids) /\ Len(longer) = Len(w) + 1 /\ longer # <<>>
        /\ ToSet(longer) = ToSet(w) \cup {i}
    BY AppendProperties, Appended
  <2>2. Distinct(longer)
    BY <1>2, AppendedDistinct
  <2>3. RememberId(w, i) = IF Len(longer) > DedupeEvents THEN Tail(longer) ELSE longer
    BY <1>2 DEF RememberId
  <2> HIDE DEF longer
  <2> DEFINE r == Tail(longer)
  <2>4. /\ r \in Seq(Ids) /\ Len(r) = Len(longer) - 1
        /\ \A n \in 1 .. Len(r) : r[n] = longer[n + 1]
    BY <2>1, HeadTailProperties
  <2>5. ToSet(r) \subseteq ToSet(longer)
    BY <2>1, HeadAndTail
  <2>6. Distinct(r)
    BY <2>1, <2>2, RestDistinct
  <2> HIDE DEF r
  <2>7. CASE Len(longer) > DedupeEvents
    <3>1. RememberId(w, i) = r
      BY <2>3, <2>7 DEF r
    <3>2. Len(r) <= DedupeEvents
      BY <1>0, <2>1, <2>4
    <3> QED BY <2>1, <2>4, <2>5, <2>6, <3>1, <3>2
  <2>8. CASE ~(Len(longer) > DedupeEvents)
    <3>1. RememberId(w, i) = longer
      BY <2>3, <2>8
    <3>2. Len(longer) <= DedupeEvents
      BY <1>0, <2>1, <2>8
    <3> QED BY <2>1, <2>2, <3>1, <3>2
  <2> QED BY <2>7, <2>8
<1> QED BY <1>1, <1>2

LEMMA SoundDone ==
    ASSUME NEW s, Sound(s), NEW i \in Ids
    PROVE  /\ Sound(PutDone(s, i))
           /\ ToSet(PutDone(s, i).pend) = ToSet(s.pend) \ {i}
<1> DEFINE p == Without(s.pend, i)
           w == RememberId(s.done, i)
<1>0. /\ s \in State /\ s.ok /\ s.pend \in Seq(Ids) /\ s.done \in Seq(Ids)
      /\ Distinct(s.pend) /\ Distinct(s.done)
      /\ ToSet(s.pend) \cap ToSet(s.done) = {}
      /\ Len(s.pend) <= MaxRows /\ Len(s.done) <= DedupeEvents
  BY DEF Sound, State
<1>1. /\ p \in Seq(Ids) /\ Distinct(p)
      /\ ToSet(p) = ToSet(s.pend) \ {i}
      /\ Len(p) <= Len(s.pend)
  BY <1>0, WithoutOne
<1>2. /\ w \in Seq(Ids) /\ Distinct(w)
      /\ ToSet(w) \subseteq ToSet(s.done) \cup {i}
      /\ Len(w) <= DedupeEvents
  BY <1>0, Remembered
<1> HIDE DEF p, w
<1>3. PutDone(s, i) = [s EXCEPT !.pend = p, !.done = w]
  BY DEF PutDone, p, w
<1> DEFINE d == PutDone(s, i)
<1>4. d \in State /\ d.pend = p /\ d.done = w /\ d.ok
  BY <1>0, <1>1, <1>2, <1>3 DEF State
<1> HIDE DEF d
<1>5. Len(p) <= MaxRows
  BY <1>0, <1>1, LenProperties, JournalAssumption
<1>6. ToSet(p) \cap ToSet(w) = {}
  BY <1>0, <1>1, <1>2
<1>7. Sound(d)
  BY <1>1, <1>2, <1>4, <1>5, <1>6 DEF Sound
<1> QED BY <1>1, <1>4, <1>7 DEF d

LEMMA SoundPending ==
    ASSUME NEW s, Sound(s), NEW i \in Ids,
           i \in ToSet(s.done) \cup ToSet(s.pend) \/ Len(s.pend) < MaxRows
    PROVE  /\ Sound(PutPending(s, i))
           /\ ToSet(PutPending(s, i).pend) \subseteq ToSet(s.pend) \cup {i}
           /\ Len(PutPending(s, i).pend) <= Len(s.pend) + 1
<1>0. /\ s \in State /\ s.ok /\ s.pend \in Seq(Ids) /\ s.done \in Seq(Ids)
      /\ Distinct(s.pend) /\ Distinct(s.done)
      /\ ToSet(s.pend) \cap ToSet(s.done) = {}
      /\ Len(s.pend) <= MaxRows /\ Len(s.done) <= DedupeEvents
      /\ Len(s.pend) \in Nat /\ MaxRows \in Nat
  BY LenProperties, JournalAssumption DEF Sound, State
<1>1. CASE i \in ToSet(s.done) \cup ToSet(s.pend)
  <2>1. PutPending(s, i) = s
    BY <1>1 DEF PutPending
  <2> QED BY <1>0, <2>1
<1>2. CASE i \notin ToSet(s.done) \cup ToSet(s.pend)
  <2> DEFINE p == Append(s.pend, i)
             d == PutPending(s, i)
  <2>1. /\ p \in Seq(Ids) /\ Len(p) = Len(s.pend) + 1
        /\ ToSet(p) = ToSet(s.pend) \cup {i}
    BY <1>0, AppendProperties, Appended
  <2>2. Distinct(p)
    BY <1>0, <1>2, AppendedDistinct
  <2> HIDE DEF p
  <2>3. d = [s EXCEPT !.pend = p]
    BY <1>2 DEF PutPending, p
  <2>4. d \in State /\ d.pend = p /\ d.done = s.done /\ d.ok
    BY <1>0, <2>1, <2>3 DEF State
  <2> HIDE DEF d
  <2>5. Len(p) <= MaxRows
    BY <1>0, <1>2, <2>1
  <2>6. ToSet(p) \cap ToSet(s.done) = {}
    BY <1>0, <1>2, <2>1
  <2>7. Sound(d)
    BY <1>0, <2>1, <2>2, <2>4, <2>5, <2>6 DEF Sound
  <2> QED BY <1>0, <2>1, <2>4, <2>7 DEF d
<1> QED BY <1>1, <1>2

LEMMA Kinds ==
    /\ \A i : /\ Pending(i) # Torn /\ Pending(i).kind = "pending" /\ Pending(i).id = i
              /\ Done(i) # Torn /\ Done(i).kind = "done" /\ Done(i).id = i
    /\ PendingLine \subseteq Line /\ DoneLine \subseteq Line /\ Torn \in Line
    /\ \A line \in Line : \/ line = Torn
                          \/ \E i \in Ids : line = Pending(i)
                          \/ \E i \in Ids : line = Done(i)
<1>1. \A i : Pending(i) # Torn /\ Pending(i).kind = "pending" /\ Pending(i).id = i
  BY DEF Pending, Torn
<1>2. \A i : Done(i) # Torn /\ Done(i).kind = "done" /\ Done(i).id = i
  BY DEF Done, Torn
<1>3. PendingLine \subseteq Line /\ DoneLine \subseteq Line /\ Torn \in Line
  BY DEF Line
<1>4. \A line \in Line : \/ line = Torn
                         \/ \E i \in Ids : line = Pending(i)
                         \/ \E i \in Ids : line = Done(i)
  BY DEF Line, PendingLine, DoneLine
<1> QED BY <1>1, <1>2, <1>3, <1>4

LEMMA ReadDone ==
    ASSUME NEW s, s.ok, NEW i \in Ids
    PROVE  ReadLine(s, Done(i)) = PutDone(s, i)
BY Kinds DEF ReadLine

LEMMA ReadPending ==
    ASSUME NEW s, s.ok, NEW i \in Ids
    PROVE  ReadLine(s, Pending(i)) =
             IF i \notin ToSet(s.done) \cup ToSet(s.pend) /\ Len(s.pend) >= MaxRows
             THEN [s EXCEPT !.ok = FALSE] ELSE PutPending(s, i)
<1>1. Pending(i) # Torn /\ Pending(i).kind # "done" /\ Pending(i).id = i
  BY Kinds
<1> QED BY <1>1 DEF ReadLine

-----------------------------------------------------------------------------
(* Many lines.                                                               *)

LEMMA EmptySound == Sound(Empty)
<1>1. <<>> \in Seq(Ids) /\ Len(<<>>) = 0 /\ ToSet(<<>>) = {}
  BY EmptySeq, ElementsOfFew
<1>2. Distinct(<<>>)
  <2>1. Len(<<>>) = 0
    BY EmptySeq
  <2> QED BY <2>1 DEF Distinct
<1>3. Empty \in State /\ Empty.ok /\ Empty.pend = <<>> /\ Empty.done = <<>>
  BY <1>1 DEF Empty, State
<1>4. 0 <= MaxRows /\ 0 <= DedupeEvents
  BY JournalAssumption, JournalStateAssumption
<1> QED BY <1>1, <1>2, <1>3, <1>4 DEF Sound

\* What is read is sound or refused.
LEMMA LineReads ==
    ASSUME NEW s, s \in State, s.ok => Sound(s), NEW line \in Line
    PROVE  ReadLine(s, line) \in State /\ (ReadLine(s, line).ok => Sound(ReadLine(s, line)))
<1> DEFINE r == ReadLine(s, line)
           no == [s EXCEPT !.ok = FALSE]
<1>0. no \in State /\ ~no.ok
  BY DEF State
<1> HIDE DEF no
<1>1. CASE ~s.ok \/ line = Torn
  <2>1. r = no
    BY <1>1 DEF ReadLine, no
  <2> QED BY <1>0, <2>1
<1>2. CASE s.ok /\ \E i \in Ids : line = Done(i)
  <2>1. PICK i \in Ids : line = Done(i)
    BY <1>2
  <2>2. r = PutDone(s, i)
    BY <1>2, <2>1, ReadDone
  <2>3. Sound(r)
    BY <1>2, <2>2, SoundDone
  <2> HIDE DEF r
  <2>4. r \in State
    BY <2>3 DEF Sound
  <2> QED BY <2>3, <2>4 DEF r
<1>3. CASE s.ok /\ \E i \in Ids : line = Pending(i)
  <2>1. PICK i \in Ids : line = Pending(i)
    BY <1>3
  <2>2. r = IF i \notin ToSet(s.done) \cup ToSet(s.pend) /\ Len(s.pend) >= MaxRows
            THEN no ELSE PutPending(s, i)
    BY <1>3, <2>1, ReadPending DEF no
  <2> HIDE DEF r
  <2>3. CASE i \notin ToSet(s.done) \cup ToSet(s.pend) /\ Len(s.pend) >= MaxRows
    BY <1>0, <2>2, <2>3 DEF r
  <2>4. CASE ~(i \notin ToSet(s.done) \cup ToSet(s.pend) /\ Len(s.pend) >= MaxRows)
    <3>1. Len(s.pend) \in Nat /\ MaxRows \in Nat
      BY LenProperties, JournalAssumption DEF State
    <3>2. i \in ToSet(s.done) \cup ToSet(s.pend) \/ Len(s.pend) < MaxRows
      BY <2>4, <3>1
    <3>3. Sound(PutPending(s, i))
      BY <1>3, <3>2, SoundPending
    <3>4. r = PutPending(s, i)
      BY <2>2, <2>4
    <3>5. r \in State
      BY <3>3, <3>4 DEF Sound
    <3> QED BY <3>3, <3>4, <3>5 DEF r
  <2> QED BY <2>3, <2>4
<1> QED BY <1>1, <1>2, <1>3, Kinds

LEMMA LinesRead ==
    ASSUME NEW s, Sound(s), NEW lines \in Seq(Line)
    PROVE  ReadOn(s, lines).ok => Sound(ReadOn(s, lines))
<1> DEFINE Good(r) == r \in State /\ (r.ok => Sound(r))
           T == {c \in Seq(Line) : Good(ReadOn(s, c))}
<1>1. <<>> \in T
  <2>1. ReadOn(s, <<>>) = s /\ <<>> \in Seq(Line)
    BY ReadNone, EmptySeq
  <2>2. Good(s)
    BY DEF Sound
  <2> HIDE DEF Good
  <2> QED BY <2>1, <2>2
<1>2. ASSUME NEW c \in T, NEW e \in Line
      PROVE  Append(c, e) \in T
  <2> DEFINE r == ReadOn(s, c)
  <2>1. c \in Seq(Line) /\ Good(r) /\ Append(c, e) \in Seq(Line)
    BY AppendProperties
  <2>2. ReadOn(s, Append(c, e)) = ReadLine(r, e)
    BY <2>1, ReadOneMore
  <2> HIDE DEF r
  <2>3. Good(ReadLine(r, e))
    BY <2>1, LineReads
  <2> HIDE DEF Good
  <2> QED BY <2>1, <2>2, <2>3
<1>3. T = Seq(Line)
  <2> HIDE DEF T
  <2>1. T \in SUBSET Seq(Line)
    BY DEF T
  <2> QED BY <1>1, <1>2, <2>1, AllSequences
<1> QED BY <1>3

LEMMA IdsOfAppended ==
    ASSUME NEW X, NEW c \in Seq(X), NEW x \in X
    PROVE  IdsOf(Append(c, x)) = IdsOf(c) \cup {x.id}
<1>1. ToSet(Append(c, x)) = ToSet(c) \cup {x}
  BY Appended
<1> QED BY <1>1 DEF IdsOf

LEMMA IdsOfNone == IdsOf(<<>>) = {}
BY ElementsOfFew DEF IdsOf

\* Events there is room for are read without complaint.
LEMMA PendingRead ==
    ASSUME NEW s, Sound(s), NEW lines \in Seq(PendingLine),
           Len(s.pend) + Len(lines) <= MaxRows
    PROVE  /\ Sound(ReadOn(s, lines))
           /\ ToSet(ReadOn(s, lines).pend) \subseteq ToSet(s.pend) \cup IdsOf(lines)
<1> DEFINE Good(r, c) == /\ Sound(r)
                         /\ ToSet(r.pend) \subseteq ToSet(s.pend) \cup IdsOf(c)
                         /\ Len(r.pend) <= Len(s.pend) + Len(c)
           T == {c \in Seq(PendingLine) :
                   Len(s.pend) + Len(c) <= MaxRows => Good(ReadOn(s, c), c)}
<1>0. Len(s.pend) \in Nat /\ MaxRows \in Nat
  BY LenProperties, JournalAssumption DEF Sound, State
<1>1. <<>> \in T
  <2>1. ReadOn(s, <<>>) = s /\ <<>> \in Seq(PendingLine) /\ Len(<<>>) = 0
    BY ReadNone, EmptySeq
  <2>2. Good(s, <<>>)
    BY <1>0, <2>1
  <2> HIDE DEF Good
  <2> QED BY <2>1, <2>2
<1>2. ASSUME NEW c \in T, NEW e \in PendingLine
      PROVE  Append(c, e) \in T
  <2> DEFINE r == ReadOn(s, c)
             u == Append(c, e)
  <2>1. /\ c \in Seq(PendingLine) /\ u \in Seq(PendingLine) /\ Len(u) = Len(c) + 1
        /\ Len(c) \in Nat
    BY AppendProperties, LenProperties
  <2>2. ReadOn(s, u) = ReadLine(r, e)
    BY <2>1, ReadOneMore
  <2>3. IdsOf(u) = IdsOf(c) \cup {e.id}
    BY <2>1, IdsOfAppended
  <2>4. PICK i \in Ids : e = Pending(i)
    BY DEF PendingLine
  <2>5. e.id = i
    BY <2>4, Kinds
  <2>6. Len(s.pend) + Len(c) <= MaxRows => Good(r, c)
    OBVIOUS
  <2> HIDE DEF r, u
  <2>7. ASSUME Len(s.pend) + Len(u) <= MaxRows
        PROVE  Good(ReadLine(r, e), u)
    <3>1. Len(s.pend) + Len(c) < MaxRows
      <4> DEFINE x == Len(s.pend)
                 y == Len(c)
                 z == Len(u)
      <4>1. x \in Nat /\ y \in Nat /\ z = y + 1 /\ x + z <= MaxRows /\ MaxRows \in Nat
        BY <1>0, <2>1, <2>7
      <4> HIDE DEF x, y, z
      <4>2. x + y < MaxRows
        BY <4>1
      <4> QED BY <4>2 DEF x, y
    <3>2. Good(r, c)
      BY <1>0, <2>1, <2>6, <3>1
    <3>3. Len(r.pend) \in Nat /\ r.ok
      BY <3>2, LenProperties DEF Sound, State
    <3>4. Len(r.pend) < MaxRows
      BY <1>0, <2>1, <3>1, <3>2, <3>3
    <3>5. ReadLine(r, e) = PutPending(r, i)
      BY <1>0, <2>4, <3>3, <3>4, ReadPending
    <3> DEFINE d == PutPending(r, i)
    <3>6. /\ Sound(d) /\ ToSet(d.pend) \subseteq ToSet(r.pend) \cup {i}
          /\ Len(d.pend) <= Len(r.pend) + 1
      BY <3>2, <3>4, SoundPending
    <3> HIDE DEF d
    <3>7. Len(d.pend) \in Nat
      BY <3>6, LenProperties DEF Sound, State
    <3>8. Len(d.pend) <= Len(s.pend) + Len(u)
      <4> DEFINE x == Len(s.pend)
                 y == Len(c)
                 z == Len(u)
                 l == Len(r.pend)
                 m == Len(d.pend)
      <4>1. /\ x \in Nat /\ y \in Nat /\ z = y + 1 /\ l \in Nat /\ m \in Nat
            /\ l <= x + y /\ m <= l + 1
        BY <1>0, <2>1, <3>2, <3>3, <3>6, <3>7
      <4> HIDE DEF x, y, z, l, m
      <4>2. m <= x + z
        BY <4>1
      <4> QED BY <4>2 DEF x, z, m
    <3>9. ToSet(d.pend) \subseteq ToSet(s.pend) \cup IdsOf(u)
      BY <2>3, <2>5, <3>2, <3>6
    <3>10. Good(d, u)
      BY <3>6, <3>8, <3>9
    <3> QED BY <3>5, <3>10 DEF d
  <2> HIDE DEF Good
  <2> QED BY <2>1, <2>2, <2>7 DEF u
<1>3. T = Seq(PendingLine)
  <2> HIDE DEF T
  <2>1. T \in SUBSET Seq(PendingLine)
    BY DEF T
  <2> QED BY <1>1, <1>2, <2>1, AllSequences
<1>4. Good(ReadOn(s, lines), lines)
  BY <1>3
<1> QED BY <1>4

\* So are completions, and they remove what they complete.
LEMMA DonesRead ==
    ASSUME NEW s, Sound(s), NEW lines \in Seq(DoneLine)
    PROVE  /\ Sound(ReadOn(s, lines))
           /\ ToSet(ReadOn(s, lines).pend) = ToSet(s.pend) \ IdsOf(lines)
<1> DEFINE Good(r, c) == /\ Sound(r)
                         /\ ToSet(r.pend) = ToSet(s.pend) \ IdsOf(c)
           T == {c \in Seq(DoneLine) : Good(ReadOn(s, c), c)}
<1>1. <<>> \in T
  <2>1. ReadOn(s, <<>>) = s /\ <<>> \in Seq(DoneLine)
    BY ReadNone, EmptySeq
  <2>2. Good(s, <<>>)
    BY IdsOfNone
  <2> HIDE DEF Good
  <2> QED BY <2>1, <2>2
<1>2. ASSUME NEW c \in T, NEW e \in DoneLine
      PROVE  Append(c, e) \in T
  <2> DEFINE r == ReadOn(s, c)
             u == Append(c, e)
  <2>1. c \in Seq(DoneLine) /\ u \in Seq(DoneLine) /\ Good(r, c)
    BY AppendProperties
  <2>2. ReadOn(s, u) = ReadLine(r, e)
    BY <2>1, ReadOneMore
  <2>3. IdsOf(u) = IdsOf(c) \cup {e.id}
    BY <2>1, IdsOfAppended
  <2>4. PICK i \in Ids : e = Done(i)
    BY DEF DoneLine
  <2>5. e.id = i
    BY <2>4, Kinds
  <2> HIDE DEF r, u
  <2>6. r.ok
    BY <2>1 DEF Sound
  <2>7. ReadLine(r, e) = PutDone(r, i)
    BY <2>4, <2>6, ReadDone
  <2> DEFINE d == PutDone(r, i)
  <2>8. Sound(d) /\ ToSet(d.pend) = ToSet(r.pend) \ {i}
    BY <2>1, SoundDone
  <2> HIDE DEF d
  <2>9. Good(d, u)
    BY <2>1, <2>3, <2>5, <2>8
  <2> HIDE DEF Good
  <2>10. u \in T
    BY <2>1, <2>2, <2>7, <2>9 DEF d
  <2> QED BY <2>10 DEF u
<1>3. T = Seq(DoneLine)
  <2> HIDE DEF T
  <2>1. T \in SUBSET Seq(DoneLine)
    BY DEF T
  <2> QED BY <1>1, <1>2, <2>1, AllSequences
<1>4. Good(ReadOn(s, lines), lines)
  BY <1>3
<1> QED BY <1>4

-----------------------------------------------------------------------------
(* What compaction writes.                                                   *)

PendingLines(p) == [k \in DOMAIN p |-> Pending(p[k])]
DoneLines(d) == [k \in DOMAIN d |-> Done(d[k])]

LEMMA PendingLinesGrow ==
    /\ PendingLines(<<>>) = <<>>
    /\ \A p \in Seq(Ids) : /\ PendingLines(p) \in Seq(PendingLine)
                           /\ Len(PendingLines(p)) = Len(p)
                           /\ IdsOf(PendingLines(p)) = ToSet(p)
    /\ \A p \in Seq(Ids), i \in Ids :
          PendingLines(Append(p, i)) = Append(PendingLines(p), Pending(i))
<1>1. ASSUME NEW p \in Seq(Ids)
      PROVE  /\ PendingLines(p) \in Seq(PendingLine)
             /\ Len(PendingLines(p)) = Len(p)
             /\ \A k \in 1 .. Len(p) : PendingLines(p)[k] = Pending(p[k])
  <2>1. Len(p) \in Nat /\ DOMAIN p = 1 .. Len(p) /\ \A k \in 1 .. Len(p) : p[k] \in Ids
    BY LenProperties, ElementOfSeq
  <2> DEFINE n == Len(p)
             q == PendingLines(p)
  <2>2. q = [k \in 1 .. n |-> Pending(p[k])]
    BY <2>1 DEF PendingLines
  <2>3. \A k \in 1 .. n : Pending(p[k]) \in PendingLine
    BY <2>1 DEF PendingLine
  <2>4. n \in Nat
    BY <2>1
  <2> HIDE DEF n, q
  <2>5. q \in [1 .. n -> PendingLine] /\ \A k \in 1 .. n : q[k] = Pending(p[k])
    BY <2>2, <2>3
  <2>6. q \in Seq(PendingLine)
    BY <2>4, <2>5, SeqDef
  <2>7. Len(q) = n
    BY <2>4, <2>5, <2>6, LenProperties
  <2> QED BY <2>5, <2>6, <2>7 DEF n, q
<1>2. PendingLines(<<>>) = <<>>
  <2> DEFINE q == PendingLines(<<>>)
  <2>1. <<>> \in Seq(Ids) /\ Len(<<>>) = 0
    BY EmptySeq
  <2>2. q \in Seq(PendingLine) /\ Len(q) = 0
    BY <1>1, <2>1
  <2> HIDE DEF q
  <2>3. q = <<>>
    BY <2>2, EmptySeq
  <2> QED BY <2>3 DEF q
<1>3. ASSUME NEW p \in Seq(Ids)
      PROVE  IdsOf(PendingLines(p)) = ToSet(p)
  <2> DEFINE q == PendingLines(p)
             n == Len(p)
  <2>1. q \in Seq(PendingLine) /\ Len(q) = n /\ \A k \in 1 .. n : q[k] = Pending(p[k])
    BY <1>1
  <2>2. \A x : x \in ToSet(p) <=> \E k \in 1 .. n : p[k] = x
    BY Elements
  <2> HIDE DEF q, n
  <2>3. \A x : x \in ToSet(q) <=> \E k \in 1 .. n : q[k] = x
    BY <2>1, Elements
  <2>4. \A k \in 1 .. n : q[k].id = p[k]
    BY <2>1, Kinds
  <2>5. \A x : x \in IdsOf(q) <=> \E line \in ToSet(q) : line.id = x
    BY DEF IdsOf
  <2>6. \A x : x \in IdsOf(q) <=> x \in ToSet(p)
    BY <2>2, <2>3, <2>4, <2>5
  <2> QED BY <2>6 DEF q
<1>4. ASSUME NEW p \in Seq(Ids), NEW i \in Ids
      PROVE  PendingLines(Append(p, i)) = Append(PendingLines(p), Pending(i))
  <2> DEFINE u == Append(p, i)
             n == Len(p)
             q == PendingLines(p)
             a == PendingLines(u)
             b == Append(q, Pending(i))
  <2>1. /\ u \in Seq(Ids) /\ Len(u) = n + 1 /\ n \in Nat /\ u[n + 1] = i
        /\ \A k \in 1 .. n : u[k] = p[k]
    BY AppendProperties, LenProperties
  <2>2. q \in Seq(PendingLine) /\ Len(q) = n /\ \A k \in 1 .. n : q[k] = Pending(p[k])
    BY <1>1
  <2>3. a \in Seq(PendingLine) /\ Len(a) = Len(u) /\ \A k \in 1 .. Len(u) : a[k] = Pending(u[k])
    BY <1>1, <2>1
  <2>4. Pending(i) \in PendingLine
    BY DEF PendingLine
  <2> HIDE DEF q, a, u
  <2>5. /\ b \in Seq(PendingLine) /\ Len(b) = Len(q) + 1 /\ b[Len(q) + 1] = Pending(i)
        /\ \A k \in 1 .. Len(q) : b[k] = q[k]
    BY <2>2, <2>4, AppendProperties
  <2> HIDE DEF b, n
  <2>6. Len(a) = n + 1 /\ Len(b) = n + 1
    BY <2>1, <2>2, <2>3, <2>5
  <2>7. ASSUME NEW k \in 1 .. n + 1
        PROVE  a[k] = b[k]
    <3>1. a[k] = Pending(u[k])
      BY <2>1, <2>3
    <3>2. CASE k = n + 1
      BY <2>1, <2>2, <2>5, <3>1, <3>2
    <3>3. CASE k # n + 1
      <4>1. k \in 1 .. n
        BY <2>1, <3>3
      <4>2. u[k] = p[k] /\ b[k] = q[k] /\ q[k] = Pending(p[k])
        BY <2>1, <2>2, <2>5, <4>1
      <4> QED BY <3>1, <4>2
    <3> QED BY <3>2, <3>3
  <2>8. a = b
    BY <2>3, <2>5, <2>6, <2>7, SeqEqual
  <2> QED BY <2>8 DEF a, b, u, q
<1> QED BY <1>1, <1>2, <1>3, <1>4

LEMMA DoneLinesGrow ==
    /\ DoneLines(<<>>) = <<>>
    /\ \A p \in Seq(Ids) : DoneLines(p) \in Seq(DoneLine)
    /\ \A p \in Seq(Ids), i \in Ids :
          DoneLines(Append(p, i)) = Append(DoneLines(p), Done(i))
<1>1. ASSUME NEW p \in Seq(Ids)
      PROVE  /\ DoneLines(p) \in Seq(DoneLine)
             /\ Len(DoneLines(p)) = Len(p)
             /\ \A k \in 1 .. Len(p) : DoneLines(p)[k] = Done(p[k])
  <2>1. Len(p) \in Nat /\ DOMAIN p = 1 .. Len(p) /\ \A k \in 1 .. Len(p) : p[k] \in Ids
    BY LenProperties, ElementOfSeq
  <2> DEFINE n == Len(p)
             q == DoneLines(p)
  <2>2. q = [k \in 1 .. n |-> Done(p[k])]
    BY <2>1 DEF DoneLines
  <2>3. \A k \in 1 .. n : Done(p[k]) \in DoneLine
    BY <2>1 DEF DoneLine
  <2>4. n \in Nat
    BY <2>1
  <2> HIDE DEF n, q
  <2>5. q \in [1 .. n -> DoneLine] /\ \A k \in 1 .. n : q[k] = Done(p[k])
    BY <2>2, <2>3
  <2>6. q \in Seq(DoneLine)
    BY <2>4, <2>5, SeqDef
  <2>7. Len(q) = n
    BY <2>4, <2>5, <2>6, LenProperties
  <2> QED BY <2>5, <2>6, <2>7 DEF n, q
<1>2. DoneLines(<<>>) = <<>>
  <2> DEFINE q == DoneLines(<<>>)
  <2>1. <<>> \in Seq(Ids) /\ Len(<<>>) = 0
    BY EmptySeq
  <2>2. q \in Seq(DoneLine) /\ Len(q) = 0
    BY <1>1, <2>1
  <2> HIDE DEF q
  <2>3. q = <<>>
    BY <2>2, EmptySeq
  <2> QED BY <2>3 DEF q
<1>3. ASSUME NEW p \in Seq(Ids), NEW i \in Ids
      PROVE  DoneLines(Append(p, i)) = Append(DoneLines(p), Done(i))
  <2> DEFINE u == Append(p, i)
             n == Len(p)
             q == DoneLines(p)
             a == DoneLines(u)
             b == Append(q, Done(i))
  <2>1. /\ u \in Seq(Ids) /\ Len(u) = n + 1 /\ n \in Nat /\ u[n + 1] = i
        /\ \A k \in 1 .. n : u[k] = p[k]
    BY AppendProperties, LenProperties
  <2>2. q \in Seq(DoneLine) /\ Len(q) = n /\ \A k \in 1 .. n : q[k] = Done(p[k])
    BY <1>1
  <2>3. a \in Seq(DoneLine) /\ Len(a) = Len(u) /\ \A k \in 1 .. Len(u) : a[k] = Done(u[k])
    BY <1>1, <2>1
  <2>4. Done(i) \in DoneLine
    BY DEF DoneLine
  <2> HIDE DEF q, a, u
  <2>5. /\ b \in Seq(DoneLine) /\ Len(b) = Len(q) + 1 /\ b[Len(q) + 1] = Done(i)
        /\ \A k \in 1 .. Len(q) : b[k] = q[k]
    BY <2>2, <2>4, AppendProperties
  <2> HIDE DEF b, n
  <2>6. Len(a) = n + 1 /\ Len(b) = n + 1
    BY <2>1, <2>2, <2>3, <2>5
  <2>7. ASSUME NEW k \in 1 .. n + 1
        PROVE  a[k] = b[k]
    <3>1. a[k] = Done(u[k])
      BY <2>1, <2>3
    <3>2. CASE k = n + 1
      BY <2>1, <2>2, <2>5, <3>1, <3>2
    <3>3. CASE k # n + 1
      <4>1. k \in 1 .. n
        BY <2>1, <3>3
      <4>2. u[k] = p[k] /\ b[k] = q[k] /\ q[k] = Done(p[k])
        BY <2>1, <2>2, <2>5, <4>1
      <4> QED BY <3>1, <4>2
    <3> QED BY <3>2, <3>3
  <2>8. a = b
    BY <2>3, <2>5, <2>6, <2>7, SeqEqual
  <2> QED BY <2>8 DEF a, b, u, q
<1> QED BY <1>1, <1>2, <1>3

LEMMA StateOf ==
    ASSUME NEW s \in State
    PROVE  s = [pend |-> s.pend, done |-> s.done, ok |-> s.ok]
BY DEF State

LEMMA PendingLinesRead ==
    ASSUME NEW p \in Seq(Ids), Distinct(p), Len(p) <= MaxRows
    PROVE  ReadOn(Empty, PendingLines(p)) = [pend |-> p, done |-> <<>>, ok |-> TRUE]
<1> DEFINE Of(q) == [pend |-> q, done |-> <<>>, ok |-> TRUE]
           T == {q \in Seq(Ids) : Distinct(q) /\ Len(q) <= MaxRows =>
                                    ReadOn(Empty, PendingLines(q)) = Of(q)}
<1>1. <<>> \in T
  <2>1. ReadOn(Empty, <<>>) = Empty /\ <<>> \in Seq(Ids)
    BY ReadNone, EmptySeq
  <2>2. Empty = Of(<<>>)
    BY DEF Empty
  <2>3. PendingLines(<<>>) = <<>>
    BY PendingLinesGrow
  <2> HIDE DEF Of
  <2> QED BY <2>1, <2>2, <2>3
<1>2. ASSUME NEW q \in T, NEW i \in Ids
      PROVE  Append(q, i) \in T
  <2> DEFINE u == Append(q, i)
             lines == PendingLines(q)
  <2>1. /\ q \in Seq(Ids) /\ u \in Seq(Ids) /\ Len(u) = Len(q) + 1
        /\ Len(q) \in Nat /\ MaxRows \in Nat
    BY AppendProperties, LenProperties, JournalAssumption
  <2>2. PendingLines(u) = Append(lines, Pending(i)) /\ lines \in Seq(PendingLine)
    BY <2>1, PendingLinesGrow
  <2>3. Pending(i) \in PendingLine
    BY DEF PendingLine
  <2>4. Distinct(u) => Distinct(q) /\ i \notin ToSet(q)
    BY <2>1, AppendedDistinct
  <2>5. Distinct(q) /\ Len(q) <= MaxRows => ReadOn(Empty, lines) = Of(q)
    OBVIOUS
  <2> HIDE DEF lines
  <2>6. ReadOn(Empty, PendingLines(u)) = ReadLine(ReadOn(Empty, lines), Pending(i))
    BY <2>2, <2>3, ReadOneMore
  <2> HIDE DEF u
  <2>7. ASSUME Distinct(u), Len(u) <= MaxRows
        PROVE  ReadOn(Empty, PendingLines(u)) = Of(u)
    <3>1. Len(q) < MaxRows
      BY <2>1, <2>7
    <3>2. ReadOn(Empty, lines) = Of(q)
      BY <2>1, <2>4, <2>5, <2>7, <3>1
    <3> DEFINE r == Of(q)
    <3>3. r.ok /\ r.pend = q /\ r.done = <<>>
      OBVIOUS
    <3>4. i \notin ToSet(r.done) \cup ToSet(r.pend)
      BY <2>4, <2>7, <3>3, ElementsOfFew
    <3>5. [r EXCEPT !.pend = Append(@, i)] = Of(u)
      <4> DEFINE e == [r EXCEPT !.pend = u]
      <4>1. r \in State
        <5>1. <<>> \in Seq(Ids)
          BY EmptySeq
        <5> QED BY <2>1, <5>1 DEF State
      <4>2. [r EXCEPT !.pend = Append(@, i)] = e
        BY <3>3 DEF u
      <4> HIDE DEF r
      <4>3. e \in State /\ e.pend = u /\ e.done = <<>> /\ e.ok = TRUE
        BY <2>1, <3>3, <4>1 DEF State
      <4> HIDE DEF e
      <4>4. e = Of(u)
        BY <4>3, StateOf
      <4> HIDE DEF Of
      <4> QED BY <4>2, <4>4 DEF r
    <3> HIDE DEF r
    <3>6. ReadLine(r, Pending(i)) = PutPending(r, i)
      <4>1. ~(Len(r.pend) >= MaxRows)
        BY <2>1, <3>1, <3>3
      <4> QED BY <3>3, <4>1, ReadPending
    <3>7. PutPending(r, i) = [r EXCEPT !.pend = Append(@, i)]
      BY <3>4 DEF PutPending
    <3> HIDE DEF Of
    <3> QED BY <2>6, <3>2, <3>5, <3>6, <3>7 DEF r
  <2> HIDE DEF Of
  <2>8. u \in T
    BY <2>1, <2>7
  <2> QED BY <2>8 DEF u
<1>3. T = Seq(Ids)
  <2> HIDE DEF T
  <2>1. T \in SUBSET Seq(Ids)
    BY DEF T
  <2> QED BY <1>1, <1>2, <2>1, AllSequences
<1> HIDE DEF Of
<1>4. ReadOn(Empty, PendingLines(p)) = Of(p)
  BY <1>3
<1> QED BY <1>4 DEF Of

LEMMA DoneLinesRead ==
    ASSUME NEW p \in Seq(Ids), NEW d \in Seq(Ids), Distinct(d), Len(d) <= DedupeEvents,
           ToSet(p) \cap ToSet(d) = {}
    PROVE  ReadOn([pend |-> p, done |-> <<>>, ok |-> TRUE], DoneLines(d))
             = [pend |-> p, done |-> d, ok |-> TRUE]
<1> DEFINE Of(q) == [pend |-> p, done |-> q, ok |-> TRUE]
           s == Of(<<>>)
           Fits(q) == /\ Distinct(q) /\ Len(q) <= DedupeEvents
                      /\ ToSet(p) \cap ToSet(q) = {}
           T == {q \in Seq(Ids) : Fits(q) => ReadOn(s, DoneLines(q)) = Of(q)}
<1>1. <<>> \in T
  <2>1. ReadOn(s, <<>>) = s /\ <<>> \in Seq(Ids)
    BY ReadNone, EmptySeq
  <2>2. DoneLines(<<>>) = <<>>
    BY DoneLinesGrow
  <2> HIDE DEF Of
  <2> QED BY <2>1, <2>2
<1>2. ASSUME NEW q \in T, NEW i \in Ids
      PROVE  Append(q, i) \in T
  <2> DEFINE u == Append(q, i)
             lines == DoneLines(q)
  <2>1. /\ q \in Seq(Ids) /\ u \in Seq(Ids) /\ Len(u) = Len(q) + 1
        /\ Len(q) \in Nat /\ DedupeEvents \in Nat
        /\ ToSet(u) = ToSet(q) \cup {i}
    BY AppendProperties, LenProperties, JournalStateAssumption, Appended
  <2>2. DoneLines(u) = Append(lines, Done(i)) /\ lines \in Seq(DoneLine)
    BY <2>1, DoneLinesGrow
  <2>3. Done(i) \in DoneLine
    BY DEF DoneLine
  <2>4. Distinct(u) => Distinct(q) /\ i \notin ToSet(q)
    BY <2>1, AppendedDistinct
  <2>5. Fits(q) => ReadOn(s, lines) = Of(q)
    OBVIOUS
  <2> HIDE DEF lines, s
  <2>6. ReadOn(s, DoneLines(u)) = ReadLine(ReadOn(s, lines), Done(i))
    BY <2>2, <2>3, ReadOneMore
  <2>7. ASSUME Fits(u)
        PROVE  ReadOn(s, DoneLines(u)) = Of(u)
    <3>1. Len(q) < DedupeEvents /\ i \notin ToSet(q) /\ i \notin ToSet(p)
      <4>1. Len(u) <= DedupeEvents
        BY <2>7
      <4> HIDE DEF u
      <4>2. Len(q) < DedupeEvents
        BY <2>1, <4>1
      <4> QED BY <2>1, <2>4, <2>7, <4>2 DEF u
    <3>2. Fits(q)
      BY <2>1, <2>4, <2>7, <3>1
    <3>3. ReadOn(s, lines) = Of(q)
      BY <2>5, <3>2
    <3> DEFINE r == Of(q)
    <3>4. r.ok /\ r.pend = p /\ r.done = q
      OBVIOUS
    <3>5. [r EXCEPT !.pend = p, !.done = u] = Of(u)
      <4> DEFINE e == [r EXCEPT !.pend = p, !.done = u]
      <4>1. r \in State
        BY <2>1 DEF State
      <4> HIDE DEF r
      <4>2. e \in State /\ e.pend = p /\ e.done = u /\ e.ok = TRUE
        BY <2>1, <3>4, <4>1 DEF State
      <4> HIDE DEF e
      <4>3. e = Of(u)
        BY <4>2, StateOf
      <4> HIDE DEF Of
      <4> QED BY <4>3 DEF e, r
    <3> HIDE DEF r
    <3>6. ReadLine(r, Done(i)) = PutDone(r, i)
      BY <3>4, ReadDone
    <3>7. Without(p, i) = p
      BY <3>1 DEF Without
    <3>8. RememberId(q, i) = u
      <4>1. ~(DedupeEvents = 0 \/ i \in ToSet(q)) /\ ~(Len(u) > DedupeEvents)
        BY <2>1, <3>1
      <4> QED BY <4>1 DEF RememberId
    <3>9. PutDone(r, i) = [r EXCEPT !.pend = p, !.done = u]
      BY <3>4, <3>7, <3>8 DEF PutDone
    <3> HIDE DEF Of
    <3> QED BY <2>6, <3>3, <3>5, <3>6, <3>9 DEF r
  <2> HIDE DEF Of, Fits
  <2>8. u \in T
    BY <2>1, <2>7
  <2> QED BY <2>8 DEF u
<1>3. T = Seq(Ids)
  <2> HIDE DEF T
  <2>1. T \in SUBSET Seq(Ids)
    BY DEF T
  <2> QED BY <1>1, <1>2, <2>1, AllSequences
<1>4. Fits(d)
  OBVIOUS
<1> HIDE DEF Of
<1>5. ReadOn(s, DoneLines(d)) = Of(d)
  BY <1>3, <1>4
<1> QED BY <1>5 DEF Of

\* Reading the replacement gives the state it was written from.
LEMMA RewrittenRead ==
    ASSUME NEW s, Sound(s)
    PROVE  Rewritten(s) \in Seq(Line) /\ ReadState(Rewritten(s)) = s
<1> DEFINE a == PendingLines(s.pend)
           b == DoneLines(s.done)
           half == [pend |-> s.pend, done |-> <<>>, ok |-> TRUE]
<1>0. /\ s \in State /\ s.ok /\ s.pend \in Seq(Ids) /\ s.done \in Seq(Ids)
      /\ Distinct(s.pend) /\ Distinct(s.done)
      /\ ToSet(s.pend) \cap ToSet(s.done) = {}
      /\ Len(s.pend) <= MaxRows /\ Len(s.done) <= DedupeEvents
  BY DEF Sound, State
<1>1. a \in Seq(Line) /\ b \in Seq(Line)
  <2>1. a \in Seq(PendingLine) /\ b \in Seq(DoneLine)
    BY <1>0, PendingLinesGrow, DoneLinesGrow
  <2> HIDE DEF a, b
  <2> QED BY <2>1, Kinds, SeqMonotonic
<1>2. Rewritten(s) = a \o b
  BY DEF Rewritten, PendingLines, DoneLines
<1>3. ReadOn(Empty, a) = half
  BY <1>0, PendingLinesRead
<1>4. ReadOn(half, b) = [pend |-> s.pend, done |-> s.done, ok |-> TRUE]
  BY <1>0, DoneLinesRead
<1>5. s = [pend |-> s.pend, done |-> s.done, ok |-> TRUE]
  BY <1>0 DEF State
<1> HIDE DEF a, b, half
<1>6. ReadOn(Empty, a \o b) = ReadOn(ReadOn(Empty, a), b)
  BY <1>1, ReadJoined
<1>7. a \o b \in Seq(Line)
  BY <1>1, ConcatProperties
<1> QED BY <1>2, <1>3, <1>4, <1>5, <1>6, <1>7 DEF ReadState

-----------------------------------------------------------------------------
(* Sequences and sets the actions use.                                       *)

LEMMA FinitelyMany ==
    ASSUME NEW X, NEW s \in Seq(X)
    PROVE  IsFiniteSet(ToSet(s))
<1> DEFINE D == 1 .. Len(s)
           R == ToSet(s)
<1>1. Len(s) \in Int /\ s \in [D -> X] /\ \A x : x \in R <=> \E i \in D : s[i] = x
  BY LenProperties, Elements
<1>2. IsFiniteSet(D)
  BY <1>1, FS_Interval
<1> HIDE DEF D, R
<1>3. s \in [D -> R] /\ \A x \in R : \E i \in D : s[i] = x
  BY <1>1
<1>4. s \in Surjection(D, R)
  BY <1>3 DEF Surjection
<1>5. IsFiniteSet(R)
  BY <1>2, <1>4, FS_Surjection
<1> QED BY <1>5 DEF R

LEMMA HeadMoved ==
    ASSUME NEW X, NEW w \in Seq(X), NEW t \in Seq(X), t # <<>>
    PROVE  /\ Append(w, Head(t)) \in Seq(X) /\ Tail(t) \in Seq(X) /\ Head(t) \in X
           /\ Append(w, Head(t)) \o Tail(t) = w \o t
<1> DEFINE h == Head(t)
           r == Tail(t)
           one == <<h>>
<1>1. h \in X /\ r \in Seq(X)
  BY HeadTailProperties
<1>2. t = one \o r
  BY HeadJoinsTail
<1> HIDE DEF h, r
<1>3. one \in Seq(X) /\ Append(w, h) = w \o one /\ Append(w, h) \in Seq(X)
  BY <1>1, AppendIsConcat, AppendProperties
<1> HIDE DEF one
<1>4. (w \o one) \o r = w \o (one \o r)
  BY <1>1, <1>3, ConcatAssociative
<1> QED BY <1>1, <1>2, <1>3, <1>4 DEF h, r

LEMMA StartOfJoined ==
    ASSUME NEW X, NEW a \in Seq(X), NEW w \in Seq(X), NEW m \in 0 .. Len(w)
    PROVE  SubSeq(a \o w, 1, Len(a) + m) = a \o SubSeq(w, 1, m)
<1> DEFINE b == SubSeq(w, 1, m)
           c == SubSeq(w, m + 1, Len(w))
           ab == a \o b
<1>1. b \in Seq(X) /\ c \in Seq(X) /\ b \o c = w /\ Len(b) = m
  BY Cut
<1> HIDE DEF b, c
<1>2. ab \in Seq(X) /\ Len(ab) = Len(a) + m /\ a \o w = ab \o c
  <2>0. a \in Seq(X) /\ b \in Seq(X) /\ c \in Seq(X)
    BY <1>1
  <2>1. (a \o b) \o c = a \o (b \o c)
    BY <2>0, ConcatAssociative
  <2>2. ab \in Seq(X) /\ Len(ab) = Len(a) + Len(b)
    BY <1>1, ConcatProperties
  <2> QED BY <1>1, <2>1, <2>2
<1> HIDE DEF ab
<1>3. SubSeq(ab \o c, 1, Len(ab)) = ab
  <2>1. CASE ab = <<>>
    <3>1. Len(ab) = 0
      BY <2>1, EmptySeq
    <3>2. SubSeq(ab \o c, 1, 0) = <<>>
      BY SubSeqEmpty
    <3> QED BY <2>1, <3>1, <3>2
  <2>2. CASE ab # <<>>
    <3>1. Len(ab) \in Nat \ {0}
      BY <1>2, <2>2, EmptySeq
    <3>2. 1 \in 1 .. Len(ab) /\ Len(ab) \in 1 .. Len(ab)
      BY <3>1
    <3>3. SubSeq(ab \o c, 1, Len(ab)) = SubSeq(ab, 1, Len(ab))
      BY <1>1, <1>2, <3>2, SubSeqOfConcat1
    <3> QED BY <1>2, <3>3, SubSeqFull
  <2> QED BY <2>1, <2>2
<1> QED BY <1>2, <1>3 DEF ab, b

\* What is started is started by all of it.
LEMMA StartOfStart ==
    ASSUME NEW X, NEW w \in Seq(X), NEW t \in Seq(X), NEW m \in 0 .. Len(w)
    PROVE  SubSeq(w \o t, 1, m) = SubSeq(w, 1, m)
<1>1. CASE m = 0
  <2>1. SubSeq(w \o t, 1, 0) = <<>> /\ SubSeq(w, 1, 0) = <<>>
    BY SubSeqEmpty
  <2> QED BY <1>1, <2>1
<1>2. CASE m # 0
  <2>1. 1 \in 1 .. Len(w) /\ m \in 1 .. Len(w)
    BY <1>2, LenProperties
  <2> QED BY <2>1, SubSeqOfConcat1
<1> QED BY <1>1, <1>2

LEMMA Kept ==
    ASSUME NEW S, NEW c \in [Inodes -> Seq(Line)], NEW n \in [Inodes -> Nat]
    PROVE  /\ KeepOnly(S, c) \in [Inodes -> Seq(Line)]
           /\ SafeOnly(S, n) \in [Inodes -> Nat]
<1>1. <<>> \in Seq(Line)
  BY EmptySeq
<1>2. KeepOnly(S, c) \in [Inodes -> Seq(Line)]
  BY <1>1 DEF KeepOnly
<1>3. SafeOnly(S, n) \in [Inodes -> Nat]
  BY DEF SafeOnly
<1> QED BY <1>2, <1>3

LEMMA NoCallTyped == NoCall \in Calls /\ NoCall.call = "none"
<1>1. <<>> \in Seq(Line)
  BY EmptySeq
<1> QED BY <1>1 DEF NoCall, Calls

AppendCall(lines, n) ==
    [NoCall EXCEPT !.call = "append", !.todo = lines, !.all = lines, !.before = n]

CompactCall(lines, f) ==
    [NoCall EXCEPT !.call = "rewrite", !.temp = f, !.todo = lines, !.all = lines]

LEMMA CallsBegin ==
    ASSUME NEW lines \in Seq(Line)
    PROVE  /\ \A n \in Nat :
                LET o == AppendCall(lines, n)
                IN  /\ o \in Calls /\ o.call = "append" /\ o.todo = lines /\ o.all = lines
                    /\ o.before = n
           /\ \A f \in Inodes :
                LET o == CompactCall(lines, f)
                IN  o \in Calls /\ o.call = "rewrite" /\ o.todo = lines /\ o.temp = f
<1>1. ASSUME NEW n \in Nat
      PROVE  LET o == AppendCall(lines, n)
             IN  /\ o \in Calls /\ o.call = "append" /\ o.todo = lines /\ o.all = lines
                 /\ o.before = n
  BY NoCallTyped DEF Calls, AppendCall
<1>2. ASSUME NEW f \in Inodes
      PROVE  LET o == CompactCall(lines, f)
             IN  o \in Calls /\ o.call = "rewrite" /\ o.todo = lines /\ o.temp = f
  BY NoCallTyped DEF Calls, CompactCall
<1> QED BY <1>1, <1>2

\* Which ids a batch of lines retires or gives back.
LEMMA IdsOfKinds ==
    /\ \A lines \in Seq(PendingLine) :
          /\ {line.id : line \in {x \in ToSet(lines) : x.kind = "done"}} = {}
          /\ {line.id : line \in {x \in ToSet(lines) : x.kind = "pending"}} = IdsOf(lines)
    /\ \A lines \in Seq(DoneLine) :
          /\ {line.id : line \in {x \in ToSet(lines) : x.kind = "done"}} = IdsOf(lines)
          /\ {line.id : line \in {x \in ToSet(lines) : x.kind = "pending"}} = {}
<1>1. ASSUME NEW lines \in Seq(PendingLine)
      PROVE  \A x \in ToSet(lines) : x.kind = "pending"
  BY Elements, Kinds DEF PendingLine
<1>2. ASSUME NEW lines \in Seq(DoneLine)
      PROVE  \A x \in ToSet(lines) : x.kind = "done"
  BY Elements, Kinds DEF DoneLine
<1>3. "pending" # "done"
  OBVIOUS
<1>4. ASSUME NEW lines \in Seq(PendingLine)
      PROVE  /\ {line.id : line \in {x \in ToSet(lines) : x.kind = "done"}} = {}
             /\ {line.id : line \in {x \in ToSet(lines) : x.kind = "pending"}} = IdsOf(lines)
  <2>1. {x \in ToSet(lines) : x.kind = "done"} = {}
    BY <1>1, <1>3
  <2>2. {x \in ToSet(lines) : x.kind = "pending"} = ToSet(lines)
    BY <1>1
  <2> QED BY <2>1, <2>2 DEF IdsOf
<1>5. ASSUME NEW lines \in Seq(DoneLine)
      PROVE  /\ {line.id : line \in {x \in ToSet(lines) : x.kind = "done"}} = IdsOf(lines)
             /\ {line.id : line \in {x \in ToSet(lines) : x.kind = "pending"}} = {}
  <2>1. {x \in ToSet(lines) : x.kind = "pending"} = {}
    BY <1>2, <1>3
  <2>2. {x \in ToSet(lines) : x.kind = "done"} = ToSet(lines)
    BY <1>2
  <2> QED BY <2>1, <2>2 DEF IdsOf
<1> QED BY <1>4, <1>5

-----------------------------------------------------------------------------
(* Every step keeps the invariant.                                           *)

LEMMA InvInitially == Init => JournalInv
<1> SUFFICES ASSUME Init PROVE JournalInv
  OBVIOUS
<1>1. <<>> \in Seq(Line) /\ IsFiniteSet({})
  BY EmptySeq, FS_EmptySet
<1>2. content \in [Inodes -> Seq(Line)] /\ synced \in [Inodes -> Nat]
  BY <1>1 DEF Init
<1>3. op \in Calls /\ op = NoCall
  BY NoCallTyped DEF Init
<1> QED BY <1>1, <1>2, <1>3 DEF Init, JournalInv, Typed

LEMMA OpenKeeps ==
    ASSUME JournalInv, Open
    PROVE  JournalInv'
<1> DEFINE s == ReadState(content[path])
           sure == [synced EXCEPT ![path] = Len(content[path])]
<1>0. /\ Typed /\ handle = NoInode /\ s.ok
      /\ handle' = path /\ durable' = path /\ path' = path /\ op' = op
      /\ content' = KeepOnly({path}, content) /\ synced' = SafeOnly({path}, sure)
      /\ owned' = ToSet(s.pend) /\ promised' = s /\ detached' = FALSE
  BY DEF Open, JournalInv
<1>1. /\ content \in [Inodes -> Seq(Line)] /\ synced \in [Inodes -> Nat]
      /\ path \in Inodes /\ op = NoCall
  BY <1>0 DEF Typed
<1>2. content[path] \in Seq(Line) /\ Len(content[path]) \in Nat
  BY <1>1, LenProperties
<1>3. sure \in [Inodes -> Nat] /\ sure[path] = Len(content[path])
  BY <1>1, <1>2
<1>4. Sound(s)
  BY <1>0, <1>2, EmptySound, LinesRead DEF ReadState
<1> HIDE DEF s, sure
<1>5. s.pend \in Seq(Ids)
  BY <1>4 DEF Sound, State
<1>6. ToSet(s.pend) \in SUBSET Ids /\ IsFiniteSet(ToSet(s.pend))
  BY <1>5, Elements, FinitelyMany
<1>7. /\ content' \in [Inodes -> Seq(Line)] /\ synced' \in [Inodes -> Nat]
      /\ content'[path] = content[path] /\ synced'[path] = Len(content[path])
  <2>1. <<>> \in Seq(Line)
    BY EmptySeq
  <2>2. content' \in [Inodes -> Seq(Line)] /\ content'[path] = content[path]
    BY <1>0, <1>1, <2>1 DEF KeepOnly
  <2>3. synced' \in [Inodes -> Nat] /\ synced'[path] = sure[path]
    BY <1>0, <1>1, <1>3 DEF SafeOnly
  <2> QED BY <1>3, <2>2, <2>3
<1>8. Typed'
  BY <1>0, <1>1, <1>6, <1>7, NoCallTyped DEF Typed
<1>9. op'.call = "none"
  BY <1>0, <1>1, NoCallTyped
<1>10. JournalHolds'
  <2>1. ReadState(content'[path']) = promised' /\ synced'[path'] = Len(content'[path'])
    BY <1>0, <1>7 DEF s
  <2> QED BY <1>9, <2>1 DEF JournalHolds, Whole
<1>11. ReplacementHolds' /\ FormerHolds'
  BY <1>0, <1>9 DEF ReplacementHolds, FormerHolds
<1>12. Up'
  BY <1>0, <1>4, <1>10, <1>11 DEF Up
<1> QED BY <1>8, <1>12 DEF JournalInv

LEMMA RepairKeeps ==
    ASSUME JournalInv, Repair
    PROVE  JournalInv'
<1> DEFINE lines == content[path]
           less == Front(lines)
<1>0. /\ Typed /\ handle = NoInode /\ lines # <<>>
      /\ content' = [content EXCEPT ![path] = less]
      /\ synced' = [synced EXCEPT ![path] = Len(lines) - 1]
      /\ UNCHANGED <<path, durable, handle, op, owned>>
  BY DEF Repair, JournalInv
<1>1. lines \in Seq(Line) /\ content \in [Inodes -> Seq(Line)] /\ synced \in [Inodes -> Nat]
  BY <1>0 DEF Typed
<1> HIDE DEF lines
<1>2. Len(lines) - 1 \in Nat /\ Len(lines) - 1 \in 0 .. Len(lines)
  <2>1. Len(lines) \in Nat \ {0}
    BY <1>0, <1>1, EmptySeq
  <2> QED BY <2>1
<1>3. less \in Seq(Line)
  BY <1>1, <1>2, Cut DEF Front
<1> HIDE DEF less
<1>4. content' \in [Inodes -> Seq(Line)] /\ synced' \in [Inodes -> Nat]
  BY <1>0, <1>1, <1>2, <1>3
<1>5. Typed'
  BY <1>0, <1>4 DEF Typed
<1> QED BY <1>0, <1>5 DEF JournalInv

\* A call that begins finds the journal whole.
LEMMA Idle ==
    ASSUME JournalInv, handle # NoInode, op = NoCall
    PROVE  /\ Typed /\ Up /\ Whole(path) /\ (~detached => durable = path)
           /\ handle = path /\ content[path] \in Seq(Line) /\ Len(content[path]) \in Nat
<1>1. Typed /\ Up
  BY DEF JournalInv
<1>2. op.call = "none"
  BY NoCallTyped
<1>3. JournalHolds /\ FormerHolds /\ handle = path
  BY <1>1 DEF Up
<1>4. Whole(path) /\ (~detached => durable = path)
  BY <1>2, <1>3 DEF JournalHolds, FormerHolds
<1>5. content[path] \in Seq(Line)
  BY <1>1 DEF Typed
<1> QED BY <1>1, <1>3, <1>4, <1>5, LenProperties

LEMMA BeginAppendKeeps ==
    ASSUME JournalInv, NEW lines \in Seq(Line), BeginAppend(lines),
           owned' \in SUBSET Ids, IsFiniteSet(owned'), ToSet(promised.pend) \subseteq owned',
           Appendable(lines)'
    PROVE  JournalInv'
<1>0. /\ handle # NoInode /\ op = NoCall
      /\ op' = [NoCall EXCEPT !.call = "append", !.todo = lines, !.all = lines,
                              !.before = Len(content[handle])]
      /\ UNCHANGED <<content, synced, path, durable, handle, promised, detached>>
  BY DEF BeginAppend, files
<1>1. /\ Typed /\ Up /\ Whole(path) /\ (~detached => durable = path)
      /\ handle = path /\ content[path] \in Seq(Line) /\ Len(content[path]) \in Nat
  BY <1>0, Idle
<1>2. /\ op' \in Calls /\ op'.call = "append" /\ op'.todo = lines /\ op'.all = lines
      /\ op'.before = Len(content[path])
  <2> DEFINE n == Len(content[path])
             o == op'
  <2>1. n \in Nat /\ o = AppendCall(lines, n)
    BY <1>0, <1>1 DEF AppendCall
  <2> HIDE DEF n, o
  <2>2. /\ o \in Calls /\ o.call = "append" /\ o.todo = lines /\ o.all = lines
        /\ o.before = n
    BY <2>1, CallsBegin
  <2> QED BY <2>2 DEF n, o
<1>3. Typed'
  BY <1>0, <1>1, <1>2 DEF Typed
<1>4. JournalHolds'
  <2>0. PICK b \in Seq(Line) : b = content[path]
    BY <1>1
  <2>1. b = b \o <<>> /\ lines = <<>> \o lines /\ <<>> \in Seq(Line)
    BY ConcatEmptySeq, EmptySeq
  <2>2. ReadState(b) = promised /\ synced[path] = Len(b)
    BY <1>1, <2>0 DEF Whole
  <2>3. Growing(b, <<>>)'
    BY <1>0, <1>2, <2>0, <2>1, <2>2 DEF Growing
  <2>4. (\E base, w \in Seq(Line) : Growing(base, w))'
    BY <2>1, <2>3
  <2>5. Appendable(op.all)'
    BY <1>2 DEF Appendable
  <2> QED BY <1>2, <2>4, <2>5 DEF JournalHolds
<1>5. ReplacementHolds' /\ FormerHolds'
  BY <1>0, <1>1, <1>2 DEF ReplacementHolds, FormerHolds
<1>6. Up'
  BY <1>0, <1>1, <1>4, <1>5 DEF Up
<1> QED BY <1>3, <1>6 DEF JournalInv

LEMMA AppendPendingKeeps ==
    ASSUME JournalInv, NEW s \in Seq(Ids), AppendPending(s)
    PROVE  JournalInv'
<1> DEFINE lines == PendingLines(s)
<1>0. /\ ToSet(s) \cap owned = {} /\ Cardinality(owned) + Len(s) <= MaxRows
      /\ BeginAppend(lines) /\ owned' = owned \cup ToSet(s)
      /\ handle # NoInode /\ op = NoCall /\ promised' = promised
  BY DEF AppendPending, BeginAppend, PendingLines
<1>1. /\ lines \in Seq(PendingLine) /\ Len(lines) = Len(s) /\ IdsOf(lines) = ToSet(s)
  BY PendingLinesGrow
<1> HIDE DEF lines
<1>2. lines \in Seq(Line)
  BY <1>1, Kinds, SeqMonotonic
<1>3. /\ owned \in SUBSET Ids /\ IsFiniteSet(owned)
      /\ Sound(promised) /\ ToSet(promised.pend) \subseteq owned
  BY <1>0, Idle DEF Typed, Up
<1>4. promised.pend \in Seq(Ids) /\ Distinct(promised.pend)
  BY <1>3 DEF Sound, State
<1>5. ToSet(s) \subseteq Ids /\ IsFiniteSet(ToSet(s))
  BY Elements, FinitelyMany
<1>6. owned' \in SUBSET Ids /\ IsFiniteSet(owned') /\ ToSet(promised.pend) \subseteq owned'
  BY <1>0, <1>3, <1>5, FS_Union
<1>7. Len(promised.pend) + Len(lines) <= MaxRows
  <2>1. Len(promised.pend) <= Cardinality(owned)
    BY <1>3, <1>4, DistinctFits
  <2> DEFINE l == Len(promised.pend)
             c == Cardinality(owned)
             n == Len(s)
  <2>2. l \in Nat /\ n \in Nat /\ c \in Nat /\ MaxRows \in Nat
    BY <1>3, <1>4, LenProperties, FS_CardinalityType, JournalAssumption
  <2>3. l <= c /\ c + n <= MaxRows /\ Len(lines) = n
    BY <1>0, <1>1, <2>1
  <2> HIDE DEF l, c, n
  <2>4. l + n <= MaxRows
    BY <2>2, <2>3
  <2> QED BY <2>3, <2>4 DEF l
<1>8. IdsOf(lines) \subseteq owned' \ ToSet(promised.pend)
  BY <1>0, <1>1, <1>3
<1>9. Appendable(lines)'
  BY <1>0, <1>1, <1>7, <1>8 DEF Appendable
<1> QED BY <1>0, <1>2, <1>6, <1>9, BeginAppendKeeps

LEMMA AppendDoneKeeps ==
    ASSUME JournalInv, NEW s \in Seq(Ids), AppendDone(s)
    PROVE  JournalInv'
<1> DEFINE lines == DoneLines(s)
<1>0. /\ BeginAppend(lines) /\ owned' = owned /\ handle # NoInode /\ op = NoCall
  BY DEF AppendDone, BeginAppend, DoneLines
<1>1. lines \in Seq(DoneLine)
  BY DoneLinesGrow
<1> HIDE DEF lines
<1>2. lines \in Seq(Line)
  BY <1>1, Kinds, SeqMonotonic
<1>3. /\ owned \in SUBSET Ids /\ IsFiniteSet(owned) /\ ToSet(promised.pend) \subseteq owned
  BY <1>0, Idle DEF Typed, Up
<1>4. Appendable(lines)'
  BY <1>1 DEF Appendable
<1> QED BY <1>0, <1>2, <1>3, <1>4, BeginAppendKeeps

\* A call under way: the process is up.
LEMMA Busy ==
    ASSUME JournalInv, op.call # "none"
    PROVE  /\ handle # NoInode /\ Typed /\ Up /\ handle = path
           /\ Sound(promised) /\ ToSet(promised.pend) \subseteq owned
           /\ JournalHolds /\ ReplacementHolds /\ FormerHolds
<1>1. Typed /\ op # NoCall
  BY NoCallTyped DEF JournalInv
<1>2. handle # NoInode
  BY <1>1 DEF Typed
<1> QED BY <1>1, <1>2 DEF JournalInv, Up

LEMMA WriteLineKeeps ==
    ASSUME JournalInv, WriteLine
    PROVE  JournalInv'
<1> DEFINE x == Head(op.todo)
           rest == Tail(op.todo)
<1>0. /\ op.call = "append" /\ op.todo # <<>>
      /\ content' = [content EXCEPT ![handle] = Append(content[handle], x)]
      /\ op' = [op EXCEPT !.todo = rest]
      /\ UNCHANGED <<synced, path, durable, handle, owned, promised, detached>>
  BY DEF WriteLine
<1>1. /\ handle # NoInode /\ Typed /\ handle = path
      /\ Sound(promised) /\ ToSet(promised.pend) \subseteq owned
      /\ JournalHolds /\ FormerHolds
  BY <1>0, Busy
<1>2. /\ content \in [Inodes -> Seq(Line)] /\ path \in Inodes /\ op \in Calls
      /\ op.todo \in Seq(Line) /\ content[path] \in Seq(Line)
  BY <1>1 DEF Typed, Calls
<1>3. PICK base \in Seq(Line), w \in Seq(Line) : Growing(base, w)
  BY <1>0, <1>1 DEF JournalHolds
<1>4. /\ Append(w, x) \in Seq(Line) /\ rest \in Seq(Line) /\ x \in Line
      /\ Append(w, x) \o rest = w \o op.todo
  BY <1>0, <1>2, HeadMoved
<1> HIDE DEF x, rest
<1>5. Append(content[path], x) = base \o Append(w, x)
  <2> DEFINE c == content[path]
  <2>1. x \in Line /\ c = base \o w /\ c \in Seq(Line)
    BY <1>2, <1>3, <1>4 DEF Growing
  <2> HIDE DEF c
  <2>2. base \o Append(w, x) = (base \o w) \o <<x>>
    BY <2>1, JoinedAppended
  <2>3. Append(c, x) = c \o <<x>>
    BY <2>1, AppendIsConcat
  <2> QED BY <2>1, <2>2, <2>3 DEF c
<1>6. Append(content[path], x) \in Seq(Line)
  BY <1>2, <1>4, AppendProperties
<1>7. content' \in [Inodes -> Seq(Line)] /\ content'[path] = Append(content[path], x)
  BY <1>0, <1>1, <1>2, <1>6
<1>8. op' \in Calls /\ op'.call = "append" /\ op'.todo = rest /\ op'.all = op.all
      /\ op'.before = op.before
  BY <1>0, <1>2, <1>4 DEF Calls
<1>9. Typed'
  BY <1>0, <1>1, <1>7, <1>8 DEF Typed
<1>10. JournalHolds'
  <2>1. PICK v \in Seq(Line) : v = Append(w, x)
    BY <1>4
  <2>2. /\ content[path] = base \o w /\ op.all = w \o op.todo
        /\ Len(base) = op.before /\ Len(base) = synced[path] /\ ReadState(base) = promised
    BY <1>3 DEF Growing
  <2>3. content'[path] = base \o v /\ op'.all = v \o op'.todo
    BY <1>4, <1>5, <1>7, <1>8, <2>1, <2>2
  <2>4. Growing(base, v)'
    BY <1>0, <1>8, <2>2, <2>3 DEF Growing
  <2>5. (\E b, u \in Seq(Line) : Growing(b, u))'
    BY <2>4
  <2>6. Appendable(op.all)
    BY <1>0, <1>1 DEF JournalHolds
  <2>7. Appendable(op.all)'
    BY <1>0, <1>8, <2>6 DEF Appendable
  <2> QED BY <1>8, <2>5, <2>7 DEF JournalHolds
<1>11. ReplacementHolds' /\ FormerHolds'
  <2>1. ReplacementHolds'
    BY <1>8 DEF ReplacementHolds
  <2>2. ~detached => durable = path
    BY <1>0, <1>1 DEF FormerHolds
  <2>3. FormerHolds'
    BY <1>0, <1>8, <2>2 DEF FormerHolds
  <2> QED BY <2>1, <2>3
<1>12. Up'
  BY <1>0, <1>1, <1>10, <1>11 DEF Up
<1> QED BY <1>9, <1>12 DEF JournalInv

\* What an append under way adds to the state, after m of its lines.
LEMMA AddedBy ==
    ASSUME NEW lines \in Seq(Line), Sound(promised), Appendable(lines),
           NEW m \in 0 .. Len(lines)
    PROVE  Sound(ReadOn(promised, SubSeq(lines, 1, m)))
<1> DEFINE start == SubSeq(lines, 1, m)
<1>0. Len(promised.pend) \in Nat /\ Len(lines) \in Nat /\ MaxRows \in Nat
  BY LenProperties, JournalAssumption DEF Sound, State
<1> DEFINE l == Len(promised.pend)
           n == Len(lines)
<1>1. CASE /\ lines \in Seq(PendingLine)
           /\ Len(promised.pend) + Len(lines) <= MaxRows
  <2>1. start \in Seq(PendingLine) /\ Len(start) = m
    BY <1>1, Cut
  <2>2. l \in Nat /\ n \in Nat /\ MaxRows \in Nat /\ l + n <= MaxRows /\ m \in 0 .. n
    BY <1>0, <1>1
  <2> HIDE DEF start, l, n
  <2>3. l + m <= MaxRows
    BY <2>2
  <2>4. Len(promised.pend) + Len(start) <= MaxRows
    BY <2>1, <2>3 DEF l
  <2>5. Sound(ReadOn(promised, start))
    BY <2>1, <2>4, PendingRead
  <2> QED BY <1>1, <2>5 DEF start
<1>2. CASE lines \in Seq(DoneLine)
  <2>1. start \in Seq(DoneLine)
    BY <1>2, Cut
  <2> HIDE DEF start
  <2>2. Sound(ReadOn(promised, start))
    BY <2>1, DonesRead
  <2> QED BY <1>2, <2>2 DEF start
<1> QED BY <1>1, <1>2 DEF Appendable

\* After all of them: what is pending is owned, less what is retired.
LEMMA AllAdded ==
    ASSUME NEW lines \in Seq(Line), Sound(promised), ToSet(promised.pend) \subseteq owned,
           Appendable(lines)
    PROVE  /\ Sound(ReadOn(promised, lines))
           /\ ToSet(ReadOn(promised, lines).pend) \subseteq
                owned \ {line.id : line \in {x \in ToSet(lines) : x.kind = "done"}}
           /\ ToSet(promised.pend) \subseteq
                owned \ {line.id : line \in {x \in ToSet(lines) : x.kind = "pending"}}
<1>1. CASE /\ lines \in Seq(PendingLine)
           /\ Len(promised.pend) + Len(lines) <= MaxRows
           /\ IdsOf(lines) \subseteq owned \ ToSet(promised.pend)
  <2>1. /\ Sound(ReadOn(promised, lines))
        /\ ToSet(ReadOn(promised, lines).pend) \subseteq ToSet(promised.pend) \cup IdsOf(lines)
    BY <1>1, PendingRead
  <2>2. /\ {line.id : line \in {x \in ToSet(lines) : x.kind = "done"}} = {}
        /\ {line.id : line \in {x \in ToSet(lines) : x.kind = "pending"}} = IdsOf(lines)
    BY <1>1, IdsOfKinds
  <2> QED BY <1>1, <2>1, <2>2
<1>2. CASE lines \in Seq(DoneLine)
  <2>1. /\ Sound(ReadOn(promised, lines))
        /\ ToSet(ReadOn(promised, lines).pend) = ToSet(promised.pend) \ IdsOf(lines)
    BY <1>2, DonesRead
  <2>2. /\ {line.id : line \in {x \in ToSet(lines) : x.kind = "done"}} = IdsOf(lines)
        /\ {line.id : line \in {x \in ToSet(lines) : x.kind = "pending"}} = {}
    BY <1>2, IdsOfKinds
  <2> QED BY <1>2, <2>1, <2>2
<1> QED BY <1>1, <1>2 DEF Appendable

LEMMA AppendSyncedKeeps ==
    ASSUME JournalInv, AppendSynced
    PROVE  JournalInv'
<1> DEFINE gone == {line.id : line \in {x \in ToSet(op.all) : x.kind = "done"}}
<1>0. /\ op.call = "append" /\ op.todo = <<>>
      /\ synced' = [synced EXCEPT ![handle] = Len(content[handle])]
      /\ promised' = ReadOn(promised, op.all) /\ owned' = owned \ gone /\ op' = NoCall
      /\ UNCHANGED <<content, path, durable, handle, detached>>
  BY DEF AppendSynced
<1>1. /\ handle # NoInode /\ Typed /\ handle = path
      /\ Sound(promised) /\ ToSet(promised.pend) \subseteq owned
      /\ JournalHolds /\ FormerHolds
  BY <1>0, Busy
<1>2. /\ content \in [Inodes -> Seq(Line)] /\ path \in Inodes /\ op.all \in Seq(Line)
      /\ synced \in [Inodes -> Nat] /\ content[path] \in Seq(Line)
      /\ owned \in SUBSET Ids /\ IsFiniteSet(owned)
  BY <1>1 DEF Typed, Calls
<1>3. /\ Appendable(op.all) /\ \E base, w \in Seq(Line) : Growing(base, w)
  BY <1>0, <1>1 DEF JournalHolds
<1>4. /\ Sound(ReadOn(promised, op.all))
      /\ ToSet(ReadOn(promised, op.all).pend) \subseteq owned \ gone
  BY <1>1, <1>2, <1>3, AllAdded
<1>5. owned \ gone \in SUBSET Ids /\ IsFiniteSet(owned \ gone)
  BY <1>2, FS_Difference
<1> HIDE DEF gone
<1>6. Len(content[path]) \in Nat
  BY <1>2, LenProperties
<1>7. synced' \in [Inodes -> Nat] /\ synced'[path] = Len(content[path])
  BY <1>0, <1>1, <1>2, <1>6
<1>8. Typed'
  BY <1>0, <1>1, <1>5, <1>7, NoCallTyped DEF Typed
<1>9. ReadState(content[path]) = promised'
  <2>1. PICK base \in Seq(Line), w \in Seq(Line) : Growing(base, w)
    BY <1>3
  <2>2. content[path] = base \o w /\ op.all = w \o <<>> /\ ReadState(base) = promised
    BY <1>0, <2>1 DEF Growing
  <2>3. op.all = w
    BY <2>2, ConcatEmptySeq
  <2>4. ReadOn(Empty, base \o w) = ReadOn(ReadOn(Empty, base), w)
    BY ReadJoined
  <2> QED BY <1>0, <2>2, <2>3, <2>4 DEF ReadState
<1>10. JournalHolds' /\ ReplacementHolds' /\ FormerHolds'
  <2>1. op'.call = "none"
    BY <1>0, NoCallTyped
  <2>2. Whole(path)'
    BY <1>0, <1>7, <1>9 DEF Whole
  <2>3. ~detached => durable = path
    BY <1>0, <1>1 DEF FormerHolds
  <2>4. JournalHolds'
    BY <2>1, <2>2 DEF JournalHolds
  <2>5. ReplacementHolds' /\ FormerHolds'
    BY <1>0, <2>1, <2>3 DEF ReplacementHolds, FormerHolds
  <2> QED BY <2>4, <2>5
<1>11. Up'
  BY <1>0, <1>1, <1>4, <1>10 DEF Up
<1> QED BY <1>8, <1>11 DEF JournalInv

LEMMA AppendFailsKeeps ==
    ASSUME JournalInv, AppendFails
    PROVE  JournalInv'
<1> DEFINE gone == {line.id : line \in {x \in ToSet(op.all) : x.kind = "pending"}}
           start == SubSeq(content[handle], 1, op.before)
<1>0. /\ op.call = "append"
      /\ content' = [content EXCEPT ![handle] = start]
      /\ synced' = [synced EXCEPT ![handle] = op.before]
      /\ owned' = owned \ gone /\ op' = NoCall
      /\ UNCHANGED <<path, durable, handle, promised, detached>>
  BY DEF AppendFails
<1>1. /\ handle # NoInode /\ Typed /\ handle = path
      /\ Sound(promised) /\ ToSet(promised.pend) \subseteq owned
      /\ JournalHolds /\ FormerHolds
  BY <1>0, Busy
<1>2. /\ content \in [Inodes -> Seq(Line)] /\ path \in Inodes /\ op.all \in Seq(Line)
      /\ synced \in [Inodes -> Nat] /\ op.before \in Nat
      /\ owned \in SUBSET Ids /\ IsFiniteSet(owned)
  BY <1>1 DEF Typed, Calls
<1>3. Appendable(op.all) /\ \E base, w \in Seq(Line) : Growing(base, w)
  BY <1>0, <1>1 DEF JournalHolds
<1>4. ToSet(promised.pend) \subseteq owned \ gone
  BY <1>1, <1>2, <1>3, AllAdded
<1>5. owned \ gone \in SUBSET Ids /\ IsFiniteSet(owned \ gone)
  BY <1>2, FS_Difference
<1>6. PICK base \in Seq(Line), w \in Seq(Line) : Growing(base, w)
  BY <1>3
<1>7. /\ content[path] = base \o w /\ op.before = Len(base) /\ ReadState(base) = promised
  BY <1>6 DEF Growing
<1>8. start = base
  <2>1. Len(base) \in Nat /\ Len(w) \in Nat
    BY LenProperties
  <2>2. 0 \in 0 .. Len(w) /\ Len(base) + 0 = Len(base)
    BY <2>1
  <2>3. SubSeq(base \o w, 1, Len(base) + 0) = base \o SubSeq(w, 1, 0)
    BY <2>2, StartOfJoined
  <2>4. SubSeq(w, 1, 0) = <<>> /\ base \o <<>> = base
    BY SubSeqEmpty, ConcatEmptySeq
  <2> QED BY <1>1, <1>7, <2>2, <2>3, <2>4
<1> HIDE DEF gone, start
<1>9. /\ content' \in [Inodes -> Seq(Line)] /\ content'[path] = base
      /\ synced' \in [Inodes -> Nat] /\ synced'[path] = Len(base)
  BY <1>0, <1>1, <1>2, <1>7, <1>8
<1>10. Typed'
  BY <1>0, <1>1, <1>5, <1>9, NoCallTyped DEF Typed
<1>11. JournalHolds' /\ ReplacementHolds' /\ FormerHolds'
  <2>1. op'.call = "none"
    BY <1>0, NoCallTyped
  <2>2. Whole(path)'
    BY <1>0, <1>7, <1>9 DEF Whole
  <2>3. ~detached => durable = path
    BY <1>0, <1>1 DEF FormerHolds
  <2>4. JournalHolds'
    BY <2>1, <2>2 DEF JournalHolds
  <2>5. ReplacementHolds' /\ FormerHolds'
    BY <1>0, <2>1, <2>3 DEF ReplacementHolds, FormerHolds
  <2> QED BY <2>4, <2>5
<1>12. Up'
  BY <1>0, <1>1, <1>4, <1>11 DEF Up
<1> QED BY <1>10, <1>12 DEF JournalInv

LEMMA BeginCompactKeeps ==
    ASSUME JournalInv, BeginCompact
    PROVE  JournalInv'
<1> DEFINE s == ReadState(content[path])
<1>0. /\ handle # NoInode /\ op = NoCall
      /\ UNCHANGED <<path, durable, handle, owned, promised, detached>>
  BY DEF BeginCompact
<1>1. PICK f \in Inodes \ {path, durable, handle} :
        /\ op' = CompactCall(Rewritten(s), f)
        /\ content' = [content EXCEPT ![f] = <<>>]
        /\ synced' = [synced EXCEPT ![f] = 0]
  BY DEF BeginCompact, CompactCall
<1>2. /\ Typed /\ Up /\ Whole(path) /\ (~detached => durable = path)
  BY <1>0, Idle
<1>3. s = promised /\ Sound(promised)
  BY <1>2 DEF Whole, Up
<1> HIDE DEF s
<1>4. Rewritten(promised) \in Seq(Line)
  BY <1>3, RewrittenRead
<1>5. /\ op' \in Calls /\ op'.call = "rewrite" /\ op'.todo = Rewritten(promised)
      /\ op'.temp = f
  BY <1>1, <1>3, <1>4, CallsBegin
<1>6. /\ content \in [Inodes -> Seq(Line)] /\ synced \in [Inodes -> Nat]
      /\ path \in Inodes /\ durable \in Inodes
  BY <1>2 DEF Typed
<1>7. <<>> \in Seq(Line)
  BY EmptySeq
<1>8. /\ content' \in [Inodes -> Seq(Line)] /\ synced' \in [Inodes -> Nat]
      /\ content'[path] = content[path] /\ synced'[path] = synced[path]
      /\ content'[f] = <<>>
  BY <1>1, <1>6, <1>7
<1>9. Typed'
  BY <1>0, <1>2, <1>5, <1>8 DEF Typed
<1>10. JournalHolds'
  BY <1>0, <1>2, <1>5, <1>8 DEF JournalHolds, Whole
<1>11. ReplacementHolds'
  <2>1. content'[f] \o op'.todo = Rewritten(promised)
    BY <1>4, <1>5, <1>8, ConcatEmptySeq
  <2>2. f \in Inodes \ {path, durable}
    BY <1>1
  <2>3. op'.call # "rename"
    BY <1>5
  <2> QED BY <1>0, <1>5, <2>1, <2>2, <2>3 DEF ReplacementHolds
<1>12. FormerHolds'
  BY <1>0, <1>2, <1>5 DEF FormerHolds
<1>13. Up'
  BY <1>0, <1>2, <1>10, <1>11, <1>12 DEF Up
<1> QED BY <1>9, <1>13 DEF JournalInv

\* A replacement under way leaves the journal alone.
LEMMA Rewriting ==
    ASSUME JournalInv, op.call \in {"rewrite", "rename"}
    PROVE  /\ handle # NoInode /\ Typed /\ Up /\ handle = path /\ Sound(promised)
           /\ Whole(path) /\ (~detached => durable = path)
           /\ op.temp \in Inodes \ {path, durable}
           /\ content[op.temp] \o op.todo = Rewritten(promised)
           /\ op.call = "rename" => /\ op.todo = <<>>
                                    /\ synced[op.temp] = Len(content[op.temp])
           /\ content \in [Inodes -> Seq(Line)] /\ synced \in [Inodes -> Nat]
           /\ path \in Inodes /\ durable \in Inodes /\ op \in Calls
<1>1. /\ handle # NoInode /\ Typed /\ Up /\ handle = path /\ Sound(promised)
      /\ JournalHolds /\ ReplacementHolds /\ FormerHolds
  BY Busy
<1>2. Whole(path)
  BY <1>1 DEF JournalHolds
<1>3. ~detached => durable = path
  BY <1>1 DEF FormerHolds
<1>4. /\ op.temp \in Inodes \ {path, durable}
      /\ content[op.temp] \o op.todo = Rewritten(promised)
      /\ op.call = "rename" => /\ op.todo = <<>>
                               /\ synced[op.temp] = Len(content[op.temp])
  BY <1>1 DEF ReplacementHolds
<1>5. /\ content \in [Inodes -> Seq(Line)] /\ synced \in [Inodes -> Nat]
      /\ path \in Inodes /\ durable \in Inodes /\ op \in Calls
  BY <1>1 DEF Typed
<1> QED BY <1>1, <1>2, <1>3, <1>4, <1>5

LEMMA RewriteLineKeeps ==
    ASSUME JournalInv, RewriteLine
    PROVE  JournalInv'
<1> DEFINE x == Head(op.todo)
           rest == Tail(op.todo)
           f == op.temp
           longer == Append(content[f], x)
<1>0. /\ op.call = "rewrite" /\ op.todo # <<>>
      /\ content' = [content EXCEPT ![f] = longer]
      /\ op' = [op EXCEPT !.todo = rest]
      /\ UNCHANGED <<synced, path, durable, handle, owned, promised, detached>>
  BY DEF RewriteLine
<1>1. /\ handle # NoInode /\ Typed /\ Up /\ Whole(path) /\ (~detached => durable = path)
      /\ f \in Inodes \ {path, durable} /\ content[f] \o op.todo = Rewritten(promised)
      /\ content \in [Inodes -> Seq(Line)] /\ path \in Inodes /\ op \in Calls
  BY <1>0, Rewriting
<1>2. op.todo \in Seq(Line) /\ content[f] \in Seq(Line)
  BY <1>1 DEF Calls
<1>3. longer \in Seq(Line) /\ rest \in Seq(Line) /\ longer \o rest = content[f] \o op.todo
  <2>1. PICK t \in Seq(Line), u \in Seq(Line) : t = content[f] /\ u = op.todo
    BY <1>2
  <2>2. u # <<>>
    BY <1>0, <2>1
  <2>3. /\ Append(t, Head(u)) \in Seq(Line) /\ Tail(u) \in Seq(Line)
        /\ Append(t, Head(u)) \o Tail(u) = t \o u
    BY <2>2, HeadMoved
  <2> QED BY <2>1, <2>3
<1> HIDE DEF x, rest, longer
<1>4. /\ op' \in Calls /\ op'.call = "rewrite" /\ op'.todo = rest /\ op'.temp = f
  BY <1>0, <1>1, <1>3 DEF Calls
<1> HIDE DEF f
<1>5. /\ content' \in [Inodes -> Seq(Line)]
      /\ content'[path] = content[path] /\ content'[f] = longer
  BY <1>0, <1>1, <1>3
<1>6. Typed'
  BY <1>0, <1>1, <1>4, <1>5 DEF Typed
<1>7. JournalHolds'
  BY <1>0, <1>1, <1>4, <1>5 DEF JournalHolds, Whole
<1>8. ReplacementHolds'
  <2>1. content'[f] \o op'.todo = Rewritten(promised)
    BY <1>1, <1>3, <1>4, <1>5
  <2>2. op'.call # "rename"
    BY <1>4
  <2> QED BY <1>0, <1>1, <1>4, <2>1, <2>2 DEF ReplacementHolds
<1>9. FormerHolds'
  BY <1>0, <1>1, <1>4 DEF FormerHolds
<1>10. Up'
  BY <1>0, <1>1, <1>7, <1>8, <1>9 DEF Up
<1> QED BY <1>6, <1>10 DEF JournalInv

LEMMA SyncReplacementKeeps ==
    ASSUME JournalInv, SyncReplacement
    PROVE  JournalInv'
<1> DEFINE f == op.temp
<1>0. /\ op.call = "rewrite" /\ op.todo = <<>>
      /\ synced' = [synced EXCEPT ![f] = Len(content[f])]
      /\ op' = [op EXCEPT !.call = "rename"]
      /\ UNCHANGED <<content, path, durable, handle, owned, promised, detached>>
  BY DEF SyncReplacement
<1>1. /\ handle # NoInode /\ Typed /\ Up /\ Whole(path) /\ (~detached => durable = path)
      /\ f \in Inodes \ {path, durable} /\ content[f] \o op.todo = Rewritten(promised)
      /\ content \in [Inodes -> Seq(Line)] /\ synced \in [Inodes -> Nat]
      /\ path \in Inodes /\ op \in Calls
  BY <1>0, Rewriting
<1>2. Len(content[f]) \in Nat
  <2>1. content[f] \in Seq(Line)
    BY <1>1
  <2> QED BY <2>1, LenProperties
<1>3. op' \in Calls /\ op'.call = "rename" /\ op'.todo = op.todo /\ op'.temp = f
  BY <1>0, <1>1 DEF Calls
<1> HIDE DEF f
<1>4. /\ synced' \in [Inodes -> Nat] /\ synced'[path] = synced[path]
      /\ synced'[f] = Len(content[f])
  BY <1>0, <1>1, <1>2
<1>5. Typed'
  BY <1>0, <1>1, <1>3, <1>4 DEF Typed
<1>6. JournalHolds'
  BY <1>0, <1>1, <1>3, <1>4 DEF JournalHolds, Whole
<1>7. ReplacementHolds'
  BY <1>0, <1>1, <1>3, <1>4 DEF ReplacementHolds
<1>8. FormerHolds'
  BY <1>0, <1>1, <1>3 DEF FormerHolds
<1>9. Up'
  BY <1>0, <1>1, <1>6, <1>7, <1>8 DEF Up
<1> QED BY <1>5, <1>9 DEF JournalInv

\* The replacement that is renamed is whole.
LEMMA ReplacementWhole ==
    ASSUME JournalInv, op.call = "rename"
    PROVE  Whole(op.temp)
<1> DEFINE f == op.temp
<1>1. /\ Sound(promised) /\ f \in Inodes /\ op.todo = <<>>
      /\ content[f] \o op.todo = Rewritten(promised)
      /\ synced[f] = Len(content[f])
      /\ content \in [Inodes -> Seq(Line)]
  BY Rewriting
<1>2. content[f] \in Seq(Line)
  BY <1>1
<1>3. content[f] = Rewritten(promised)
  BY <1>1, <1>2, ConcatEmptySeq
<1>4. ReadState(Rewritten(promised)) = promised
  BY <1>1, RewrittenRead
<1> QED BY <1>1, <1>3, <1>4 DEF Whole

LEMMA RenameReplacementKeeps ==
    ASSUME JournalInv, RenameReplacement
    PROVE  JournalInv'
<1> DEFINE f == op.temp
<1>0. /\ op.call = "rename" /\ path' = f /\ handle' = f
      /\ op' = [op EXCEPT !.call = "syncdir"]
      /\ UNCHANGED <<content, synced, durable, owned, promised, detached>>
  BY DEF RenameReplacement
<1>1. /\ handle # NoInode /\ Typed /\ Up /\ Whole(path) /\ (~detached => durable = path)
      /\ f \in Inodes \ {path, durable} /\ op \in Calls
  BY <1>0, Rewriting
<1>2. Whole(f)
  BY <1>0, ReplacementWhole
<1>3. op' \in Calls /\ op'.call = "syncdir"
  BY <1>0, <1>1 DEF Calls
<1> HIDE DEF f
<1>4. handle' # NoInode
  BY <1>0, <1>1, JournalAssumption
<1>5. Typed'
  BY <1>0, <1>1, <1>3, <1>4 DEF Typed
<1>6. JournalHolds'
  BY <1>0, <1>2, <1>3 DEF JournalHolds, Whole
<1>7. ReplacementHolds'
  BY <1>3 DEF ReplacementHolds
<1>8. FormerHolds'
  BY <1>0, <1>1, <1>3 DEF FormerHolds, Whole
<1>9. Up'
  BY <1>0, <1>1, <1>6, <1>7, <1>8 DEF Up
<1> QED BY <1>5, <1>9 DEF JournalInv

LEMMA SyncDirectoryKeeps ==
    ASSUME JournalInv, SyncDirectory \/ SyncDirectoryFails
    PROVE  JournalInv'
<1>0. /\ op.call = "syncdir" /\ op' = NoCall
      /\ UNCHANGED <<path, handle, owned, promised>>
      /\ durable' = IF detached' THEN durable ELSE path
      /\ \E S \in {{path}, {path, durable}} : /\ content' = KeepOnly(S, content)
                                              /\ synced' = SafeOnly(S, synced)
  BY DEF SyncDirectory, SyncDirectoryFails
<1>1. /\ handle # NoInode /\ Typed /\ Up /\ handle = path /\ JournalHolds
  BY <1>0, Busy
<1>2. /\ content \in [Inodes -> Seq(Line)] /\ synced \in [Inodes -> Nat]
      /\ path \in Inodes /\ durable \in Inodes /\ Whole(path)
  BY <1>0, <1>1 DEF Typed, JournalHolds
<1>3. PICK S \in {{path}, {path, durable}} : /\ content' = KeepOnly(S, content)
                                             /\ synced' = SafeOnly(S, synced)
  BY <1>0
<1>4. /\ content' \in [Inodes -> Seq(Line)] /\ synced' \in [Inodes -> Nat]
      /\ content'[path] = content[path] /\ synced'[path] = synced[path]
  <2>1. path \in S /\ <<>> \in Seq(Line)
    BY <1>3, EmptySeq
  <2>2. content' \in [Inodes -> Seq(Line)] /\ content'[path] = content[path]
    BY <1>2, <1>3, <2>1 DEF KeepOnly
  <2>3. synced' \in [Inodes -> Nat] /\ synced'[path] = synced[path]
    BY <1>2, <1>3, <2>1 DEF SafeOnly
  <2> QED BY <2>2, <2>3
<1>5. Typed'
  BY <1>0, <1>1, <1>2, <1>4, NoCallTyped DEF Typed
<1>6. op'.call = "none"
  BY <1>0, NoCallTyped
<1>7. JournalHolds'
  BY <1>0, <1>2, <1>4, <1>6 DEF JournalHolds, Whole
<1>8. ReplacementHolds' /\ FormerHolds'
  BY <1>0, <1>6 DEF ReplacementHolds, FormerHolds
<1>9. Up'
  BY <1>0, <1>1, <1>7, <1>8 DEF Up
<1> QED BY <1>5, <1>9 DEF JournalInv

LEMMA RewriteFailsKeeps ==
    ASSUME JournalInv, RewriteFails
    PROVE  JournalInv'
<1> DEFINE f == op.temp
<1>0. /\ op.call \in {"rewrite", "rename"} /\ op' = NoCall
      /\ content' = [content EXCEPT ![f] = <<>>]
      /\ synced' = [synced EXCEPT ![f] = 0]
      /\ UNCHANGED <<path, durable, handle, owned, promised, detached>>
  BY DEF RewriteFails
<1>1. /\ handle # NoInode /\ Typed /\ Up /\ Whole(path) /\ (~detached => durable = path)
      /\ f \in Inodes \ {path, durable}
      /\ content \in [Inodes -> Seq(Line)] /\ synced \in [Inodes -> Nat]
      /\ path \in Inodes
  BY <1>0, Rewriting
<1> HIDE DEF f
<1>2. <<>> \in Seq(Line)
  BY EmptySeq
<1>3. /\ content' \in [Inodes -> Seq(Line)] /\ synced' \in [Inodes -> Nat]
      /\ content'[path] = content[path] /\ synced'[path] = synced[path]
  BY <1>0, <1>1, <1>2
<1>4. Typed'
  BY <1>0, <1>1, <1>3, NoCallTyped DEF Typed
<1>5. op'.call = "none"
  BY <1>0, NoCallTyped
<1>6. JournalHolds'
  BY <1>0, <1>1, <1>3, <1>5 DEF JournalHolds, Whole
<1>7. ReplacementHolds' /\ FormerHolds'
  BY <1>0, <1>1, <1>5 DEF ReplacementHolds, FormerHolds
<1>8. Up'
  BY <1>0, <1>1, <1>6, <1>7 DEF Up
<1> QED BY <1>4, <1>8 DEF JournalInv

LEMMA ProcessCrashKeeps ==
    ASSUME JournalInv, ProcessCrash
    PROVE  JournalInv'
<1> DEFINE kept == KeepOnly({path, durable}, content)
           torn == [kept EXCEPT ![handle] = Append(kept[handle], Torn)]
<1>0. /\ handle # NoInode /\ handle' = NoInode /\ op' = NoCall /\ owned' = {}
      /\ content' = kept \/ content' = torn
      /\ synced' = SafeOnly({path, durable}, synced)
      /\ UNCHANGED <<path, durable>>
  BY DEF ProcessCrash, Die
<1>1. /\ Typed /\ Up
  BY <1>0 DEF JournalInv
<1>2. /\ content \in [Inodes -> Seq(Line)] /\ synced \in [Inodes -> Nat]
      /\ handle \in Inodes
  BY <1>0, <1>1 DEF Typed
<1>3. kept \in [Inodes -> Seq(Line)] /\ synced' \in [Inodes -> Nat]
  BY <1>0, <1>2, Kept
<1> HIDE DEF kept
<1>4. Append(kept[handle], Torn) \in Seq(Line)
  <2>1. kept[handle] \in Seq(Line) /\ Torn \in Line
    BY <1>2, <1>3, Kinds
  <2> QED BY <2>1, AppendProperties
<1>5. content' \in [Inodes -> Seq(Line)]
  BY <1>0, <1>3, <1>4
<1>6. IsFiniteSet({})
  BY FS_EmptySet
<1>7. Typed'
  BY <1>0, <1>1, <1>3, <1>5, <1>6, NoCallTyped DEF Typed
<1> QED BY <1>0, <1>7 DEF JournalInv

LEMMA PowerLossKeeps ==
    ASSUME JournalInv, PowerLoss
    PROVE  JournalInv'
<1>0. /\ handle # NoInode /\ handle' = NoInode /\ op' = NoCall /\ owned' = {}
      /\ path' \in {path, durable} /\ durable' = path'
  BY DEF PowerLoss, Die
<1>1. PICK n \in synced[path'] .. Len(content[path']) :
        /\ content' = KeepOnly({path'}, [content EXCEPT ![path'] = SubSeq(content[path'], 1, n)])
        /\ synced' = SafeOnly({path'}, [synced EXCEPT ![path'] = n])
  BY DEF PowerLoss
<1>2. Typed
  BY DEF JournalInv
<1>3. /\ content \in [Inodes -> Seq(Line)] /\ synced \in [Inodes -> Nat]
      /\ path' \in Inodes
  BY <1>0, <1>2 DEF Typed
<1> DEFINE f == path'
           start == SubSeq(content[f], 1, n)
           c == [content EXCEPT ![f] = start]
           k == [synced EXCEPT ![f] = n]
<1>4. content[f] \in Seq(Line) /\ synced[f] \in Nat /\ Len(content[f]) \in Nat
  BY <1>3, LenProperties
<1>5. n \in Nat /\ n \in 0 .. Len(content[f])
  BY <1>4
<1>6. start \in Seq(Line)
  BY <1>4, <1>5, Cut
<1> HIDE DEF f, start
<1>7. c \in [Inodes -> Seq(Line)] /\ k \in [Inodes -> Nat]
  BY <1>3, <1>5, <1>6
<1>8. content' = KeepOnly({f}, c) /\ synced' = SafeOnly({f}, k)
  BY <1>1 DEF f, start
<1> HIDE DEF c, k
<1>9. content' \in [Inodes -> Seq(Line)] /\ synced' \in [Inodes -> Nat]
  BY <1>7, <1>8, Kept
<1>10. IsFiniteSet({})
  BY FS_EmptySet
<1>11. Typed'
  BY <1>0, <1>2, <1>3, <1>9, <1>10, NoCallTyped DEF Typed
<1> QED BY <1>0, <1>11 DEF JournalInv

LEMMA BoundedAreSequences ==
    ASSUME NEW n \in Nat, NEW s \in BoundedSeq(Ids, n)
    PROVE  s \in Seq(Ids)
<1>1. PICK m \in 0 .. n : s \in [1 .. m -> Ids]
  BY DEF BoundedSeq, SeqOf
<1>2. m \in Nat
  OBVIOUS
<1> QED BY <1>1, <1>2, SeqDef

LEMMA StepKeeps == JournalInv /\ [Next]_vars => JournalInv'
<1> SUFFICES ASSUME JournalInv, [Next]_vars
             PROVE  JournalInv'
  OBVIOUS
<1>1. CASE Appending
  <2>1. ASSUME NEW s \in BoundedSeq(Ids, MaxRows), AppendPending(s) \/ AppendDone(s)
        PROVE  JournalInv'
    <3>1. s \in Seq(Ids)
      BY BoundedAreSequences, JournalAssumption
    <3> QED BY <2>1, <3>1, AppendPendingKeeps, AppendDoneKeeps
  <2>2. CASE WriteLine
    BY <2>2, WriteLineKeeps
  <2>3. CASE AppendSynced
    BY <2>3, AppendSyncedKeeps
  <2>4. CASE AppendFails
    BY <2>4, AppendFailsKeeps
  <2> QED BY <1>1, <2>1, <2>2, <2>3, <2>4 DEF Appending
<1>2. CASE Compacting
  BY <1>2, BeginCompactKeeps, RewriteLineKeeps, SyncReplacementKeeps,
     RenameReplacementKeeps, SyncDirectoryKeeps, RewriteFailsKeeps DEF Compacting
<1>3. CASE Open
  BY <1>3, OpenKeeps
<1>4. CASE Repair
  BY <1>4, RepairKeeps
<1>5. CASE ProcessCrash
  BY <1>5, ProcessCrashKeeps
<1>6. CASE PowerLoss
  BY <1>6, PowerLossKeeps
<1>7. CASE UNCHANGED vars
  <2>1. UNCHANGED <<content, synced, path, durable, handle, op, owned, promised, detached>>
    BY <1>7 DEF vars
  <2>2. Typed => Typed'
    BY <2>1 DEF Typed
  <2>3. JournalHolds => JournalHolds'
    BY <2>1 DEF JournalHolds, Whole, Appendable, Growing
  <2>4. ReplacementHolds => ReplacementHolds'
    BY <2>1 DEF ReplacementHolds
  <2>5. FormerHolds => FormerHolds'
    BY <2>1 DEF FormerHolds, Whole
  <2>6. Up => Up'
    BY <2>1, <2>3, <2>4, <2>5 DEF Up
  <2> QED BY <2>1, <2>2, <2>6 DEF JournalInv
<1> QED BY <1>1, <1>2, <1>3, <1>4, <1>5, <1>6, <1>7 DEF Next

\* In every reachable state of the journal, with the process up, the file holds
\* what was acknowledged and at most a part of the append under way.
THEOREM JournalInvariant == Spec => []JournalInv
<1> QED BY InvInitially, StepKeeps, PTL DEF Spec

-----------------------------------------------------------------------------
(* What the invariant is for.                                                *)

Fine(s) == s \in Acceptable /\ s.ok

LEMMA WholeIsFine ==
    ASSUME Sound(promised), op.call # "append", NEW f, Whole(f), content[f] \in Seq(Line),
           NEW n \in synced[f] .. Len(content[f])
    PROVE  Fine(ReadState(SubSeq(content[f], 1, n)))
<1>1. ReadState(content[f]) = promised /\ synced[f] = Len(content[f])
      /\ Len(content[f]) \in Nat
  BY LenProperties DEF Whole
<1>2. n = Len(content[f])
  BY <1>1
<1>3. SubSeq(content[f], 1, n) = content[f]
  BY <1>2, SubSeqFull
<1>4. ReadState(SubSeq(content[f], 1, n)) = promised
  BY <1>1, <1>3
<1>5. promised = ReadOn(promised, SubSeq(op.all, 1, 0))
  <2>1. SubSeq(op.all, 1, 0) = <<>>
    BY SubSeqEmpty
  <2> QED BY <2>1, ReadNone
<1>6. promised \in Acceptable
  BY <1>5 DEF Acceptable
<1>7. promised.ok
  BY DEF Sound
<1> QED BY <1>4, <1>6, <1>7 DEF Fine

\* The journal, cut anywhere beyond what is safe.
LEMMA JournalIsFine ==
    ASSUME JournalInv, handle # NoInode, NEW n \in synced[path] .. Len(content[path])
    PROVE  Fine(ReadState(SubSeq(content[path], 1, n)))
<1>1. /\ Sound(promised) /\ JournalHolds /\ content[path] \in Seq(Line) /\ op.all \in Seq(Line)
  BY DEF JournalInv, Up, Typed, Calls
<1>2. CASE op.call # "append"
  BY <1>1, <1>2, WholeIsFine DEF JournalHolds
<1>3. CASE op.call = "append"
  <2>1. PICK base \in Seq(Line), w \in Seq(Line) : Growing(base, w)
    BY <1>1, <1>3 DEF JournalHolds
  <2>2. /\ content[path] = base \o w /\ op.all = w \o op.todo
        /\ synced[path] = Len(base) /\ ReadState(base) = promised
    BY <2>1 DEF Growing
  <2>3. /\ op.todo \in Seq(Line) /\ Appendable(op.all)
    BY <1>1, <1>3 DEF JournalHolds, JournalInv, Typed, Calls
  <2> DEFINE b == Len(base)
             k == Len(w)
             m == n - b
  <2>4. /\ b \in Nat /\ k \in Nat /\ Len(content[path]) = b + k
        /\ Len(op.all) = k + Len(op.todo) /\ Len(op.todo) \in Nat
    BY <2>2, <2>3, LenProperties, ConcatProperties
  <2>5. n \in b .. b + k
    BY <2>2, <2>4
  <2> DEFINE a == Len(op.all)
             t == Len(op.todo)
  <2>6. m \in 0 .. k /\ b + m = n /\ m \in 0 .. a
    <3>1. b \in Nat /\ k \in Nat /\ a = k + t /\ t \in Nat
      BY <2>4
    <3> HIDE DEF b, k, a, t
    <3>2. m \in 0 .. k /\ b + m = n
      BY <2>5, <3>1
    <3>3. m \in 0 .. a
      BY <3>1, <3>2
    <3> QED BY <3>2, <3>3
  <2> HIDE DEF m
  <2>7. SubSeq(base \o w, 1, b + m) = base \o SubSeq(w, 1, m)
    BY <2>6, StartOfJoined
  <2>8. SubSeq(w \o op.todo, 1, m) = SubSeq(w, 1, m)
    BY <2>3, <2>6, StartOfStart
  <2>9. SubSeq(w, 1, m) \in Seq(Line)
    BY <2>6, Cut
  <2> DEFINE start == SubSeq(op.all, 1, m)
  <2>10. start \in Seq(Line) /\ SubSeq(content[path], 1, n) = base \o start
    BY <2>2, <2>6, <2>7, <2>8, <2>9
  <2>11. Sound(ReadOn(promised, start))
    BY <1>1, <2>3, <2>6, AddedBy
  <2>12. ReadOn(promised, start) \in Acceptable
    BY <1>3, <2>6 DEF Acceptable
  <2> HIDE DEF start
  <2>13. ReadOn(Empty, base \o start) = ReadOn(ReadOn(Empty, base), start)
    BY <2>10, ReadJoined
  <2>14. ReadState(SubSeq(content[path], 1, n)) = ReadOn(promised, start)
    BY <2>2, <2>10, <2>13 DEF ReadState
  <2> QED BY <2>11, <2>12, <2>14 DEF Fine, Sound
<1> QED BY <1>2, <1>3

LEMMA InvSurvives == JournalInv => AcknowledgedSurvivesAttached
<1> SUFFICES ASSUME JournalInv, ~detached, handle # NoInode, NEW s \in Recoverable
             PROVE  s \in Acceptable /\ s.ok
  BY DEF AcknowledgedSurvivesAttached, AcknowledgedSurvives
<1>1. PICK f \in {path, durable} :
        \E n \in synced[f] .. Len(content[f]) : s = ReadState(SubSeq(content[f], 1, n))
  BY DEF Recoverable
<1>2. PICK n \in synced[f] .. Len(content[f]) : s = ReadState(SubSeq(content[f], 1, n))
  BY <1>1
<1>3. CASE f = path
  BY <1>2, <1>3, JournalIsFine DEF Fine
<1>4. CASE f # path
  <2>1. f = durable /\ durable # path
    BY <1>1, <1>4
  <2>2. Sound(promised) /\ FormerHolds /\ content[durable] \in Seq(Line)
    BY DEF JournalInv, Up, Typed
  <2>3. op.call = "syncdir" /\ Whole(durable)
    BY <2>1, <2>2 DEF FormerHolds
  <2>4. op.call # "append"
    BY <2>3
  <2>5. Fine(s)
    BY <1>2, <2>1, <2>2, <2>3, <2>4, WholeIsFine
  <2> QED BY <2>5 DEF Fine
<1> QED BY <1>3, <1>4

LEMMA InvSurvivesCrash == JournalInv => AcknowledgedSurvivesCrash
<1> SUFFICES ASSUME JournalInv, handle # NoInode
             PROVE  Fine(ReadState(content[path]))
  BY DEF AcknowledgedSurvivesCrash, Fine
<1> DEFINE c == content[path]
           n == Len(c)
<1>1. c \in Seq(Line) /\ n \in Nat /\ synced[path] \in Nat
  BY LenProperties DEF JournalInv, Typed
<1>2. synced[path] <= n
  <2>1. JournalHolds
    BY DEF JournalInv, Up
  <2>2. CASE op.call = "append"
    <3>1. PICK base \in Seq(Line), w \in Seq(Line) : Growing(base, w)
      BY <2>1, <2>2 DEF JournalHolds
    <3>2. c = base \o w /\ synced[path] = Len(base)
      BY <3>1 DEF Growing
    <3>3. Len(base \o w) = Len(base) + Len(w) /\ Len(base) \in Nat /\ Len(w) \in Nat
      BY ConcatProperties, LenProperties
    <3> QED BY <3>2, <3>3
  <2>3. CASE op.call # "append"
    BY <1>1, <2>1, <2>3 DEF JournalHolds, Whole
  <2> QED BY <2>2, <2>3
<1>3. n \in synced[path] .. n
  BY <1>1, <1>2
<1>4. SubSeq(c, 1, n) = c
  BY <1>1, SubSeqFull
<1>5. Fine(ReadState(SubSeq(c, 1, n)))
  BY <1>3, JournalIsFine
<1> QED BY <1>4, <1>5

\* Journal::append_pending, append_done, compact and read_state: whatever an
\* append acknowledged is in the state the next start reads, whenever the process
\* or the machine dies, unless the sync of a directory was given up; what is read
\* beyond it is a part of the append under way, and it is never refused.
THEOREM AcknowledgedKept == Spec => []AcknowledgedSurvivesAttached
<1> QED BY JournalInvariant, InvSurvives, PTL

\* The same for a death of the process alone, after any failure of sync_parent.
THEOREM AcknowledgedKeptByKernel == Spec => []AcknowledgedSurvivesCrash
<1> QED BY JournalInvariant, InvSurvivesCrash, PTL

\* Journal::compact: what it renames over the journal reads as the journal did.
THEOREM CompactionReadsTheSame == Spec => ReplacementReadsTheSame
<1>1. JournalInv /\ [Next]_vars =>
        [RenameReplacement => ReadState(content'[path']) = ReadState(content[path])]_vars
  <2> SUFFICES ASSUME JournalInv, RenameReplacement
               PROVE  ReadState(content'[path']) = ReadState(content[path])
    OBVIOUS
  <2>1. op.call = "rename" /\ path' = op.temp /\ content' = content
    BY DEF RenameReplacement
  <2>2. Whole(op.temp) /\ Whole(path)
    BY <2>1, ReplacementWhole, Rewriting
  <2> QED BY <2>1, <2>2 DEF Whole
<1> QED BY <1>1, JournalInvariant, PTL DEF Spec, ReplacementReadsTheSame
=============================================================================

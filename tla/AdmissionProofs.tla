-------------------------- MODULE AdmissionProofs --------------------------
(***************************************************************************)
(* The admission table keeps its books right for every set of ids and      *)
(* lanes, every limit and every size of a request.                         *)
(*                                                                         *)
(* ActiveExact and RowsExact are about the permits alive and need each     *)
(* other only through the finiteness of that set, which makes the          *)
(* cardinalities mean something; the inductive invariant adds just that    *)
(* and the limits.  The byte counter is a sum along a request: that the    *)
(* sum does not depend on the order of the request, and divides between    *)
(* what stays and what goes, is an induction of its own over sequences     *)
(* (AllSequences of SelectionProofs).                                      *)
(***************************************************************************)
EXTENDS Admission, SelectionProofs

\* The rows in use never exceed the limit.
RowsWithinLimit == usage.rows <= RowLimit

\* The permits alive, in some order, weigh what the byte counter says.
Enumerates(s, S) == s \in Seq(S) /\ Distinct(s) /\ ToSet(s) = S

BytesCounted ==
    /\ \E s \in Seq(Permit) : Enumerates(s, permits) /\ usage.bytes = BatchBytes(s)
    /\ usage.bytes <= ByteLimit

IInv ==
    /\ TypeOK
    /\ IsFiniteSet(permits)
    /\ ActiveExact
    /\ RowsExact
    /\ RowsWithinLimit
    /\ BytesCounted

----------------------------------------------------------------------------
(* Requests                                                                *)

\* A request without repeated ids holds as many permits as it is long.
LEMMA RequestSize ==
    ASSUME NEW n \in Nat, NEW specs \in [1 .. n -> Permit], DistinctIds(specs)
    PROVE  /\ Len(specs) = n
           /\ IsFiniteSet(ToSet(specs))
           /\ Cardinality(ToSet(specs)) = n
           /\ ToSet(specs) \subseteq Permit
<1>1. DOMAIN specs = 1 .. n /\ Len(specs) = n
  OBVIOUS
<1>2. specs \in Surjection(1 .. n, ToSet(specs))
  BY <1>1 DEF Surjection, ToSet
<1>3. specs \in Injection(1 .. n, ToSet(specs))
  BY <1>1, <1>2 DEF Injection, IsInjective, Surjection, DistinctIds
<1>4. IsFiniteSet(1 .. n) /\ Cardinality(1 .. n) = n
  BY FS_Interval
<1>5. IsFiniteSet(ToSet(specs)) /\ Cardinality(ToSet(specs)) = n
  BY <1>2, <1>3, <1>4, FS_Surjection
<1>6. ToSet(specs) \subseteq Permit
  BY <1>1 DEF ToSet
<1> QED
  BY <1>1, <1>5, <1>6

\* Two permits of such a request with the same id are the same permit.
LEMMA RequestIds ==
    ASSUME NEW n \in Nat, NEW specs \in [1 .. n -> Permit], DistinctIds(specs),
           NEW p \in ToSet(specs), NEW q \in ToSet(specs), p.id = q.id
    PROVE  p = q
BY DEF ToSet, DistinctIds

\* Counting a disjoint union, and the removal of one element.
LEMMA DisjointCount ==
    ASSUME NEW S, NEW T, IsFiniteSet(S), IsFiniteSet(T), S \cap T = {}
    PROVE  /\ IsFiniteSet(S \cup T)
           /\ Cardinality(S \cup T) = Cardinality(S) + Cardinality(T)
<1>1. IsFiniteSet(S \cup T)
      /\ Cardinality(S \cup T)
           = Cardinality(S) + Cardinality(T) - Cardinality(S \cap T)
  BY FS_Union
<1>2. Cardinality(S \cap T) = 0
  BY FS_EmptySet
<1>3. Cardinality(S) \in Nat /\ Cardinality(T) \in Nat
  BY FS_CardinalityType
<1> QED
  BY <1>1, <1>2, <1>3

----------------------------------------------------------------------------
(* The bytes of a request                                                  *)

\* The sums of the first 0 .. k sizes.
Sums(f, k, specs) ==
    /\ f = [n \in 0 .. k |-> f[n]]
    /\ f[0] = 0
    /\ \A n \in 1 .. k : f[n] = f[n - 1] + specs[n].bytes

LEMMA OneSumMore ==
    ASSUME NEW specs, NEW k \in Nat, NEW f, Sums(f, k, specs)
    PROVE  \E g : Sums(g, k + 1, specs)
<1> DEFINE next == f[k] + specs[k + 1].bytes
           g == [n \in 0 .. k + 1 |-> IF n = k + 1 THEN next ELSE f[n]]
<1>1. \A n \in 0 .. k : n \in 0 .. k + 1 /\ n # k + 1
  OBVIOUS
<1>2. k + 1 \in 0 .. k + 1 /\ 0 \in 0 .. k /\ k \in 0 .. k
  OBVIOUS
<1>3. /\ \A n \in 0 .. k : g[n] = f[n]
      /\ g[k + 1] = next
      /\ g = [n \in 0 .. k + 1 |-> g[n]]
  BY <1>1, <1>2
<1> HIDE DEF g
<1>4. ASSUME NEW n \in 1 .. k + 1
      PROVE  g[n] = g[n - 1] + specs[n].bytes
  <2>1. CASE n = k + 1
    <3>1. n - 1 = k
      BY <2>1
    <3>2. g[n - 1] = f[k]
      BY <1>2, <1>3, <3>1
    <3>3. g[n] = f[k] + specs[n].bytes
      BY <1>3, <2>1
    <3> QED BY <3>2, <3>3
  <2>2. CASE n # k + 1
    <3>1. n \in 1 .. k /\ n \in 0 .. k /\ n - 1 \in 0 .. k
      BY <2>2
    <3>2. g[n] = f[n] /\ g[n - 1] = f[n - 1]
      BY <1>3, <3>1
    <3> QED BY <3>1, <3>2 DEF Sums
  <2> QED BY <2>1, <2>2
<1>5. g[0] = 0
  BY <1>2, <1>3 DEF Sums
<1>6. Sums(g, k + 1, specs)
  BY <1>3, <1>4, <1>5 DEF Sums
<1> QED BY <1>6

LEMMA BytesAreSums ==
    ASSUME NEW specs, Len(specs) \in Nat
    PROVE  \E f : Sums(f, Len(specs), specs) /\ BatchBytes(specs) = f[Len(specs)]
<1> DEFINE m == Len(specs)
           T == {k \in Nat : \E f : Sums(f, k, specs)}
           Body(f) == [n \in 0 .. m |-> IF n = 0 THEN 0 ELSE f[n - 1] + specs[n].bytes]
           sum == CHOOSE f : f = Body(f)
<1>1. 0 \in T
  <2>1. Sums([n \in 0 .. 0 |-> 0], 0, specs)
    BY DEF Sums
  <2> QED BY <2>1
<1>2. \A k \in T : k + 1 \in T
  BY OneSumMore
<1>3. T = Nat
  <2> HIDE DEF T
  <2>1. T \in SUBSET Nat
    BY DEF T
  <2> QED BY <1>1, <1>2, <2>1, AllNumbers
<1>4. PICK f : Sums(f, m, specs)
  BY <1>3
<1>5. f = Body(f)
  <2>1. f = [n \in 0 .. m |-> f[n]]
    BY <1>4 DEF Sums
  <2>2. \A n \in 0 .. m : f[n] = IF n = 0 THEN 0 ELSE f[n - 1] + specs[n].bytes
    <3> SUFFICES ASSUME NEW n \in 0 .. m, n # 0
                 PROVE  f[n] = f[n - 1] + specs[n].bytes
      BY <1>4 DEF Sums
    <3>1. n \in 1 .. m
      OBVIOUS
    <3> QED BY <1>4, <3>1 DEF Sums
  <2> QED BY <2>1, <2>2, Zenon
<1>6. sum = Body(sum)
  BY <1>5
<1>7. BatchBytes(specs) = sum[m]
  BY DEF BatchBytes
<1> HIDE DEF sum
<1>8. Sums(sum, m, specs)
  BY <1>6 DEF Sums
<1> QED BY <1>7, <1>8

LEMMA SumsAgree ==
    ASSUME NEW a, NEW b, NEW k \in Nat, NEW m \in Nat, NEW f, NEW g, k <= m,
           Sums(f, k, a), Sums(g, m, b), \A n \in 1 .. k : a[n] = b[n]
    PROVE  f[k] = g[k]
<1> DEFINE T == {n \in Nat : n <= k => f[n] = g[n]}
<1>1. 0 \in T
  BY DEF Sums
<1>2. ASSUME NEW n \in T
      PROVE  n + 1 \in T
  <2> SUFFICES ASSUME n + 1 <= k PROVE f[n + 1] = g[n + 1]
    OBVIOUS
  <2>1. n + 1 \in 1 .. k /\ n + 1 \in 1 .. m /\ (n + 1) - 1 = n /\ f[n] = g[n]
    OBVIOUS
  <2>2. f[n + 1] = f[(n + 1) - 1] + a[n + 1].bytes
    BY <2>1 DEF Sums
  <2>3. g[n + 1] = g[(n + 1) - 1] + b[n + 1].bytes
    BY <2>1 DEF Sums
  <2> QED BY <2>1, <2>2, <2>3
<1>3. T = Nat
  <2> HIDE DEF T
  <2>1. T \in SUBSET Nat
    BY DEF T
  <2> QED BY <1>1, <1>2, <2>1, AllNumbers
<1> QED BY <1>3

LEMMA BytesOfNone == BatchBytes(<<>>) = 0
<1>1. Len(<<>>) = 0
  BY EmptySeq
<1> QED BY <1>1, BytesAreSums DEF Sums

LEMMA BytesOfOneMore ==
    ASSUME NEW X, NEW specs \in Seq(X), NEW p \in X
    PROVE  BatchBytes(Append(specs, p)) = BatchBytes(specs) + p.bytes
<1> DEFINE more == Append(specs, p)
           k == Len(specs)
<1>1. /\ Len(more) = k + 1 /\ k \in Nat /\ more[k + 1] = p
      /\ \A n \in 1 .. k : specs[n] = more[n]
  BY AppendProperties, LenProperties
<1> HIDE DEF more
<1>2. PICK f : Sums(f, k, specs) /\ BatchBytes(specs) = f[k]
  BY <1>1, BytesAreSums
<1>3. PICK g : Sums(g, Len(more), more) /\ BatchBytes(more) = g[Len(more)]
  BY <1>1, BytesAreSums
<1> HIDE DEF k
<1>4. Sums(g, k + 1, more) /\ BatchBytes(more) = g[k + 1]
  BY <1>1, <1>3
<1>5. f[k] = g[k]
  <2>1. k + 1 \in Nat /\ k <= k + 1
    BY <1>1
  <2> QED BY <1>1, <1>2, <1>4, <2>1, SumsAgree
<1>6. g[k + 1] = g[(k + 1) - 1] + more[k + 1].bytes /\ (k + 1) - 1 = k
  <2>1. k + 1 \in 1 .. k + 1 /\ (k + 1) - 1 = k
    BY <1>1
  <2> QED BY <1>4, <2>1 DEF Sums
<1> QED BY <1>1, <1>2, <1>4, <1>5, <1>6 DEF more

\* Requests whose sizes are numbers.
Sized(X) == \A p \in X : p.bytes \in Nat

LEMMA BytesTyped ==
    ASSUME NEW X, Sized(X), NEW specs \in Seq(X)
    PROVE  BatchBytes(specs) \in Nat
<1> DEFINE T == {s \in Seq(X) : BatchBytes(s) \in Nat}
<1>1. <<>> \in T
  BY BytesOfNone, EmptySeq
<1>2. ASSUME NEW s \in T, NEW p \in X
      PROVE  Append(s, p) \in T
  <2>1. BatchBytes(Append(s, p)) = BatchBytes(s) + p.bytes /\ p.bytes \in Nat
    BY BytesOfOneMore DEF Sized
  <2> QED BY <2>1, Appended
<1>3. T = Seq(X)
  <2> HIDE DEF T
  <2>1. T \in SUBSET Seq(X)
    BY DEF T
  <2> QED BY <1>1, <1>2, <2>1, AllSequences
<1> QED BY <1>3

LEMMA BytesOfBoth ==
    ASSUME NEW X, Sized(X), NEW s \in Seq(X), NEW t \in Seq(X)
    PROVE  BatchBytes(s \o t) = BatchBytes(s) + BatchBytes(t)
<1> DEFINE T == {u \in Seq(X) : BatchBytes(s \o u) = BatchBytes(s) + BatchBytes(u)}
<1>1. <<>> \in T
  <2>1. BatchBytes(s) \in Nat /\ s \o <<>> = s
    BY BytesTyped, ConcatEmptySeq
  <2> QED BY <2>1, BytesOfNone, EmptySeq
<1>2. ASSUME NEW u \in T, NEW p \in X
      PROVE  Append(u, p) \in T
  <2> DEFINE more == s \o u
  <2>1. u \in Seq(X) /\ more \in Seq(X) /\ s \o Append(u, p) = Append(more, p)
    BY Joined, AppendsBehind
  <2>2. BatchBytes(more) = BatchBytes(s) + BatchBytes(u)
    OBVIOUS
  <2> HIDE DEF more
  <2>3. BatchBytes(Append(more, p)) = BatchBytes(more) + p.bytes
    BY <2>1, BytesOfOneMore
  <2>4. BatchBytes(Append(u, p)) = BatchBytes(u) + p.bytes
    BY <2>1, BytesOfOneMore
  <2>5. BatchBytes(s) \in Nat /\ BatchBytes(u) \in Nat /\ p.bytes \in Nat
    BY <2>1, BytesTyped DEF Sized
  <2>6. BatchBytes(s \o Append(u, p)) = BatchBytes(s) + BatchBytes(Append(u, p))
    BY <2>1, <2>2, <2>3, <2>4, <2>5
  <2> QED BY <2>1, <2>6, Appended
<1>3. T = Seq(X)
  <2> HIDE DEF T
  <2>1. T \in SUBSET Seq(X)
    BY DEF T
  <2> QED BY <1>1, <1>2, <2>1, AllSequences
<1> QED BY <1>3

\* What is chosen and what is left.
LEMMA BytesDivided ==
    ASSUME NEW X, Sized(X), NEW s \in Seq(X), NEW S
    PROVE  BatchBytes(s) = BatchBytes(Among(s, S)) + BatchBytes(Among(s, X \ S))
<1> DEFINE In(u) == BatchBytes(Among(u, S))
           Out(u) == BatchBytes(Among(u, X \ S))
           T == {u \in Seq(X) : BatchBytes(u) = In(u) + Out(u)}
<1>1. <<>> \in T
  BY AmongNone, BytesOfNone, EmptySeq
<1>2. ASSUME NEW u \in T, NEW p \in X
      PROVE  Append(u, p) \in T
  <2> DEFINE a == Among(u, S)
             b == Among(u, X \ S)
             more == Append(u, p)
  <2>1. /\ u \in Seq(X) /\ a \in Seq(X) /\ b \in Seq(X) /\ more \in Seq(X)
        /\ BatchBytes(u) = BatchBytes(a) + BatchBytes(b)
    BY AmongElements, Appended
  <2>2. /\ Among(more, S) = IF p \in S THEN Append(a, p) ELSE a
        /\ Among(more, X \ S) = IF p \in X \ S THEN Append(b, p) ELSE b
    BY <2>1, AmongAppended
  <2>3. BatchBytes(more) = BatchBytes(u) + p.bytes
    BY <2>1, BytesOfOneMore
  <2> HIDE DEF a, b, more
  <2>4. /\ BatchBytes(Append(a, p)) = BatchBytes(a) + p.bytes
        /\ BatchBytes(Append(b, p)) = BatchBytes(b) + p.bytes
        /\ BatchBytes(a) \in Nat /\ BatchBytes(b) \in Nat /\ p.bytes \in Nat
    BY <2>1, BytesOfOneMore, BytesTyped DEF Sized
  <2> DEFINE x == BatchBytes(a)
             y == BatchBytes(b)
             z == p.bytes
             all == BatchBytes(more)
  <2>5. x \in Nat /\ y \in Nat /\ z \in Nat /\ all = (x + y) + z
    BY <2>1, <2>3, <2>4
  <2>6. all = In(more) + Out(more)
    <3>1. CASE p \in S
      <4>1. In(more) = x + z /\ Out(more) = y
        BY <2>2, <2>4, <3>1
      <4> HIDE DEF In, Out, x, y, z, all
      <4> QED BY <2>5, <4>1
    <3>2. CASE p \notin S
      <4>1. In(more) = x /\ Out(more) = y + z
        BY <2>2, <2>4, <3>2
      <4> HIDE DEF In, Out, x, y, z, all
      <4> QED BY <2>5, <4>1
    <3> QED BY <3>1, <3>2
  <2> QED BY <2>1, <2>6 DEF more
<1>3. T = Seq(X)
  <2> HIDE DEF T
  <2>1. T \in SUBSET Seq(X)
    BY DEF T
  <2> QED BY <1>1, <1>2, <2>1, AllSequences
<1> QED BY <1>3

\* The order of a request makes no difference to its bytes.
LEMMA BytesInAnyOrder ==
    ASSUME NEW X, Sized(X), NEW s \in Seq(X), Distinct(s), NEW t \in Seq(X), Distinct(t),
           ToSet(s) = ToSet(t)
    PROVE  BatchBytes(s) = BatchBytes(t)
<1> DEFINE T == {u \in Seq(X) : Distinct(u) =>
                   \A v \in Seq(X) : Distinct(v) /\ ToSet(v) = ToSet(u)
                                       => BatchBytes(v) = BatchBytes(u)}
<1>1. <<>> \in T
  <2> SUFFICES ASSUME NEW v \in Seq(X), ToSet(v) = ToSet(<<>>)
               PROVE  BatchBytes(v) = BatchBytes(<<>>)
    BY EmptySeq
  <2>1. ToSet(v) = {}
    BY ElementsOfFew
  <2>2. v = <<>>
    <3> SUFFICES ASSUME v # <<>> PROVE FALSE
      OBVIOUS
    <3> QED BY <2>1, HeadAndTail
  <2> QED BY <2>2
<1>2. ASSUME NEW u \in T, NEW p \in X
      PROVE  Append(u, p) \in T
  <2> DEFINE more == Append(u, p)
  <2>1. /\ u \in Seq(X) /\ more \in Seq(X) /\ ToSet(more) = ToSet(u) \cup {p}
        /\ BatchBytes(more) = BatchBytes(u) + p.bytes
        /\ ToSet(u) \subseteq X
    BY Appended, BytesOfOneMore, Elements
  <2> SUFFICES ASSUME Distinct(more), NEW v \in Seq(X), Distinct(v), ToSet(v) = ToSet(more)
               PROVE  BatchBytes(v) = BatchBytes(more)
    BY <2>1
  <2>2. Distinct(u) /\ p \notin ToSet(u)
    <3> DEFINE one == <<p>>
    <3>1. one \in Seq(X) /\ more = u \o one /\ ToSet(one) = {p}
      BY <2>1, AppendIsConcat, ElementsOfFew
    <3> HIDE DEF one, more
    <3> QED BY <2>1, <3>1, DistinctParts
  <2> HIDE DEF more
  <2> DEFINE old == Among(v, ToSet(u))
             new == Among(v, X \ ToSet(u))
  <2>3. /\ old \in Seq(X) /\ ToSet(old) = ToSet(u) /\ Distinct(old)
        /\ new \in Seq(X) /\ ToSet(new) = {p} /\ Distinct(new)
    <3>1. /\ old \in Seq(X) /\ ToSet(old) = ToSet(v) \cap ToSet(u)
          /\ new \in Seq(X) /\ ToSet(new) = ToSet(v) \cap (X \ ToSet(u))
      BY AmongElements
    <3>2. Distinct(old) /\ Distinct(new)
      BY AmongDistinct
    <3> HIDE DEF old, new
    <3> QED BY <2>1, <2>2, <3>1, <3>2
  <2>4. BatchBytes(v) = BatchBytes(old) + BatchBytes(new)
    BY BytesDivided
  <2> HIDE DEF old, new
  <2>5. BatchBytes(old) = BatchBytes(u)
    <3>1. \A w \in Seq(X) : Distinct(w) /\ ToSet(w) = ToSet(u)
                              => BatchBytes(w) = BatchBytes(u)
      BY <1>2, <2>2
    <3> QED BY <2>3, <3>1
  <2>6. BatchBytes(new) = p.bytes
    <3>1. new = <<p>>
      BY <2>3, OnlyOne
    <3>2. <<p>> = Append(<<>>, p) /\ <<>> \in Seq(X)
      OBVIOUS
    <3>3. BatchBytes(Append(<<>>, p)) = BatchBytes(<<>>) + p.bytes
      BY <3>2, BytesOfOneMore
    <3>4. p.bytes \in Nat
      BY DEF Sized
    <3> QED BY <3>1, <3>2, <3>3, <3>4, BytesOfNone
  <2>7. BatchBytes(v) = BatchBytes(u) + p.bytes
    BY <2>4, <2>5, <2>6
  <2> QED BY <2>1, <2>7
<1>3. T = Seq(X)
  <2> HIDE DEF T
  <2>1. T \in SUBSET Seq(X)
    BY DEF T
  <2> QED BY <1>1, <1>2, <2>1, AllSequences
<1> QED BY <1>3

\* Less of it has no more bytes.
LEMMA FewerBytes ==
    ASSUME NEW X, Sized(X), NEW s \in Seq(X), Distinct(s), NEW t \in Seq(X), Distinct(t),
           ToSet(s) \subseteq ToSet(t)
    PROVE  BatchBytes(s) <= BatchBytes(t)
<1> DEFINE a == Among(t, ToSet(s))
           b == Among(t, X \ ToSet(s))
<1>1. /\ a \in Seq(X) /\ Distinct(a) /\ ToSet(a) = ToSet(s)
      /\ b \in Seq(X) /\ BatchBytes(t) = BatchBytes(a) + BatchBytes(b)
  <2>1. /\ a \in Seq(X) /\ ToSet(a) = ToSet(t) \cap ToSet(s)
        /\ b \in Seq(X) /\ BatchBytes(t) = BatchBytes(a) + BatchBytes(b)
    BY AmongElements, BytesDivided
  <2>2. Distinct(a)
    BY AmongDistinct
  <2> HIDE DEF a, b
  <2> QED BY <2>1, <2>2
<1> HIDE DEF a, b
<1>2. BatchBytes(s) = BatchBytes(a)
  BY <1>1, BytesInAnyOrder
<1>3. BatchBytes(a) \in Nat /\ BatchBytes(b) \in Nat
  BY <1>1, BytesTyped
<1> DEFINE x == BatchBytes(a)
           y == BatchBytes(b)
<1>4. x \in Nat /\ y \in Nat /\ BatchBytes(s) = x /\ BatchBytes(t) = x + y
  BY <1>1, <1>2, <1>3
<1> HIDE DEF x, y
<1> QED BY <1>4

LEMMA InSeqOfElements ==
    ASSUME NEW X, NEW s \in Seq(X)
    PROVE  s \in Seq(ToSet(s))
<1>1. Len(s) \in Nat /\ s \in [1 .. Len(s) -> ToSet(s)]
  BY Elements, LenProperties
<1> QED BY <1>1

LEMMA WiderSeq ==
    ASSUME NEW X, NEW Y, X \subseteq Y, NEW s \in Seq(X)
    PROVE  s \in Seq(Y)
OBVIOUS

LEMMA PermitsAreSized == Sized(Permit)
BY AdmissionAssumption DEF Sized, Permit

\* SetToSeq really lists a finite set.
LEMMA SetInASequence ==
    ASSUME NEW S, IsFiniteSet(S)
    PROVE  Enumerates(SetToSeq(S), S)
<1> DEFINE n == Cardinality(S)
           f == SetToSeq(S)
<1>1. PICK g : g \in [1 .. n -> S] /\ IsInjective(g)
  BY FS_CardinalityType DEF ExistsBijection, Bijection, Injection
<1>2. f \in [1 .. n -> S] /\ IsInjective(f)
  BY <1>1 DEF SetToSeq
<1>3. n \in Nat /\ IsFiniteSet(1 .. n) /\ Cardinality(1 .. n) = n
  BY FS_CardinalityType, FS_Interval
<1> HIDE DEF f, n
<1>4. f \in Injection(1 .. n, S)
  BY <1>2 DEF Injection
<1>5. f \in Surjection(1 .. n, S)
  BY <1>3, <1>4, FS_Injection DEF n
<1>6. f \in Seq(S) /\ Len(f) = n /\ DOMAIN f = 1 .. n
  BY <1>2, <1>3
<1>7. ToSet(f) = S
  BY <1>2, <1>5, <1>6 DEF ToSet, Surjection
<1>8. Distinct(f)
  BY <1>2, <1>6 DEF Distinct, IsInjective
<1> QED BY <1>6, <1>7, <1>8 DEF Enumerates, f

----------------------------------------------------------------------------
(* The inductive invariant                                                 *)

\* reserve() adds the bytes of the request, and they fit.
LEMMA ReserveCounts ==
    ASSUME IInv, NEW n \in Nat, NEW specs \in [1 .. n -> Permit], Reserve(specs)
    PROVE  BytesCounted'
<1>1. PICK s \in Seq(Permit) : Enumerates(s, permits) /\ usage.bytes = BatchBytes(s)
  BY DEF IInv, BytesCounted
<1>2. specs \in Seq(Permit) /\ DOMAIN specs = 1 .. Len(specs)
  OBVIOUS
<1>3. Distinct(specs)
  <2>1. DistinctIds(specs)
    BY DEF Reserve, Admits
  <2>2. \A i, j \in 1 .. Len(specs) : specs[i] = specs[j] => i = j
    BY <1>2, <2>1 DEF DistinctIds
  <2> QED BY <2>2 DEF Distinct
<1>4. ToSet(s) \cap ToSet(specs) = {}
  <2>1. IdsOf(ToSet(specs)) \cap IdsOf(permits) = {}
    BY DEF Reserve, Admits, IInv, ActiveExact
  <2>2. ToSet(s) = permits
    BY <1>1 DEF Enumerates
  <2> QED BY <2>1, <2>2 DEF IdsOf
<1> DEFINE both == s \o specs
<1>5. /\ both \in Seq(Permit) /\ ToSet(both) = permits' /\ Distinct(both)
      /\ BatchBytes(both) = BatchBytes(s) + BatchBytes(specs)
  <2>1. both \in Seq(Permit) /\ ToSet(both) = ToSet(s) \cup ToSet(specs)
    BY <1>2, Joined
  <2>2. Distinct(both)
    BY <1>1, <1>2, <1>3, <1>4, JoinedDistinct DEF Enumerates
  <2>3. BatchBytes(both) = BatchBytes(s) + BatchBytes(specs)
    BY <1>2, PermitsAreSized, BytesOfBoth
  <2> HIDE DEF both
  <2> QED BY <1>1, <2>1, <2>2, <2>3 DEF Enumerates, Reserve
<1>6. BatchBytes(s) \in Nat /\ BatchBytes(specs) \in Nat
  BY <1>2, PermitsAreSized, BytesTyped
<1>7. usage'.bytes = usage.bytes + BatchBytes(specs)
  BY DEF Reserve, Charge
<1> HIDE DEF both
<1>8. BatchBytes(specs) <= Room(ByteLimit, usage.bytes)
  BY DEF Reserve, Admits
<1>9. usage'.bytes <= ByteLimit
  <2> DEFINE more == BatchBytes(specs)
  <2>1. more \in Nat /\ usage.bytes \in Nat /\ usage.bytes <= ByteLimit
    BY <1>1, <1>6 DEF IInv, BytesCounted
  <2>2. more <= Room(ByteLimit, usage.bytes) /\ usage'.bytes = usage.bytes + more
    BY <1>7, <1>8
  <2> HIDE DEF more
  <2> QED BY <2>1, <2>2, AdmissionAssumption DEF Room
<1>10. Enumerates(both, permits')
  <2>1. both \in Seq(permits')
    BY <1>5, Elements, InSeqOfElements
  <2> QED BY <1>5, <2>1 DEF Enumerates
<1> QED BY <1>1, <1>5, <1>7, <1>9, <1>10 DEF BytesCounted

\* The drop of a permit takes its own bytes away.
LEMMA RetireCounts ==
    ASSUME IInv, NEW p \in permits, Retire(p)
    PROVE  BytesCounted'
<1>1. PICK s \in Seq(Permit) : Enumerates(s, permits) /\ usage.bytes = BatchBytes(s)
  BY DEF IInv, BytesCounted
<1>2. p \in Permit /\ permits \subseteq Permit /\ permits' = permits \ {p}
  BY DEF Retire, IInv, TypeOK
<1> DEFINE one == Among(s, {p})
           left == Among(s, Permit \ {p})
<1>3. BatchBytes(s) = BatchBytes(one) + BatchBytes(left)
  BY PermitsAreSized, BytesDivided
<1>4. /\ one \in Seq(Permit) /\ ToSet(one) = ToSet(s) \cap {p}
      /\ left \in Seq(Permit) /\ ToSet(left) = ToSet(s) \cap (Permit \ {p})
  BY AmongElements
<1>5. Distinct(one) /\ Distinct(left)
  BY <1>1, AmongDistinct DEF Enumerates
<1> HIDE DEF one, left
<1>6. ToSet(one) = {p} /\ ToSet(left) = permits'
  BY <1>1, <1>2, <1>4 DEF Enumerates
<1>7. BatchBytes(one) = p.bytes
  <2>1. one = <<p>>
    BY <1>2, <1>4, <1>5, <1>6, OnlyOne
  <2>2. <<p>> = Append(<<>>, p) /\ <<>> \in Seq(Permit)
    OBVIOUS
  <2>3. BatchBytes(Append(<<>>, p)) = BatchBytes(<<>>) + p.bytes
    BY <1>2, <2>2, BytesOfOneMore
  <2> QED BY <1>2, <2>1, <2>2, <2>3, BytesOfNone, PermitsAreSized DEF Sized
<1>8. BatchBytes(left) \in Nat /\ p.bytes \in Nat
  BY <1>2, <1>4, PermitsAreSized, BytesTyped DEF Sized
<1>9. usage'.bytes = usage.bytes - p.bytes
  BY DEF Retire, Refund
<1>10. usage'.bytes = BatchBytes(left) /\ usage'.bytes <= ByteLimit
  <2> DEFINE b == BatchBytes(left)
  <2>1. /\ b \in Nat /\ p.bytes \in Nat /\ usage.bytes = p.bytes + b
        /\ usage.bytes <= ByteLimit /\ usage'.bytes = usage.bytes - p.bytes
    BY <1>1, <1>3, <1>7, <1>8, <1>9 DEF IInv, BytesCounted
  <2> HIDE DEF b
  <2>2. usage'.bytes = b /\ usage'.bytes <= ByteLimit
    BY <2>1, AdmissionAssumption
  <2> QED BY <2>2 DEF b
<1>11. Enumerates(left, permits')
  <2>1. left \in Seq(permits')
    BY <1>4, <1>6, Elements, InSeqOfElements
  <2> QED BY <1>5, <1>6, <2>1 DEF Enumerates
<1> QED BY <1>4, <1>10, <1>11 DEF BytesCounted

LEMMA NothingCounted ==
    /\ <<>> \in Seq(Permit) /\ Enumerates(<<>>, {})
    /\ BatchBytes(<<>>) = 0 /\ 0 <= ByteLimit
<1>1. Distinct(<<>>)
  BY EmptySeq DEF Distinct
<1>2. <<>> \in Seq({}) /\ <<>> \in Seq(Permit)
  OBVIOUS
<1> QED BY <1>1, <1>2, ElementsOfFew, BytesOfNone, AdmissionAssumption DEF Enumerates

\* No permit, no usage: true at the start and after a restart.
LEMMA EmptyTable ==
    ASSUME active' = {}, usage' = NoUsage, permits' = {}
    PROVE  IInv'
<1>1. Cardinality({}) = 0 /\ IsFiniteSet({})
  BY FS_EmptySet
<1>2. \A l \in Lanes : OfLane(permits', l) = {}
  BY DEF OfLane
<1>3. usage'.rows = 0 /\ usage'.lanes = [l \in Lanes |-> 0]
  BY DEF NoUsage
<1>4. TypeOK'
  BY <1>3 DEF TypeOK
<1>5. ActiveExact'
  BY DEF ActiveExact, IdsOf
<1>6. RowsExact'
  BY <1>1, <1>2, <1>3 DEF RowsExact, OfLane
<1>7. RowsWithinLimit'
  BY <1>3, AdmissionAssumption DEF RowsWithinLimit
<1>8. BytesCounted'
  BY NothingCounted DEF BytesCounted, NoUsage
<1> QED
  BY <1>1, <1>4, <1>5, <1>6, <1>7, <1>8 DEF IInv

\* reserve() keeps the books: the permits it hands out are new, as many as the
\* request is long, and fit the room there is.
LEMMA ReserveKeeps ==
    ASSUME IInv, NEW n \in Nat, NEW specs \in [1 .. n -> Permit], Reserve(specs)
    PROVE  IInv'
<1> DEFINE New == ToSet(specs)
<1>1. /\ Admits(specs)
      /\ active' = active \cup IdsOf(New)
      /\ usage' = Charge(usage, specs)
      /\ permits' = permits \cup New
  BY DEF Reserve
<1>2. /\ Len(specs) = n
      /\ IsFiniteSet(New)
      /\ Cardinality(New) = n
      /\ New \subseteq Permit
  BY <1>1, RequestSize DEF Admits
<1>3. permits \cap New = {}
  BY <1>1 DEF Admits, IInv, ActiveExact, IdsOf
<1>4. IsFiniteSet(permits')
      /\ Cardinality(permits') = Cardinality(permits) + n
  BY <1>1, <1>2, <1>3, DisjointCount DEF IInv
<1>5. \A l \in Lanes :
        Cardinality(OfLane(permits', l))
          = Cardinality(OfLane(permits, l)) + Cardinality(OfLane(New, l))
        /\ Cardinality(OfLane(New, l)) \in Nat
  <2> TAKE l \in Lanes
  <2>1. /\ IsFiniteSet(OfLane(permits, l))
        /\ IsFiniteSet(OfLane(New, l))
    BY <1>2, FS_Subset DEF IInv, OfLane
  <2>2. OfLane(permits', l) = OfLane(permits, l) \cup OfLane(New, l)
    BY <1>1 DEF OfLane
  <2>3. OfLane(permits, l) \cap OfLane(New, l) = {}
    BY <1>3 DEF OfLane
  <2> QED
    BY <2>1, <2>2, <2>3, DisjointCount, FS_CardinalityType
<1>6. /\ usage'.rows = usage.rows + n
      /\ usage'.lanes = [l \in Lanes |->
                           usage.lanes[l] + Cardinality(OfLane(New, l))]
  BY <1>1, <1>2 DEF Charge
<1>7. TypeOK'
  <2>1. IdsOf(New) \subseteq Ids
    BY <1>2 DEF IdsOf, Permit
  <2>2. usage'.lanes \in [Lanes -> Nat]
    BY <1>5, <1>6 DEF IInv, TypeOK
  <2> QED
    BY <1>1, <1>2, <1>6, <2>1, <2>2 DEF IInv, TypeOK
<1>8. ActiveExact'
  <2>1. \A p, q \in New : p.id = q.id => p = q
    BY <1>1, RequestIds DEF Admits
  <2>2. \A p \in permits, q \in New : p.id # q.id
    BY <1>1 DEF Admits, IInv, ActiveExact, IdsOf
  <2> QED
    BY <1>1, <2>1, <2>2 DEF IInv, ActiveExact, IdsOf
<1>9. RowsExact'
  BY <1>4, <1>5, <1>6 DEF IInv, RowsExact
<1>10. RowsWithinLimit'
  BY <1>1, <1>2, <1>6, AdmissionAssumption
     DEF Admits, Room, IInv, TypeOK, RowsWithinLimit
<1>11. BytesCounted'
  BY ReserveCounts
<1> QED
  BY <1>4, <1>7, <1>8, <1>9, <1>10, <1>11 DEF IInv

\* The drop of a permit keeps the books: it finds its id, and takes one row
\* from the total and from its own lane only.
LEMMA RetireKeeps ==
    ASSUME IInv, NEW p \in permits, Retire(p)
    PROVE  IInv'
<1>1. /\ active' = active \ {p.id}
      /\ usage' = Refund(usage, p)
      /\ permits' = permits \ {p}
      /\ p \in Permit
      /\ p.lane \in Lanes
  BY DEF Retire, IInv, TypeOK, Permit
<1>2. IsFiniteSet(permits') /\ Cardinality(permits') = Cardinality(permits) - 1
  BY <1>1, FS_RemoveElement DEF IInv
<1>3. \A l \in Lanes :
        /\ Cardinality(OfLane(permits, l)) \in Nat
        /\ Cardinality(OfLane(permits', l)) \in Nat
        /\ Cardinality(OfLane(permits', l))
             = IF l = p.lane THEN Cardinality(OfLane(permits, l)) - 1
               ELSE Cardinality(OfLane(permits, l))
  <2> TAKE l \in Lanes
  <2>1. IsFiniteSet(OfLane(permits, l)) /\ IsFiniteSet(OfLane(permits', l))
    BY <1>1, <1>2, FS_Subset DEF IInv, OfLane
  <2>2. CASE l = p.lane
    <3>1. OfLane(permits', l) = OfLane(permits, l) \ {p} /\ p \in OfLane(permits, l)
      BY <1>1, <2>2 DEF OfLane
    <3> QED
      BY <2>1, <2>2, <3>1, FS_RemoveElement, FS_CardinalityType
  <2>3. CASE l # p.lane
    <3>1. OfLane(permits', l) = OfLane(permits, l)
      BY <1>1, <2>3 DEF OfLane
    <3> QED
      BY <2>1, <2>3, <3>1, FS_CardinalityType
  <2> QED
    BY <2>2, <2>3
<1>4. /\ usage'.rows = usage.rows - 1
      /\ usage'.lanes = [usage.lanes EXCEPT ![p.lane] = @ - 1]
  BY <1>1 DEF Refund
<1>5. RowsExact'
  BY <1>1, <1>2, <1>3, <1>4 DEF IInv, TypeOK, RowsExact
<1>6. TypeOK'
  <2>1. usage'.rows \in Nat
    BY <1>2, <1>5, FS_CardinalityType DEF RowsExact
  <2>2. usage'.lanes \in [Lanes -> Nat]
    BY <1>1, <1>3, <1>4, <1>5 DEF IInv, TypeOK, RowsExact
  <2> QED
    BY <1>1, <2>1, <2>2 DEF IInv, TypeOK
<1>7. ActiveExact'
  BY <1>1 DEF IInv, ActiveExact, IdsOf
<1>8. RowsWithinLimit'
  BY <1>4, AdmissionAssumption DEF IInv, TypeOK, RowsWithinLimit
<1>9. BytesCounted'
  BY RetireCounts
<1> QED
  BY <1>2, <1>5, <1>6, <1>7, <1>8, <1>9 DEF IInv

\* Nothing is in the table at the start.
LEMMA EmptyAtFirst == Init => IInv
<1> SUFFICES ASSUME Init PROVE IInv
  OBVIOUS
<1>1. Cardinality({}) = 0 /\ IsFiniteSet({})
  BY FS_EmptySet
<1>2. \A l \in Lanes : OfLane(permits, l) = {}
  BY DEF Init, OfLane
<1>3. usage.rows = 0 /\ usage.lanes = [l \in Lanes |-> 0]
  BY DEF Init, NoUsage
<1>4. TypeOK /\ ActiveExact
  BY <1>3 DEF Init, TypeOK, ActiveExact, IdsOf
<1>5. RowsExact /\ RowsWithinLimit
  BY <1>1, <1>2, <1>3, AdmissionAssumption
     DEF Init, RowsExact, RowsWithinLimit
<1>6. BytesCounted
  BY NothingCounted DEF Init, NoUsage, BytesCounted
<1> QED
  BY <1>1, <1>4, <1>5, <1>6 DEF Init, IInv

LEMMA NothingChanges == IInv /\ UNCHANGED vars => IInv'
BY DEF vars, IInv, TypeOK, ActiveExact, RowsExact, RowsWithinLimit,
       BytesCounted, OfLane, IdsOf

LEMMA Inductive == Init /\ [][Next]_vars => []IInv
<1>1. Init => IInv
  BY EmptyAtFirst
<1>2. IInv /\ [Next]_vars => IInv'
  <2> SUFFICES ASSUME IInv, [Next]_vars PROVE IInv'
    OBVIOUS
  <2>1. ASSUME NEW specs \in BoundedSeq(Permit, MaxSpecs), Reserve(specs)
        PROVE  IInv'
    <3>1. PICK n \in 0 .. MaxSpecs : specs \in [1 .. n -> Permit]
      BY <2>1 DEF BoundedSeq, SeqOf
    <3>2. n \in Nat
      BY <3>1, AdmissionAssumption
    <3> QED
      BY <2>1, <3>1, <3>2, ReserveKeeps
  <2>2. ASSUME NEW p \in permits, Retire(p)
        PROVE  IInv'
    BY <2>2, RetireKeeps
  <2>3. CASE Restart
    BY <2>3, EmptyTable DEF Restart
  <2>4. CASE UNCHANGED vars
    BY <2>4, NothingChanges
  <2> QED
    BY <2>1, <2>2, <2>3, <2>4 DEF Next
<1> QED
  BY <1>1, <1>2, PTL

----------------------------------------------------------------------------
(* Results                                                                 *)

\* Every reachable state is well typed; in particular no row counter ever
\* underflows in Permit::drop.
THEOREM TypeCorrect == Spec => []TypeOK
<1>1. IInv => TypeOK
  BY DEF IInv
<1> QED
  BY <1>1, Inductive, PTL DEF Spec

\* The active ids are exactly those of the permits alive, each owned once: the
\* assertion "permit retired twice" of Permit::drop never fires.
THEOREM ActiveIsExact == Spec => []ActiveExact
<1>1. IInv => ActiveExact
  BY DEF IInv
<1> QED
  BY <1>1, Inductive, PTL DEF Spec

\* The row counters, in total and per lane, are exactly the permits alive.
THEOREM RowsAreExact == Spec => []RowsExact
<1>1. IInv => RowsExact
  BY DEF IInv
<1> QED
  BY <1>1, Inductive, PTL DEF Spec

\* In whatever order the permits alive are listed, they weigh the same: the
\* byte counter is their weight.
LEMMA CountIsExact ==
    ASSUME IInv, NEW s, Enumerates(s, permits)
    PROVE  usage.bytes = BatchBytes(s) /\ usage.bytes \in 0 .. ByteLimit
<1>1. PICK t \in Seq(Permit) : Enumerates(t, permits) /\ usage.bytes = BatchBytes(t)
  BY DEF IInv, BytesCounted
<1>2. /\ s \in Seq(Permit) /\ Distinct(s) /\ Distinct(t)
      /\ ToSet(s) = ToSet(t)
  BY <1>1, WiderSeq DEF IInv, TypeOK, Enumerates
<1>3. BatchBytes(s) = BatchBytes(t)
  BY <1>2, PermitsAreSized, BytesInAnyOrder
<1>4. usage.bytes \in Nat /\ usage.bytes <= ByteLimit
  BY <1>1, PermitsAreSized, BytesTyped DEF IInv, BytesCounted
<1>5. usage.bytes \in 0 .. ByteLimit
  BY <1>4, AdmissionAssumption
<1> QED BY <1>1, <1>3, <1>5

LEMMA BooksAreRight == IInv => ActiveExact /\ RowsExact /\ BytesExact /\ WithinLimits
<1> SUFFICES ASSUME IInv PROVE ActiveExact /\ RowsExact /\ BytesExact /\ WithinLimits
  OBVIOUS
<1>1. ActiveExact /\ RowsExact
  BY DEF IInv
<1>2. BytesExact /\ usage.bytes \in 0 .. ByteLimit
  BY SetInASequence, CountIsExact DEF IInv, BytesExact
<1>3. usage.rows \in 0 .. RowLimit
  BY AdmissionAssumption DEF IInv, TypeOK, RowsWithinLimit
<1> QED BY <1>1, <1>2, <1>3 DEF WithinLimits

\* Permits that are alive, listed as a request, fit the limits: they would be
\* admitted by an empty table.
LEMMA SomeFit ==
    ASSUME IInv, NEW n \in Nat, NEW specs \in [1 .. n -> Permit], DistinctIds(specs),
           ToSet(specs) \subseteq permits
    PROVE  n <= RowLimit /\ BatchBytes(specs) <= ByteLimit
<1>1. specs \in Seq(Permit) /\ Len(specs) = n /\ DOMAIN specs = 1 .. n
  OBVIOUS
<1>2. Distinct(specs)
  BY <1>1 DEF Distinct, DistinctIds
<1>3. PICK t \in Seq(Permit) : Enumerates(t, permits) /\ usage.bytes = BatchBytes(t)
  BY DEF IInv, BytesCounted
<1>4. BatchBytes(specs) <= BatchBytes(t)
  BY <1>1, <1>2, <1>3, PermitsAreSized, FewerBytes DEF Enumerates
<1>5. BatchBytes(specs) \in Nat /\ BatchBytes(t) \in Nat
  BY <1>1, PermitsAreSized, BytesTyped
<1>6. BatchBytes(specs) <= ByteLimit
  BY <1>3, <1>4, <1>5, AdmissionAssumption DEF IInv, BytesCounted
<1>7. n <= Cardinality(permits)
  BY <1>1, <1>2, DistinctFits DEF IInv
<1>8. Cardinality(permits) \in Nat /\ Cardinality(permits) <= RowLimit
  BY FS_CardinalityType DEF IInv, RowsExact, RowsWithinLimit
<1>9. n <= RowLimit
  BY <1>7, <1>8, AdmissionAssumption
<1> QED BY <1>6, <1>9

\* The byte counter is exactly the weight of the permits alive: no byte stays
\* reserved after its permit, none is given back twice.
THEOREM BytesAreExact == Spec => []BytesExact
<1>1. IInv => BytesExact
  BY BooksAreRight
<1> QED
  BY <1>1, Inductive, PTL DEF Spec

\* No request, race or retry ever gets more rows in than max_queue_rows, nor
\* more bytes than max_queue_bytes.
THEOREM UsageStaysWithinLimits == Spec => []WithinLimits
<1>1. IInv => WithinLimits
  BY BooksAreRight
<1> QED
  BY <1>1, Inductive, PTL DEF Spec
=============================================================================

--------------------------- MODULE SelectionProofs ---------------------------
(* What Among returns, the facts about the elements of a sequence that the    *)
(* proofs of the components cite, and induction.                              *)
EXTENDS Selection, SequencesExt, SequenceTheorems, FiniteSetTheorems,
        WellFoundedInduction, TLAPS

\* Numbers that grow along the sequence.
Ascending(s) == \A i, j \in 1 .. Len(s) : i < j => s[i] < s[j]

-----------------------------------------------------------------------------
(* Elements.                                                                 *)

LEMMA Elements ==
    ASSUME NEW X, NEW s \in Seq(X)
    PROVE  /\ ToSet(s) \subseteq X
           /\ \A x : x \in ToSet(s) <=> \E i \in 1 .. Len(s) : s[i] = x
<1>1. DOMAIN s = 1 .. Len(s) /\ \A i \in 1 .. Len(s) : s[i] \in X
  BY LenProperties, ElementOfSeq
<1> QED BY <1>1 DEF ToSet

LEMMA ElementsOfFew ==
    /\ ToSet(<<>>) = {} /\ Ascending(<<>>)
    /\ \A x : ToSet(<<x>>) = {x} /\ Ascending(<<x>>)
<1>1. \A x : DOMAIN <<x>> = 1 .. 1 /\ <<x>>[1] = x /\ Len(<<x>>) = 1
  OBVIOUS
<1>2. \A x : ToSet(<<x>>) = {x} /\ Ascending(<<x>>)
  <2> TAKE x
  <2>1. \A i \in 1 .. 1 : i = 1
    OBVIOUS
  <2>2. ToSet(<<x>>) = {x}
    BY <1>1, <2>1 DEF ToSet
  <2>3. Ascending(<<x>>)
    BY <1>1 DEF Ascending
  <2> QED BY <2>2, <2>3
<1> QED BY <1>2 DEF ToSet, Ascending

\* Joining two sequences.
LEMMA Joined ==
    ASSUME NEW X, NEW s \in Seq(X), NEW t \in Seq(X)
    PROVE  /\ s \o t \in Seq(X)
           /\ ToSet(s \o t) = ToSet(s) \cup ToSet(t)
<1> DEFINE u == s \o t
           m == Len(s)
           n == Len(t)
<1>1. /\ u \in Seq(X) /\ Len(u) = m + n
      /\ \A i \in 1 .. m + n : u[i] = IF i <= m THEN s[i] ELSE t[i - m]
      /\ m \in Nat /\ n \in Nat
  BY ConcatProperties, LenProperties
<1>2. \A x : x \in ToSet(u) <=> \E i \in 1 .. m + n : u[i] = x
  <2>1. \A x : x \in ToSet(u) <=> \E i \in 1 .. Len(u) : u[i] = x
    BY <1>1, Elements
  <2> QED BY <1>1, <2>1
<1>3. \A x : x \in ToSet(s) <=> \E i \in 1 .. m : s[i] = x
  BY Elements
<1>4. \A x : x \in ToSet(t) <=> \E i \in 1 .. n : t[i] = x
  BY Elements
<1> HIDE DEF u, m, n
<1>5. \A i \in 1 .. m : i \in 1 .. m + n /\ u[i] = s[i]
  BY <1>1
<1>6. \A i \in 1 .. n : i + m \in 1 .. m + n /\ u[i + m] = t[i]
  <2> TAKE i \in 1 .. n
  <2>1. i + m \in 1 .. m + n /\ ~(i + m <= m) /\ (i + m) - m = i
    BY <1>1
  <2> QED BY <1>1, <2>1
<1>7. \A i \in 1 .. m + n : i \in 1 .. m \/ i - m \in 1 .. n
  BY <1>1
<1>8. \A i \in 1 .. m + n : u[i] \in ToSet(s) \cup ToSet(t)
  BY <1>1, <1>3, <1>4, <1>7
<1>9. ToSet(u) = ToSet(s) \cup ToSet(t)
  BY <1>2, <1>3, <1>4, <1>5, <1>6, <1>8
<1> QED BY <1>1, <1>9 DEF u

\* A longer sequence is ascending when both parts are, the first below the second.
LEMMA JoinedAscending ==
    ASSUME NEW s \in Seq(Nat), NEW t \in Seq(Nat)
    PROVE  Ascending(s \o t) <=>
             /\ Ascending(s) /\ Ascending(t)
             /\ \A x \in ToSet(s), y \in ToSet(t) : x < y
<1> DEFINE u == s \o t
           m == Len(s)
           n == Len(t)
<1>1. /\ Len(u) = m + n
      /\ \A i \in 1 .. m + n : u[i] = IF i <= m THEN s[i] ELSE t[i - m]
      /\ m \in Nat /\ n \in Nat
  BY ConcatProperties, LenProperties
<1>2. \A x : x \in ToSet(s) <=> \E i \in 1 .. m : s[i] = x
  BY Elements
<1>3. \A x : x \in ToSet(t) <=> \E i \in 1 .. n : t[i] = x
  BY Elements
<1>4. Ascending(s) <=> \A i, j \in 1 .. m : i < j => s[i] < s[j]
  BY DEF Ascending
<1>5. Ascending(t) <=> \A i, j \in 1 .. n : i < j => t[i] < t[j]
  BY DEF Ascending
<1>6. Ascending(u) <=> \A i, j \in 1 .. m + n : i < j => u[i] < u[j]
  BY <1>1 DEF Ascending
<1> HIDE DEF u, m, n
<1>7. \A i \in 1 .. m : i \in 1 .. m + n /\ u[i] = s[i]
  BY <1>1
<1>8. \A i \in 1 .. n : i + m \in 1 .. m + n /\ u[i + m] = t[i]
  <2> TAKE i \in 1 .. n
  <2>1. i + m \in 1 .. m + n /\ ~(i + m <= m) /\ (i + m) - m = i
    BY <1>1
  <2> QED BY <1>1, <2>1
<1>9. ASSUME Ascending(u)
      PROVE  /\ Ascending(s) /\ Ascending(t)
             /\ \A x \in ToSet(s), y \in ToSet(t) : x < y
  <2>1. Ascending(s)
    BY <1>4, <1>6, <1>7, <1>9
  <2>2. ASSUME NEW i \in 1 .. n, NEW j \in 1 .. n, i < j PROVE t[i] < t[j]
    <3>1. i + m < j + m
      BY <1>1, <2>2
    <3> QED BY <1>6, <1>8, <1>9, <3>1
  <2>3. ASSUME NEW x \in ToSet(s), NEW y \in ToSet(t) PROVE x < y
    <3>1. PICK i \in 1 .. m : s[i] = x
      BY <1>2
    <3>2. PICK j \in 1 .. n : t[j] = y
      BY <1>3
    <3>3. i < j + m
      BY <1>1
    <3> QED BY <1>6, <1>7, <1>8, <1>9, <3>1, <3>2, <3>3
  <2> QED BY <1>5, <2>1, <2>2, <2>3
<1>10. ASSUME Ascending(s), Ascending(t), \A x \in ToSet(s), y \in ToSet(t) : x < y
       PROVE  Ascending(u)
  <2> SUFFICES ASSUME NEW i \in 1 .. m + n, NEW j \in 1 .. m + n, i < j
               PROVE  u[i] < u[j]
    BY <1>6
  <2>1. CASE j <= m
    <3>1. i \in 1 .. m /\ j \in 1 .. m
      BY <1>1, <2>1
    <3> QED BY <1>4, <1>7, <1>10, <3>1
  <2>2. CASE i > m
    <3>1. i - m \in 1 .. n /\ j - m \in 1 .. n /\ i - m < j - m
      BY <1>1, <2>2
    <3>2. u[i] = t[i - m] /\ u[j] = t[j - m]
      BY <1>1, <2>2
    <3> QED BY <1>5, <1>10, <3>1, <3>2
  <2>3. CASE i <= m /\ ~(j <= m)
    <3>1. i \in 1 .. m /\ j - m \in 1 .. n
      BY <1>1, <2>3
    <3>2. u[i] = s[i] /\ u[j] = t[j - m]
      BY <1>1, <2>3
    <3> QED BY <1>2, <1>3, <1>10, <3>1, <3>2
  <2> QED BY <1>1, <2>1, <2>2, <2>3
<1>11. Ascending(u) <=> /\ Ascending(s) /\ Ascending(t)
                        /\ \A x \in ToSet(s), y \in ToSet(t) : x < y
  BY <1>9, <1>10
<1> QED BY <1>11 DEF u

\* Putting one behind, and taking the first away.
LEMMA Appended ==
    ASSUME NEW X, NEW s \in Seq(X), NEW x \in X
    PROVE  /\ Append(s, x) \in Seq(X)
           /\ ToSet(Append(s, x)) = ToSet(s) \cup {x}
<1> DEFINE y == <<x>>
<1>1. Append(s, x) = s \o y /\ y \in Seq(X)
  BY AppendIsConcat
<1>2. ToSet(y) = {x}
  BY ElementsOfFew
<1> HIDE DEF y
<1>3. s \o y \in Seq(X) /\ ToSet(s \o y) = ToSet(s) \cup ToSet(y)
  BY <1>1, Joined
<1>4. ToSet(Append(s, x)) = ToSet(s) \cup {x}
  BY <1>1, <1>2, <1>3
<1> QED BY <1>1, <1>3, <1>4 DEF y

LEMMA HeadJoinsTail ==
    ASSUME NEW X, NEW s \in Seq(X), s # <<>>
    PROVE  s = <<Head(s)>> \o Tail(s)
<1>1. Head(s) \in X /\ Tail(s) \in Seq(X) /\ <<Head(s)>> \in Seq(X)
  BY HeadTailProperties
<1>2. s = <<Head(s)>> \o Tail(s)
  <2> DEFINE u == <<Head(s)>> \o Tail(s)
  <2>1. Len(s) \in Nat \ {0} /\ Head(s) = s[1]
    BY EmptySeq
  <2>2. Len(Tail(s)) = Len(s) - 1 /\ \A i \in 1 .. Len(Tail(s)) : Tail(s)[i] = s[i + 1]
    BY HeadTailProperties
  <2>3. /\ u \in Seq(X) /\ Len(u) = 1 + Len(Tail(s))
        /\ \A i \in 1 .. 1 + Len(Tail(s)) :
              u[i] = IF i <= 1 THEN <<Head(s)>>[i] ELSE Tail(s)[i - 1]
    BY <1>1, ConcatProperties
  <2> HIDE DEF u
  <2>4. \A i \in 1 .. Len(s) : s[i] = u[i]
    <3> TAKE i \in 1 .. Len(s)
    <3>1. CASE i = 1
      <4>1. u[i] = <<Head(s)>>[1]
        BY <2>1, <2>2, <2>3, <3>1
      <4> QED BY <2>1, <3>1, <4>1
    <3>2. CASE i # 1
      <4>1. i - 1 \in 1 .. Len(Tail(s)) /\ ~(i <= 1) /\ (i - 1) + 1 = i
        BY <2>1, <2>2, <3>2
      <4> QED BY <2>1, <2>2, <2>3, <4>1
    <3> QED BY <3>1, <3>2
  <2>5. Len(s) = Len(u)
    BY <2>1, <2>2, <2>3
  <2>6. s = u
    BY <2>3, <2>4, <2>5, SeqEqual
  <2> QED BY <2>6 DEF u
<1> QED BY <1>2

LEMMA HeadAndTail ==
    ASSUME NEW X, NEW s \in Seq(X), s # <<>>
    PROVE  /\ Head(s) \in X /\ Tail(s) \in Seq(X)
           /\ ToSet(s) = {Head(s)} \cup ToSet(Tail(s))
<1> DEFINE h == <<Head(s)>>
           r == Tail(s)
<1>1. Head(s) \in X /\ h \in Seq(X) /\ r \in Seq(X)
  BY HeadTailProperties
<1>2. s = h \o r
  BY HeadJoinsTail
<1>3. ToSet(h) = {Head(s)}
  BY ElementsOfFew
<1> HIDE DEF h, r
<1>4. ToSet(s) = ToSet(h) \cup ToSet(r)
  BY <1>1, <1>2, Joined
<1> QED BY <1>1, <1>3, <1>4 DEF r

LEMMA FirstAndRest ==
    ASSUME NEW X, NEW x \in X, NEW s \in Seq(X)
    PROVE  /\ Head(<<x>> \o s) = x /\ Tail(<<x>> \o s) = s
           /\ <<x>> \o s # <<>> /\ <<x>> \o s \in Seq(X)
<1> DEFINE u == <<x>> \o s
           n == Len(s)
<1>1. /\ u \in Seq(X) /\ Len(u) = 1 + n /\ n \in Nat
      /\ \A i \in 1 .. 1 + n : u[i] = IF i <= 1 THEN <<x>>[i] ELSE s[i - 1]
  <2>1. <<x>> \in Seq(X) /\ Len(<<x>>) = 1
    OBVIOUS
  <2> QED BY <2>1, ConcatProperties, LenProperties
<1> HIDE DEF u, n
<1>2. u # <<>> /\ u[1] = x
  <2>1. 1 \in 1 .. 1 + n /\ <<x>>[1] = x
    BY <1>1
  <2> QED BY <1>1, <2>1, EmptySeq
<1>3. /\ Head(u) = x /\ Tail(u) \in Seq(X) /\ Len(Tail(u)) = n
      /\ \A i \in 1 .. n : Tail(u)[i] = u[i + 1]
  BY <1>1, <1>2, HeadTailProperties
<1>4. \A i \in 1 .. n : u[i + 1] = s[i]
  BY <1>1
<1>5. Tail(u) = s
  BY <1>1, <1>3, <1>4, SeqEqual DEF n
<1> QED BY <1>1, <1>2, <1>3, <1>5 DEF u

-----------------------------------------------------------------------------
(* Parts of sequences.                                                       *)

LEMMA Cut ==
    ASSUME NEW S, NEW s \in Seq(S), NEW n \in 0 .. Len(s)
    PROVE  /\ SubSeq(s, 1, n) \in Seq(S) /\ SubSeq(s, n + 1, Len(s)) \in Seq(S)
           /\ SubSeq(s, 1, n) \o SubSeq(s, n + 1, Len(s)) = s
           /\ Len(SubSeq(s, 1, n)) = n
<1>1. \A i \in 1 .. Len(s) : s[i] \in S
  BY ElementOfSeq
<1>2. SubSeq(s, 1, n) \in Seq(S) /\ Len(SubSeq(s, 1, n)) = n
  <2>1. \A i \in 1 .. n : s[i] \in S
    BY <1>1
  <2> QED BY <2>1, SubSeqProperties
<1>3. SubSeq(s, n + 1, Len(s)) \in Seq(S)
  <2>1. \A i \in n + 1 .. Len(s) : s[i] \in S
    BY <1>1
  <2>2. Len(s) \in Int /\ n + 1 \in Int
    BY LenProperties
  <2> QED BY <2>1, <2>2, SubSeqProperties
<1>4. SubSeq(s, 1, n) \o SubSeq(s, n + 1, Len(s)) = SubSeq(s, 1, Len(s))
  <2>1. 1 \in 1 .. Len(s) + 1 /\ n \in 1 - 1 .. Len(s) /\ Len(s) \in n .. Len(s)
    BY LenProperties
  <2> QED BY <2>1, ConcatAdjacentSubSeq
<1> QED BY <1>2, <1>3, <1>4, SubSeqFull

LEMMA JoinedAppended ==
    ASSUME NEW X, NEW s \in Seq(X), NEW t \in Seq(X), NEW x \in X
    PROVE  s \o Append(t, x) = (s \o t) \o <<x>>
<1> DEFINE one == <<x>>
<1>1. Append(t, x) = t \o one /\ one \in Seq(X)
  BY AppendIsConcat
<1> HIDE DEF one
<1>2. s \o (t \o one) = (s \o t) \o one
  BY <1>1, ConcatAssociative
<1> QED BY <1>1, <1>2 DEF one

Distinct(s) == \A i, j \in 1 .. Len(s) : s[i] = s[j] => i = j

LEMMA AscendingDistinct ==
    ASSUME NEW s \in Seq(Nat), Ascending(s)
    PROVE  Distinct(s)
<1> SUFFICES ASSUME NEW i \in 1 .. Len(s), NEW j \in 1 .. Len(s), i < j
             PROVE  s[i] # s[j]
  BY DEF Distinct
<1>1. s[i] < s[j] /\ s[i] \in Nat /\ s[j] \in Nat
  BY ElementOfSeq DEF Ascending
<1> QED BY <1>1

LEMMA JoinedDistinct ==
    ASSUME NEW X, NEW s \in Seq(X), NEW t \in Seq(X), Distinct(s), Distinct(t),
           ToSet(s) \cap ToSet(t) = {}
    PROVE  Distinct(s \o t)
<1> DEFINE u == s \o t
           m == Len(s)
           n == Len(t)
<1>1. /\ Len(u) = m + n /\ m \in Nat /\ n \in Nat
      /\ \A i \in 1 .. m + n : u[i] = IF i <= m THEN s[i] ELSE t[i - m]
  BY ConcatProperties, LenProperties
<1>2. /\ \A i \in 1 .. m : s[i] \in ToSet(s)
      /\ \A i \in 1 .. n : t[i] \in ToSet(t)
  BY Elements
<1>3. /\ \A i, j \in 1 .. m : s[i] = s[j] => i = j
      /\ \A i, j \in 1 .. n : t[i] = t[j] => i = j
  BY DEF Distinct
<1> HIDE DEF u, m, n
<1>4. ASSUME NEW i \in 1 .. Len(u), NEW j \in 1 .. Len(u), i < j
      PROVE  u[i] # u[j]
  <2>1. i \in 1 .. m + n /\ j \in 1 .. m + n
    BY <1>1
  <2>2. CASE j <= m
    <3>1. i \in 1 .. m /\ j \in 1 .. m /\ u[i] = s[i] /\ u[j] = s[j] /\ i # j
      BY <1>1, <1>4, <2>1, <2>2
    <3> QED BY <1>3, <3>1
  <2>3. CASE j > m /\ i <= m
    <3>1. i \in 1 .. m /\ j - m \in 1 .. n /\ u[i] = s[i] /\ u[j] = t[j - m]
      BY <1>1, <1>4, <2>1, <2>3
    <3> QED BY <1>2, <3>1
  <2>4. CASE i > m
    <3> DEFINE x == i - m
               y == j - m
    <3>1. x \in 1 .. n /\ y \in 1 .. n /\ u[i] = t[x] /\ u[j] = t[y] /\ x # y
      BY <1>1, <1>4, <2>1, <2>4
    <3> HIDE DEF x, y
    <3> QED BY <1>3, <3>1
  <2> QED BY <1>1, <2>1, <2>2, <2>3, <2>4
<1>5. \A i, j \in 1 .. Len(u) : i < j \/ j < i \/ i = j
  BY <1>1
<1> QED BY <1>4, <1>5 DEF Distinct, u

-----------------------------------------------------------------------------
(* Induction.  A theorem of the library about well-founded relations gives    *)
(* every set of numbers a least element; a statement about all numbers, and   *)
(* the value of a recursive function, follow from the absence of a least      *)
(* counterexample.                                                            *)

LEMMA LeastNumber ==
    ASSUME NEW T \in SUBSET Nat, T # {}
    PROVE  \E n \in T : \A m \in T : n <= m
<1> DEFINE R == OpToRel(<,Nat)
<1>1. IsWellFoundedOn(R, Nat)
  BY NatLessThanWellFounded
<1>2. \A x, y \in Nat : <<y, x>> \in R <=> y < x
  BY DEF OpToRel
<1> HIDE DEF R
<1>3. PICK x \in T : \A y \in T : ~ (<<y, x>> \in R)
  BY <1>1, WFMin
<1>4. \A y \in T : x <= y
  <2> TAKE y \in T
  <2>1. x \in Nat /\ y \in Nat /\ ~(y < x)
    BY <1>2, <1>3
  <2> QED BY <2>1
<1> QED BY <1>4

\* A set of numbers with 0 and with the successor of each of its elements.
LEMMA AllNumbers ==
    ASSUME NEW T \in SUBSET Nat, 0 \in T, \A n \in T : n + 1 \in T
    PROVE  T = Nat
<1> SUFFICES ASSUME T # Nat PROVE FALSE
  OBVIOUS
<1> DEFINE rest == Nat \ T
<1>1. PICK n \in rest : \A m \in rest : n <= m
  BY LeastNumber
<1>2. n \in Nat /\ n # 0 /\ n - 1 \in Nat /\ n - 1 \notin rest
  BY <1>1
<1>3. (n - 1) + 1 \in T
  BY <1>2
<1> QED BY <1>1, <1>2, <1>3

\* A set of sequences with the empty one and with each of its own made longer.
LEMMA AllSequences ==
    ASSUME NEW X, NEW T \in SUBSET Seq(X), <<>> \in T,
           \A s \in T, e \in X : Append(s, e) \in T
    PROVE  T = Seq(X)
<1> DEFINE N == {n \in Nat : \A s \in Seq(X) : Len(s) = n => s \in T}
<1>1. 0 \in N
  BY EmptySeq
<1>2. ASSUME NEW n \in N
      PROVE  n + 1 \in N
  <2> SUFFICES ASSUME NEW s \in Seq(X), Len(s) = n + 1
               PROVE  s \in T
    OBVIOUS
  <2>1. s # <<>>
    BY EmptySeq
  <2>2. PICK t \in Seq(X), e \in X : s = Append(t, e)
    BY <2>1, SequenceEmptyOrAppend
  <2>3. Len(s) = Len(t) + 1 /\ Len(t) \in Nat
    BY <2>2, AppendProperties, LenProperties
  <2>4. t \in T
    BY <2>3
  <2> QED BY <2>2, <2>4
<1>3. N = Nat
  <2> HIDE DEF N
  <2>1. N \in SUBSET Nat
    BY DEF N
  <2> QED BY <1>1, <1>2, <2>1, AllNumbers
<1> QED BY <1>3, LenProperties

-----------------------------------------------------------------------------
(* The rules Among obeys: nothing of nothing, and one element more.           *)

\* The selections from the first 0 .. k elements of s.
Selections(f, k, s, S) ==
    /\ f = [n \in 0 .. k |-> f[n]]
    /\ f[0] = <<>>
    /\ \A n \in 1 .. k :
         f[n] = IF s[n] \in S THEN Append(f[n - 1], s[n]) ELSE f[n - 1]

LEMMA OneSelectionMore ==
    ASSUME NEW s, NEW S, NEW k \in Nat, NEW f, Selections(f, k, s, S)
    PROVE  \E g : Selections(g, k + 1, s, S)
<1> DEFINE next == IF s[k + 1] \in S THEN Append(f[k], s[k + 1]) ELSE f[k]
           g == [n \in 0 .. k + 1 |-> IF n = k + 1 THEN next ELSE f[n]]
<1>1. \A n \in 0 .. k : n \in 0 .. k + 1 /\ n # k + 1
  OBVIOUS
<1>2. k + 1 \in 0 .. k + 1 /\ 0 \in 0 .. k /\ k \in 0 .. k
  OBVIOUS
<1>3. /\ \A n \in 0 .. k : g[n] = f[n]
      /\ g[k + 1] = next
      /\ g = [n \in 0 .. k + 1 |-> g[n]]
  BY <1>1, <1>2
<1> HIDE DEF g, next
<1>4. ASSUME NEW n \in 1 .. k + 1
      PROVE  g[n] = IF s[n] \in S THEN Append(g[n - 1], s[n]) ELSE g[n - 1]
  <2>1. CASE n = k + 1
    <3>1. n - 1 = k
      BY <2>1
    <3>2. g[n - 1] = f[k]
      BY <1>2, <1>3, <3>1
    <3>3. g[n] = IF s[n] \in S THEN Append(f[k], s[n]) ELSE f[k]
      BY <1>3, <2>1 DEF next
    <3> QED BY <3>2, <3>3
  <2>2. CASE n # k + 1
    <3>1. n \in 1 .. k /\ n \in 0 .. k /\ n - 1 \in 0 .. k
      BY <2>2
    <3>2. g[n] = f[n] /\ g[n - 1] = f[n - 1]
      BY <1>3, <3>1
    <3>3. f[n] = IF s[n] \in S THEN Append(f[n - 1], s[n]) ELSE f[n - 1]
      BY <3>1 DEF Selections
    <3> QED BY <3>2, <3>3
  <2> QED BY <2>1, <2>2
<1>5. g[0] = <<>>
  BY <1>2, <1>3 DEF Selections
<1>6. Selections(g, k + 1, s, S)
  BY <1>3, <1>4, <1>5 DEF Selections
<1> QED BY <1>6

LEMMA AmongIsSelection ==
    ASSUME NEW s, Len(s) \in Nat, NEW S
    PROVE  \E f : Selections(f, Len(s), s, S) /\ Among(s, S) = f[Len(s)]
<1> DEFINE m == Len(s)
           T == {k \in Nat : \E f : Selections(f, k, s, S)}
           Body(f) == [n \in 0 .. m |->
                         IF n = 0 THEN <<>>
                         ELSE IF s[n] \in S THEN Append(f[n - 1], s[n]) ELSE f[n - 1]]
           kept == CHOOSE f : f = Body(f)
<1>1. 0 \in T
  <2>1. Selections([n \in 0 .. 0 |-> <<>>], 0, s, S)
    BY DEF Selections
  <2> QED BY <2>1
<1>2. \A k \in T : k + 1 \in T
  BY OneSelectionMore
<1>3. T = Nat
  <2> HIDE DEF T
  <2>1. T \in SUBSET Nat
    BY DEF T
  <2> QED BY <1>1, <1>2, <2>1, AllNumbers
<1>4. PICK f : Selections(f, m, s, S)
  BY <1>3
<1>5. f = Body(f)
  <2>1. f = [n \in 0 .. m |-> f[n]]
    BY <1>4 DEF Selections
  <2>2. \A n \in 0 .. m :
          f[n] = IF n = 0 THEN <<>>
                 ELSE IF s[n] \in S THEN Append(f[n - 1], s[n]) ELSE f[n - 1]
    <3> SUFFICES ASSUME NEW n \in 0 .. m, n # 0
                 PROVE  f[n] = IF s[n] \in S THEN Append(f[n - 1], s[n]) ELSE f[n - 1]
      BY <1>4 DEF Selections
    <3>1. n \in 1 .. m
      OBVIOUS
    <3> QED BY <1>4, <3>1 DEF Selections
  <2> QED BY <2>1, <2>2, Zenon
<1>6. kept = Body(kept)
  BY <1>5
<1>7. Among(s, S) = kept[m]
  BY DEF Among
<1> HIDE DEF kept
<1>8. \A n \in 0 .. m :
        kept[n] = IF n = 0 THEN <<>>
                  ELSE IF s[n] \in S THEN Append(kept[n - 1], s[n]) ELSE kept[n - 1]
  BY <1>6, Zenon
<1>9. kept = [n \in 0 .. m |-> kept[n]]
  BY <1>6, <1>8
<1>10. \A n \in 1 .. m : n \in 0 .. m /\ n # 0
  OBVIOUS
<1>11. kept[0] = <<>>
  BY <1>8
<1>12. \A n \in 1 .. m :
         kept[n] = IF s[n] \in S THEN Append(kept[n - 1], s[n]) ELSE kept[n - 1]
  BY <1>8, <1>10
<1>13. Selections(kept, m, s, S)
  BY <1>9, <1>11, <1>12 DEF Selections
<1> QED BY <1>7, <1>13

LEMMA SelectionsAgree ==
    ASSUME NEW s, NEW t, NEW S, NEW k \in Nat, NEW m \in Nat, NEW f, NEW g, k <= m,
           Selections(f, k, s, S), Selections(g, m, t, S), \A n \in 1 .. k : s[n] = t[n]
    PROVE  f[k] = g[k]
<1> DEFINE T == {n \in Nat : n <= k => f[n] = g[n]}
<1>1. 0 \in T
  BY DEF Selections
<1>2. ASSUME NEW n \in T
      PROVE  n + 1 \in T
  <2> SUFFICES ASSUME n + 1 <= k PROVE f[n + 1] = g[n + 1]
    OBVIOUS
  <2>1. n + 1 \in 1 .. k /\ n + 1 \in 1 .. m /\ (n + 1) - 1 = n /\ f[n] = g[n]
    OBVIOUS
  <2>2. f[n + 1] = IF s[n + 1] \in S THEN Append(f[n], s[n + 1]) ELSE f[n]
    BY <2>1 DEF Selections
  <2>3. g[n + 1] = IF t[n + 1] \in S THEN Append(g[n], t[n + 1]) ELSE g[n]
    BY <2>1 DEF Selections
  <2> QED BY <2>1, <2>2, <2>3
<1>3. T = Nat
  <2> HIDE DEF T
  <2>1. T \in SUBSET Nat
    BY DEF T
  <2> QED BY <1>1, <1>2, <2>1, AllNumbers
<1> QED BY <1>3

LEMMA AmongNone ==
    ASSUME NEW S
    PROVE  Among(<<>>, S) = <<>>
<1>1. Len(<<>>) = 0
  BY EmptySeq
<1> QED BY <1>1, AmongIsSelection DEF Selections

LEMMA AmongAppended ==
    ASSUME NEW X, NEW s \in Seq(X), NEW x \in X, NEW S
    PROVE  Among(Append(s, x), S) =
             IF x \in S THEN Append(Among(s, S), x) ELSE Among(s, S)
<1> DEFINE more == Append(s, x)
           k == Len(s)
<1>1. /\ Len(more) = k + 1 /\ k \in Nat /\ more[k + 1] = x
      /\ \A n \in 1 .. k : s[n] = more[n]
  BY AppendProperties, LenProperties
<1> HIDE DEF more
<1>2. PICK f : Selections(f, k, s, S) /\ Among(s, S) = f[k]
  BY <1>1, AmongIsSelection
<1>3. PICK g : Selections(g, Len(more), more, S) /\ Among(more, S) = g[Len(more)]
  BY <1>1, AmongIsSelection
<1> HIDE DEF k
<1>4. Selections(g, k + 1, more, S) /\ Among(more, S) = g[k + 1]
  BY <1>1, <1>3
<1>5. f[k] = g[k]
  <2>1. k + 1 \in Nat /\ k <= k + 1
    BY <1>1
  <2> QED BY <1>1, <1>2, <1>4, <2>1, SelectionsAgree
<1>6. g[k + 1] = IF more[k + 1] \in S THEN Append(g[k], more[k + 1]) ELSE g[k]
  <2>1. k + 1 \in 1 .. k + 1 /\ (k + 1) - 1 = k
    BY <1>1
  <2> QED BY <1>4, <2>1 DEF Selections
<1> QED BY <1>1, <1>2, <1>4, <1>5, <1>6 DEF more

-----------------------------------------------------------------------------
(* What it holds.                                                            *)

\* The elements of s that are in S, and no other.
LEMMA AmongElements ==
    ASSUME NEW X, NEW s \in Seq(X), NEW S
    PROVE  /\ Among(s, S) \in Seq(X)
           /\ ToSet(Among(s, S)) = ToSet(s) \cap S
<1> DEFINE T == {u \in Seq(X) : /\ Among(u, S) \in Seq(X)
                                /\ ToSet(Among(u, S)) = ToSet(u) \cap S}
<1>1. <<>> \in T
  BY AmongNone, EmptySeq, ElementsOfFew
<1>2. ASSUME NEW u \in T, NEW x \in X
      PROVE  Append(u, x) \in T
  <2> DEFINE a == Among(u, S)
             more == Append(u, x)
  <2>1. /\ u \in Seq(X) /\ a \in Seq(X) /\ ToSet(a) = ToSet(u) \cap S
        /\ more \in Seq(X) /\ ToSet(more) = ToSet(u) \cup {x}
    BY Appended
  <2>2. Among(more, S) = IF x \in S THEN Append(a, x) ELSE a
    BY <2>1, AmongAppended
  <2> HIDE DEF a, more
  <2>3. Append(a, x) \in Seq(X) /\ ToSet(Append(a, x)) = ToSet(a) \cup {x}
    BY <2>1, Appended
  <2>4. Among(more, S) \in Seq(X) /\ ToSet(Among(more, S)) = ToSet(more) \cap S
    <3>1. CASE x \in S
      BY <2>1, <2>2, <2>3, <3>1
    <3>2. CASE x \notin S
      BY <2>1, <2>2, <3>2
    <3> QED BY <3>1, <3>2
  <2> QED BY <2>1, <2>4 DEF more
<1>3. T = Seq(X)
  <2> HIDE DEF T
  <2>1. T \in SUBSET Seq(X)
    BY DEF T
  <2> QED BY <1>1, <1>2, <2>1, AllSequences
<1> QED BY <1>3

\* Only membership of the elements of s counts.
LEMMA AmongSame ==
    ASSUME NEW X, NEW s \in Seq(X), NEW S, NEW R,
           \A x \in ToSet(s) : x \in S <=> x \in R
    PROVE  Among(s, S) = Among(s, R)
<1> DEFINE T == {u \in Seq(X) : (\A x \in ToSet(u) : x \in S <=> x \in R)
                                  => Among(u, S) = Among(u, R)}
<1>1. <<>> \in T
  BY AmongNone, EmptySeq
<1>2. ASSUME NEW u \in T, NEW x \in X
      PROVE  Append(u, x) \in T
  <2> DEFINE more == Append(u, x)
  <2>1. u \in Seq(X) /\ more \in Seq(X) /\ ToSet(more) = ToSet(u) \cup {x}
    BY Appended
  <2>2. /\ Among(more, S) = IF x \in S THEN Append(Among(u, S), x) ELSE Among(u, S)
        /\ Among(more, R) = IF x \in R THEN Append(Among(u, R), x) ELSE Among(u, R)
    BY <2>1, AmongAppended
  <2> HIDE DEF more
  <2>3. ASSUME \A y \in ToSet(more) : y \in S <=> y \in R
        PROVE  Among(more, S) = Among(more, R)
    <3>1. Among(u, S) = Among(u, R) /\ (x \in S <=> x \in R)
      BY <2>1, <2>3
    <3> QED BY <2>2, <3>1
  <2> QED BY <2>1, <2>3 DEF more
<1>3. T = Seq(X)
  <2> HIDE DEF T
  <2>1. T \in SUBSET Seq(X)
    BY DEF T
  <2> QED BY <1>1, <1>2, <2>1, AllSequences
<1> QED BY <1>3

\* The last element of an ascending sequence is above all others.
LEMMA AppendedAscending ==
    ASSUME NEW s \in Seq(Nat), NEW x \in Nat
    PROVE  Ascending(Append(s, x)) <=> Ascending(s) /\ \A y \in ToSet(s) : y < x
<1> DEFINE one == <<x>>
<1>1. one \in Seq(Nat) /\ ToSet(one) = {x} /\ Ascending(one) /\ Append(s, x) = s \o one
  BY AppendIsConcat, ElementsOfFew
<1> HIDE DEF one
<1> QED BY <1>1, JoinedAscending

\* It keeps the order of numbers.
LEMMA AmongAscending ==
    ASSUME NEW s \in Seq(Nat), NEW S, Ascending(s)
    PROVE  Ascending(Among(s, S))
<1> DEFINE T == {u \in Seq(Nat) : Ascending(u) => Ascending(Among(u, S))}
<1>1. <<>> \in T
  BY AmongNone, EmptySeq
<1>2. ASSUME NEW u \in T, NEW x \in Nat
      PROVE  Append(u, x) \in T
  <2> DEFINE a == Among(u, S)
             more == Append(u, x)
  <2>1. /\ u \in Seq(Nat) /\ more \in Seq(Nat) /\ a \in Seq(Nat)
        /\ ToSet(a) \subseteq ToSet(u) /\ (Ascending(u) => Ascending(a))
    BY Appended, AmongElements
  <2>2. Among(more, S) = IF x \in S THEN Append(a, x) ELSE a
    BY <2>1, AmongAppended
  <2>3. Ascending(more) <=> Ascending(u) /\ \A y \in ToSet(u) : y < x
    BY <2>1, AppendedAscending
  <2> HIDE DEF a, more
  <2>4. Ascending(Append(a, x)) <=> Ascending(a) /\ \A y \in ToSet(a) : y < x
    BY <2>1, AppendedAscending
  <2>5. Ascending(more) => Ascending(Among(more, S))
    BY <2>1, <2>2, <2>3, <2>4
  <2> QED BY <2>1, <2>5 DEF more
<1>3. T = Seq(Nat)
  <2> HIDE DEF T
  <2>1. T \in SUBSET Seq(Nat)
    BY DEF T
  <2> QED BY <1>1, <1>2, <2>1, AllSequences
<1> QED BY <1>3

\* The parts of a sequence without repetitions have none, nor one in common.
LEMMA DistinctParts ==
    ASSUME NEW X, NEW s \in Seq(X), NEW t \in Seq(X), Distinct(s \o t)
    PROVE  /\ Distinct(s) /\ Distinct(t)
           /\ ToSet(s) \cap ToSet(t) = {}
<1> DEFINE u == s \o t
           m == Len(s)
           n == Len(t)
<1>1. /\ Len(u) = m + n /\ m \in Nat /\ n \in Nat
      /\ \A i \in 1 .. m + n : u[i] = IF i <= m THEN s[i] ELSE t[i - m]
  BY ConcatProperties, LenProperties
<1>2. /\ \A x : x \in ToSet(s) <=> \E i \in 1 .. m : s[i] = x
      /\ \A x : x \in ToSet(t) <=> \E i \in 1 .. n : t[i] = x
  BY Elements
<1>3. \A i, j \in 1 .. m + n : u[i] = u[j] => i = j
  BY <1>1 DEF Distinct
<1>4. /\ Distinct(s) <=> \A i, j \in 1 .. m : s[i] = s[j] => i = j
      /\ Distinct(t) <=> \A i, j \in 1 .. n : t[i] = t[j] => i = j
  BY DEF Distinct
<1> HIDE DEF u, m, n
<1>5. \A i \in 1 .. m : i \in 1 .. m + n /\ u[i] = s[i]
  BY <1>1
<1>6. \A i \in 1 .. n : i + m \in 1 .. m + n /\ u[i + m] = t[i]
  <2> TAKE i \in 1 .. n
  <2>1. i + m \in 1 .. m + n /\ ~(i + m <= m) /\ (i + m) - m = i
    BY <1>1
  <2> QED BY <1>1, <2>1
<1>7. Distinct(s)
  BY <1>3, <1>4, <1>5
<1>8. Distinct(t)
  <2> SUFFICES ASSUME NEW i \in 1 .. n, NEW j \in 1 .. n, t[i] = t[j] PROVE i = j
    BY <1>4
  <2>1. i + m = j + m
    BY <1>3, <1>6
  <2> QED BY <1>1, <2>1
<1>9. ASSUME NEW x \in ToSet(s), x \in ToSet(t) PROVE FALSE
  <2>1. PICK i \in 1 .. m : s[i] = x
    BY <1>2
  <2>2. PICK j \in 1 .. n : t[j] = x
    BY <1>2, <1>9
  <2>3. i = j + m
    BY <1>3, <1>5, <1>6, <2>1, <2>2
  <2> QED BY <1>1, <2>3
<1> QED BY <1>7, <1>8, <1>9

LEMMA AppendedDistinct ==
    ASSUME NEW X, NEW s \in Seq(X), NEW x \in X
    PROVE  Distinct(Append(s, x)) <=> Distinct(s) /\ x \notin ToSet(s)
<1> DEFINE one == <<x>>
<1>1. one \in Seq(X) /\ ToSet(one) = {x} /\ Append(s, x) = s \o one
  BY AppendIsConcat, ElementsOfFew
<1>2. Distinct(one)
  BY DEF Distinct
<1> HIDE DEF one
<1>3. ASSUME Distinct(s \o one) PROVE Distinct(s) /\ x \notin ToSet(s)
  BY <1>1, <1>3, DistinctParts
<1>4. ASSUME Distinct(s), x \notin ToSet(s) PROVE Distinct(s \o one)
  BY <1>1, <1>2, <1>4, JoinedDistinct
<1> QED BY <1>1, <1>3, <1>4

\* The next element joins the part of a sequence that was taken before.
LEMMA OneMore ==
    ASSUME NEW X, NEW s \in Seq(X), NEW n \in Nat, n < Len(s)
    PROVE  /\ SubSeq(s, 1, n) \in Seq(X) /\ s[n + 1] \in X
           /\ SubSeq(s, 1, n + 1) = Append(SubSeq(s, 1, n), s[n + 1])
           /\ ToSet(SubSeq(s, 1, n + 1)) = ToSet(SubSeq(s, 1, n)) \cup {s[n + 1]}
           /\ ToSet(SubSeq(s, 1, n + 1)) \subseteq ToSet(s)
           /\ Distinct(s) => s[n + 1] \notin ToSet(SubSeq(s, 1, n))
<1> DEFINE a == SubSeq(s, 1, n)
           m == n + 1
           x == s[m]
           b == SubSeq(s, 1, m)
<1>1. Len(s) \in Nat /\ m \in 1 .. Len(s) /\ n \in 0 .. Len(s) /\ 1 \in 1 .. Len(s)
      /\ m - 1 = n
  BY LenProperties
<1>2. a \in Seq(X) /\ x \in X
  BY <1>1, Cut, ElementOfSeq
<1>3. b = a \o <<x>>
  <2> HIDE DEF m
  <2>1. m \in 1 .. Len(s)
    BY <1>1
  <2>2. SubSeq(s, 1, m) = SubSeq(s, 1, m - 1) \o <<s[m]>>
    BY <1>1, <2>1, SubSeqRecursiveSecond
  <2> QED BY <1>1, <2>2
<1>4. ASSUME Distinct(s) PROVE x \notin ToSet(a)
  <2>1. \A k \in 1 .. n : a[k] = s[k]
    BY <1>1
  <2>2. Len(a) = n
    BY <1>1, Cut
  <2> HIDE DEF a, x
  <2>3. \A y \in ToSet(a) : \E k \in 1 .. n : s[k] = y
    BY <1>2, <2>1, <2>2, Elements
  <2>4. \A k \in 1 .. n : k \in 1 .. Len(s) /\ k # m
    BY <1>1
  <2> QED BY <1>1, <1>4, <2>3, <2>4 DEF Distinct, x
<1>5. ToSet(b) \subseteq ToSet(s)
  <2> DEFINE c == SubSeq(s, m + 1, Len(s))
  <2>1. b \in Seq(X) /\ c \in Seq(X) /\ b \o c = s
    <3>1. m \in 0 .. Len(s)
      BY <1>1
    <3> HIDE DEF m
    <3> QED BY <3>1, Cut
  <2> HIDE DEF b, c
  <2>2. ToSet(b \o c) = ToSet(b) \cup ToSet(c)
    BY <2>1, Joined
  <2> QED BY <2>1, <2>2
<1> HIDE DEF a, x, b
<1>6. b = Append(a, x)
  BY <1>2, <1>3, AppendIsConcat
<1>7. ToSet(Append(a, x)) = ToSet(a) \cup {x}
  BY <1>2, Appended
<1> QED BY <1>2, <1>4, <1>5, <1>6, <1>7 DEF a, b, x, m

LEMMA AmongDistinct ==
    ASSUME NEW X, NEW s \in Seq(X), NEW S, Distinct(s)
    PROVE  Distinct(Among(s, S))
<1> DEFINE T == {u \in Seq(X) : Distinct(u) => Distinct(Among(u, S))}
<1>1. <<>> \in T
  BY AmongNone, EmptySeq
<1>2. ASSUME NEW u \in T, NEW x \in X
      PROVE  Append(u, x) \in T
  <2> DEFINE a == Among(u, S)
             more == Append(u, x)
  <2>1. /\ u \in Seq(X) /\ more \in Seq(X) /\ a \in Seq(X)
        /\ ToSet(a) \subseteq ToSet(u) /\ (Distinct(u) => Distinct(a))
    BY Appended, AmongElements
  <2>2. Among(more, S) = IF x \in S THEN Append(a, x) ELSE a
    BY <2>1, AmongAppended
  <2>3. Distinct(more) <=> Distinct(u) /\ x \notin ToSet(u)
    BY <2>1, AppendedDistinct
  <2> HIDE DEF a, more
  <2>4. Distinct(Append(a, x)) <=> Distinct(a) /\ x \notin ToSet(a)
    BY <2>1, AppendedDistinct
  <2>5. Distinct(more) => Distinct(Among(more, S))
    BY <2>1, <2>2, <2>3, <2>4
  <2> QED BY <2>1, <2>5 DEF more
<1>3. T = Seq(X)
  <2> HIDE DEF T
  <2>1. T \in SUBSET Seq(X)
    BY DEF T
  <2> QED BY <1>1, <1>2, <2>1, AllSequences
<1> QED BY <1>3

-----------------------------------------------------------------------------
(* How it composes.                                                          *)

LEMMA AppendsBehind ==
    ASSUME NEW X, NEW s \in Seq(X), NEW t \in Seq(X), NEW x \in X
    PROVE  s \o Append(t, x) = Append(s \o t, x)
<1> DEFINE u == s \o t
<1>1. u \in Seq(X) /\ s \o Append(t, x) = u \o <<x>>
  BY Joined, JoinedAppended
<1> HIDE DEF u
<1>2. Append(u, x) = u \o <<x>>
  BY <1>1, AppendIsConcat
<1> QED BY <1>1, <1>2 DEF u

\* Two parts.
LEMMA AmongJoined ==
    ASSUME NEW X, NEW s \in Seq(X), NEW t \in Seq(X), NEW S
    PROVE  Among(s \o t, S) = Among(s, S) \o Among(t, S)
<1> DEFINE T == {u \in Seq(X) : Among(s \o u, S) = Among(s, S) \o Among(u, S)}
<1>1. <<>> \in T
  <2>1. Among(s, S) \in Seq(X)
    BY AmongElements
  <2>2. s \o <<>> = s /\ Among(s, S) \o <<>> = Among(s, S) /\ <<>> \in Seq(X)
    BY <2>1, ConcatEmptySeq
  <2> QED BY <2>2, AmongNone
<1>2. ASSUME NEW u \in T, NEW x \in X
      PROVE  Append(u, x) \in T
  <2> DEFINE a == Among(s, S)
             b == Among(u, S)
             both == s \o u
  <2>1. /\ u \in Seq(X) /\ both \in Seq(X) /\ Append(u, x) \in Seq(X)
        /\ a \in Seq(X) /\ b \in Seq(X) /\ Among(both, S) = a \o b
    BY Joined, Appended, AmongElements
  <2>2. /\ Among(Append(both, x), S) = IF x \in S THEN Append(Among(both, S), x)
                                       ELSE Among(both, S)
        /\ Among(Append(u, x), S) = IF x \in S THEN Append(b, x) ELSE b
    <3>1. \A w \in Seq(X) : Among(Append(w, x), S)
                              = IF x \in S THEN Append(Among(w, S), x) ELSE Among(w, S)
      BY AmongAppended
    <3> HIDE DEF both
    <3> QED BY <2>1, <3>1
  <2>3. s \o Append(u, x) = Append(both, x)
    BY <2>1, AppendsBehind
  <2> HIDE DEF a, b, both
  <2>4. a \o Append(b, x) = Append(a \o b, x)
    BY <2>1, AppendsBehind
  <2>5. Among(s \o Append(u, x), S) = a \o Among(Append(u, x), S)
    <3>1. CASE x \in S
      BY <2>1, <2>2, <2>3, <2>4, <3>1
    <3>2. CASE x \notin S
      BY <2>1, <2>2, <2>3, <3>2
    <3> QED BY <3>1, <3>2
  <2> QED BY <2>1, <2>5 DEF a
<1>3. T = Seq(X)
  <2> HIDE DEF T
  <2>1. T \in SUBSET Seq(X)
    BY DEF T
  <2> QED BY <1>1, <1>2, <2>1, AllSequences
<1> QED BY <1>3

\* A choice among what was chosen.
LEMMA AmongTwice ==
    ASSUME NEW X, NEW s \in Seq(X), NEW S, NEW R
    PROVE  Among(Among(s, S), R) = Among(s, S \cap R)
<1> DEFINE T == {u \in Seq(X) : Among(Among(u, S), R) = Among(u, S \cap R)}
<1>1. <<>> \in T
  BY AmongNone, EmptySeq
<1>2. ASSUME NEW u \in T, NEW x \in X
      PROVE  Append(u, x) \in T
  <2> DEFINE a == Among(u, S)
  <2>1. u \in Seq(X) /\ a \in Seq(X) /\ Append(u, x) \in Seq(X)
    BY Appended, AmongElements
  <2>2. Among(a, R) = Among(u, S \cap R)
    OBVIOUS
  <2>3. Among(Append(u, x), S) = IF x \in S THEN Append(a, x) ELSE a
    BY <2>1, AmongAppended
  <2>4. Among(Append(u, x), S \cap R) =
          IF x \in S \cap R THEN Append(Among(u, S \cap R), x) ELSE Among(u, S \cap R)
    BY <2>1, AmongAppended
  <2> HIDE DEF a
  <2>5. Among(Append(a, x), R) = IF x \in R THEN Append(Among(a, R), x) ELSE Among(a, R)
    BY <2>1, AmongAppended
  <2>6. Among(Among(Append(u, x), S), R) = Among(Append(u, x), S \cap R)
    <3> DEFINE more == Append(u, x)
               one == Among(more, S)
               both == Among(more, S \cap R)
    <3> HIDE DEF more, one, both
    <3>1. CASE x \in S
      <4>1. one = Append(a, x)
        BY <2>3, <3>1 DEF one, more
      <4>2. CASE x \in R
        BY <2>2, <2>4, <2>5, <3>1, <4>1, <4>2 DEF both, one, more
      <4>3. CASE x \notin R
        BY <2>2, <2>4, <2>5, <3>1, <4>1, <4>3 DEF both, one, more
      <4> QED BY <4>2, <4>3
    <3>2. CASE x \notin S
      BY <2>2, <2>3, <2>4, <3>2
    <3> QED BY <3>1, <3>2
  <2> QED BY <2>1, <2>6
<1>3. T = Seq(X)
  <2> HIDE DEF T
  <2>1. T \in SUBSET Seq(X)
    BY DEF T
  <2> QED BY <1>1, <1>2, <2>1, AllSequences
<1> QED BY <1>3

\* Everything, or nothing.
LEMMA AmongAll ==
    ASSUME NEW X, NEW s \in Seq(X)
    PROVE  Among(s, X) = s
<1> DEFINE T == {u \in Seq(X) : Among(u, X) = u}
<1>1. <<>> \in T
  BY AmongNone, EmptySeq
<1>2. ASSUME NEW u \in T, NEW x \in X
      PROVE  Append(u, x) \in T
  BY AmongAppended, Appended
<1>3. T = Seq(X)
  <2> HIDE DEF T
  <2>1. T \in SUBSET Seq(X)
    BY DEF T
  <2> QED BY <1>1, <1>2, <2>1, AllSequences
<1> QED BY <1>3

LEMMA AmongWhole ==
    ASSUME NEW X, NEW s \in Seq(X), NEW S, ToSet(s) \subseteq S
    PROVE  Among(s, S) = s
<1>1. ToSet(s) \subseteq X
  BY Elements
<1>2. Among(s, S) = Among(s, X)
  BY <1>1, AmongSame
<1> QED BY <1>2, AmongAll

LEMMA AmongOthers ==
    ASSUME NEW X, NEW s \in Seq(X), NEW S, ToSet(s) \cap S = {}
    PROVE  Among(s, S) = <<>>
<1> DEFINE a == Among(s, S)
<1>1. a \in Seq(X) /\ ToSet(a) = {}
  BY AmongElements
<1> HIDE DEF a
<1>2. a = <<>>
  <2> SUFFICES ASSUME a # <<>> PROVE FALSE
    OBVIOUS
  <2> QED BY <1>1, HeadAndTail
<1> QED BY <1>2 DEF a

\* A sequence without repetitions that has one element.
LEMMA OnlyOne ==
    ASSUME NEW X, NEW s \in Seq(X), NEW x \in X, Distinct(s), ToSet(s) = {x}
    PROVE  s = <<x>>
<1>1. Len(s) \in Nat /\ \A i \in 1 .. Len(s) : s[i] = x
  BY Elements, LenProperties
<1>2. Len(s) # 0
  <2>1. PICK i \in 1 .. Len(s) : s[i] = x
    BY Elements
  <2> QED BY <1>1, <2>1
<1>3. ~(Len(s) > 1)
  <2> SUFFICES ASSUME Len(s) > 1 PROVE FALSE
    OBVIOUS
  <2>1. 1 \in 1 .. Len(s) /\ 2 \in 1 .. Len(s)
    BY <1>1
  <2>2. s[1] = s[2]
    BY <1>1, <2>1
  <2>3. 1 = 2
    BY <2>1, <2>2 DEF Distinct
  <2> QED BY <2>3
<1>4. Len(s) = 1 /\ s[1] = x
  <2> DEFINE n == Len(s)
  <2>1. n \in Nat /\ n # 0 /\ ~(n > 1)
    BY <1>1, <1>2, <1>3
  <2>2. n = 1
    <3> HIDE DEF n
    <3> QED BY <2>1
  <2>3. 1 \in 1 .. n
    BY <2>2
  <2> QED BY <1>1, <2>2, <2>3
<1>5. <<x>> \in Seq(X) /\ Len(<<x>>) = 1 /\ <<x>>[1] = x
  OBVIOUS
<1> DEFINE one == <<x>>
<1>6. one \in Seq(X) /\ Len(one) = 1 /\ one[1] = x
  BY <1>5
<1> HIDE DEF one
<1>7. \A i \in 1 .. Len(s) : s[i] = one[i]
  BY <1>1, <1>4, <1>6
<1>8. s = one
  BY <1>4, <1>6, <1>7, SeqEqual
<1> QED BY <1>8 DEF one

\* As many elements as it is long.
LEMMA DistinctCount ==
    ASSUME NEW X, NEW s \in Seq(X), Distinct(s)
    PROVE  IsFiniteSet(ToSet(s)) /\ Cardinality(ToSet(s)) = Len(s)
<1> DEFINE n == Len(s)
<1>1. n \in Nat /\ DOMAIN s = 1 .. n /\ s \in [1 .. n -> X]
  BY LenProperties
<1>2. s \in Surjection(1 .. n, ToSet(s))
  BY <1>1 DEF Surjection, ToSet
<1>3. s \in Injection(1 .. n, ToSet(s))
  BY <1>1, <1>2 DEF Injection, IsInjective, Surjection, Distinct
<1>4. IsFiniteSet(1 .. n) /\ Cardinality(1 .. n) = n
  BY <1>1, FS_Interval
<1> QED BY <1>2, <1>3, <1>4, FS_Surjection

\* So it is no longer than a set it is taken from.
LEMMA DistinctFits ==
    ASSUME NEW X, NEW s \in Seq(X), Distinct(s), NEW S, IsFiniteSet(S), ToSet(s) \subseteq S
    PROVE  Len(s) <= Cardinality(S)
<1>1. IsFiniteSet(ToSet(s)) /\ Cardinality(ToSet(s)) = Len(s)
  BY DistinctCount
<1>2. Cardinality(ToSet(s)) <= Cardinality(S)
  BY FS_Subset
<1> QED BY <1>1, <1>2

LEMMA RestDistinct ==
    ASSUME NEW X, NEW s \in Seq(X), s # <<>>, Distinct(s)
    PROVE  Distinct(Tail(s)) /\ Head(s) \notin ToSet(Tail(s))
<1> DEFINE x == Head(s)
           one == <<x>>
           r == Tail(s)
<1>1. x \in X /\ r \in Seq(X) /\ s = one \o r /\ one \in Seq(X) /\ ToSet(one) = {x}
  BY HeadAndTail, HeadJoinsTail, ElementsOfFew
<1> HIDE DEF x, one, r
<1>2. Distinct(r) /\ ToSet(one) \cap ToSet(r) = {}
  BY <1>1, DistinctParts
<1> QED BY <1>1, <1>2 DEF x, r

\* An element with what is before it and what is behind.
LEMMA SplitAt ==
    ASSUME NEW X, NEW p \in Seq(X), NEW k \in 1 .. Len(p)
    PROVE  /\ SubSeq(p, 1, k - 1) \in Seq(X) /\ SubSeq(p, k + 1, Len(p)) \in Seq(X)
           /\ p[k] \in X
           /\ p = (SubSeq(p, 1, k - 1) \o <<p[k]>>) \o SubSeq(p, k + 1, Len(p))
<1> DEFINE a == SubSeq(p, 1, k - 1)
           b == SubSeq(p, k + 1, Len(p))
           u == SubSeq(p, 1, k)
           x == p[k]
           v == Append(a, x)
<1>0. /\ Len(p) \in Nat /\ k \in Nat /\ k - 1 \in 0 .. Len(p) /\ k \in 0 .. Len(p)
      /\ k - 1 \in Nat /\ k <= Len(p)
      /\ x \in X /\ \A n \in 1 .. Len(p) : p[n] \in X
  BY LenProperties, ElementOfSeq
<1>1. u \in Seq(X) /\ b \in Seq(X) /\ u \o b = p /\ Len(u) = k
  BY <1>0, Cut
<1>2. a \in Seq(X) /\ Len(a) = k - 1
  BY <1>0, Cut
<1>3. \A n \in 1 .. k : u[n] = p[n]
  <2>1. \A n \in 1 .. k : p[n] \in X
    BY <1>0
  <2>2. \A n \in 1 .. k - 1 + 1 : u[n] = p[1 + n - 1]
    BY <1>0, <2>1, SubSeqProperties
  <2>3. \A n \in 1 .. k : n \in 1 .. k - 1 + 1 /\ 1 + n - 1 = n
    BY <1>0
  <2> HIDE DEF u
  <2> QED BY <2>2, <2>3
<1>4. \A n \in 1 .. k - 1 : a[n] = p[n]
  <2> DEFINE m == k - 1
  <2>0. m \in Nat /\ m <= Len(p)
    BY <1>0
  <2>1. \A n \in 1 .. m : p[n] \in X
    BY <1>0
  <2> HIDE DEF m
  <2>2. \A n \in 1 .. m - 1 + 1 : SubSeq(p, 1, m)[n] = p[1 + n - 1]
    BY <1>0, <2>0, <2>1, SubSeqProperties
  <2>3. \A n \in 1 .. m : n \in 1 .. m - 1 + 1 /\ 1 + n - 1 = n
    BY <2>0
  <2> QED BY <2>2, <2>3 DEF m
<1> HIDE DEF a, b, u, x
<1>5. v \in Seq(X) /\ Len(v) = k /\ v[k] = x /\ \A n \in 1 .. k - 1 : v[n] = a[n]
  <2>1. /\ v \in Seq(X) /\ Len(v) = Len(a) + 1
        /\ \A n \in 1 .. Len(a) : v[n] = a[n] /\ v[Len(a) + 1] = x
    BY <1>0, <1>2, AppendProperties
  <2>2. v[Len(a) + 1] = x
    BY <1>0, <1>2, AppendProperties
  <2> HIDE DEF v
  <2> QED BY <1>0, <1>2, <2>1, <2>2
<1> HIDE DEF v
<1>6. \A n \in 1 .. k : u[n] = v[n]
  <2> TAKE n \in 1 .. k
  <2>1. CASE n = k
    BY <1>0, <1>3, <1>5, <2>1 DEF x
  <2>2. CASE n # k
    <3>1. n \in 1 .. k - 1
      BY <1>0, <2>2
    <3> QED BY <1>3, <1>4, <1>5, <3>1
  <2> QED BY <2>1, <2>2
<1>7. u = v
  BY <1>1, <1>5, <1>6, SeqEqual
<1>8. v = a \o <<x>>
  BY <1>0, <1>2, AppendIsConcat DEF v
<1> QED BY <1>0, <1>1, <1>2, <1>7, <1>8 DEF a, b, x

\* What is left of a sequence without one of its elements.
LEMMA ElementRemoved ==
    ASSUME NEW X, NEW p \in Seq(X), Distinct(p), NEW k \in 1 .. Len(p)
    PROVE  /\ RemoveAt(p, k) = Among(p, X \ {p[k]})
           /\ Len(RemoveAt(p, k)) <= Len(p)
<1> DEFINE a == SubSeq(p, 1, k - 1)
           b == SubSeq(p, k + 1, Len(p))
           x == p[k]
           one == <<x>>
           S == X \ {x}
           front == a \o one
<1>1. a \in Seq(X) /\ b \in Seq(X) /\ x \in X /\ p = front \o b /\ RemoveAt(p, k) = a \o b
  BY SplitAt DEF RemoveAt
<1> HIDE DEF a, b, x
<1>2. one \in Seq(X) /\ ToSet(one) = {x}
  BY <1>1, ElementsOfFew
<1> HIDE DEF one
<1>3. front \in Seq(X) /\ ToSet(front) = ToSet(a) \cup {x}
  BY <1>1, <1>2, Joined
<1>4. Distinct(front) /\ ToSet(front) \cap ToSet(b) = {}
  BY <1>1, <1>3, DistinctParts
<1>5. ToSet(a) \cap ToSet(one) = {}
  BY <1>1, <1>2, <1>4, DistinctParts
<1>6. /\ Among(front, S) = Among(a, S) \o Among(one, S)
  BY <1>1, <1>2, AmongJoined
<1> HIDE DEF front
<1>7. Among(p, S) = Among(front, S) \o Among(b, S)
  BY <1>1, <1>3, AmongJoined
<1>8. Among(a, S) = a
  <2>1. ToSet(a) \subseteq S
    BY <1>1, <1>2, <1>5, Elements
  <2> HIDE DEF S
  <2> QED BY <1>1, <2>1, AmongWhole
<1>9. Among(b, S) = b
  <2>1. ToSet(b) \subseteq S
    BY <1>1, <1>3, <1>4, Elements
  <2> HIDE DEF S
  <2> QED BY <1>1, <2>1, AmongWhole
<1>10. Among(one, S) = <<>>
  <2>1. ToSet(one) \cap S = {}
    BY <1>2
  <2> HIDE DEF S
  <2> QED BY <1>2, <2>1, AmongOthers
<1>11. a \o <<>> = a
  BY <1>1, ConcatEmptySeq
<1>12. RemoveAt(p, k) = Among(p, S)
  BY <1>1, <1>6, <1>7, <1>8, <1>9, <1>10, <1>11
<1>13. Len(a \o b) <= Len(p)
  <2>1. /\ Len(a \o b) = Len(a) + Len(b) /\ Len(front) = Len(a) + Len(one)
        /\ Len(a) \in Nat /\ Len(b) \in Nat /\ Len(one) \in Nat
    BY <1>1, <1>2, ConcatProperties, LenProperties DEF front
  <2>2. Len(p) = Len(front) + Len(b)
    BY <1>1, <1>3, ConcatProperties
  <2> QED BY <2>1, <2>2
<1> QED BY <1>1, <1>12, <1>13 DEF x
=============================================================================

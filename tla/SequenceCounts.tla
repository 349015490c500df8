---------------------------- MODULE SequenceCounts ----------------------------
(***************************************************************************)
(* How often a sequence holds an element of a set, and what the queue      *)
(* operations do to that number: a packet that leaves one queue and enters *)
(* another is neither lost nor repeated.                                   *)
(***************************************************************************)
EXTENDS Integers, FiniteSets, SequencesExt, FiniteSetTheorems, SequenceTheorems,
        WellFoundedInduction, TLAPS

-----------------------------------------------------------------------------
(* Sequences *)

\* The types and lengths of the queues after the operations on them.
LEMMA AppendFacts ==
  ASSUME NEW S, NEW s \in Seq(S), NEW x \in S
  PROVE  Append(s, x) \in Seq(S) /\ Len(Append(s, x)) = Len(s) + 1
OBVIOUS

LEMMA HeadFacts ==
  ASSUME NEW S, NEW s \in Seq(S), Len(s) > 0
  PROVE  Head(s) \in S /\ Tail(s) \in Seq(S) /\ Len(Tail(s)) = Len(s) - 1
OBVIOUS

LEMMA JoinFacts ==
  ASSUME NEW S, NEW s \in Seq(S), NEW r \in Seq(S)
  PROVE  s \o r \in Seq(S) /\ Len(s \o r) = Len(s) + Len(r)
OBVIOUS

LEMMA Wider ==
  ASSUME NEW S, NEW T, NEW s \in Seq(S)
  PROVE  s \in Seq(S \cup T) /\ s \in Seq(T \cup S)
OBVIOUS

LEMMA LenFacts ==
  ASSUME NEW S, NEW s \in Seq(S)
  PROVE  Len(s) \in Nat /\ (s = <<>> <=> Len(s) = 0)
OBVIOUS

LEMMA RemoveAtFacts ==
  ASSUME NEW S, NEW s \in Seq(S), NEW i \in DOMAIN s
  PROVE  RemoveAt(s, i) \in Seq(S) /\ Len(RemoveAt(s, i)) = Len(s) - 1
<1>1. i \in 1..Len(s) /\ Len(s) \in Nat
  OBVIOUS
<1>2. SubSeq(s, 1, i - 1) \in Seq(S) /\ Len(SubSeq(s, 1, i - 1)) = i - 1
  BY <1>1
<1>3. SubSeq(s, i + 1, Len(s)) \in Seq(S) /\ Len(SubSeq(s, i + 1, Len(s))) = Len(s) - i
  BY <1>1
<1> DEFINE l == SubSeq(s, 1, i - 1)
           r == SubSeq(s, i + 1, Len(s))
<1>4. l \o r \in Seq(S) /\ Len(l \o r) = Len(l) + Len(r)
  BY <1>2, <1>3, JoinFacts
<1>5. RemoveAt(s, i) = l \o r
  BY DEF RemoveAt
<1> HIDE DEF l, r
<1>6. Len(l) = i - 1 /\ Len(r) = Len(s) - i
  BY <1>2, <1>3 DEF l, r
<1>7. Len(l \o r) = (i - 1) + (Len(s) - i)
  BY <1>4, <1>6
<1>8. (i - 1) + (Len(s) - i) = Len(s) - 1
  BY <1>1
<1> QED
  BY <1>4, <1>5, <1>7, <1>8
-----------------------------------------------------------------------------
(* Counting *)

\* How many elements of a sequence are in P.
In(s, P) == Cardinality({i \in DOMAIN s : s[i] \in P})
Copies(s, x) == In(s, {x})
Bit(b) == IF b THEN 1 ELSE 0

\* A count is a number; it is zero when no element is in the set.
LEMMA InType ==
  ASSUME NEW S, NEW s \in Seq(S), NEW P
  PROVE  /\ In(s, P) \in Nat /\ IsFiniteSet({i \in DOMAIN s : s[i] \in P})
         /\ (\A i \in DOMAIN s : s[i] \notin P) => In(s, P) = 0
<1> DEFINE D == {i \in DOMAIN s : s[i] \in P}
<1>1. DOMAIN s = 1..Len(s) /\ Len(s) \in Nat
  BY LenProperties
<1>2. IsFiniteSet(1..Len(s))
  BY <1>1, FS_Interval
<1>3. D \subseteq 1..Len(s)
  BY <1>1
<1>4. (\A i \in DOMAIN s : s[i] \notin P) => D = {}
  OBVIOUS
<1> HIDE DEF D
<1>5. IsFiniteSet(D)
  BY <1>2, <1>3, FS_Subset
<1>6. Cardinality(D) \in Nat
  BY <1>5, FS_CardinalityType
<1>7. Cardinality({}) = 0
  BY FS_EmptySet
<1> QED
  BY <1>4, <1>5, <1>6, <1>7 DEF In, D

LEMMA InEmpty == \A P : In(<<>>, P) = 0
<1> SUFFICES ASSUME NEW P PROVE In(<<>>, P) = 0
  OBVIOUS
<1>1. {i \in DOMAIN <<>> : <<>>[i] \in P} = {}
  OBVIOUS
<1> QED
  BY <1>1, FS_EmptySet DEF In

LEMMA InSingle ==
  ASSUME NEW x, NEW P
  PROVE  In(<<x>>, P) = Bit(x \in P)
<1>1. CASE x \in P
  <2>1. {i \in DOMAIN <<x>> : <<x>>[i] \in P} = {1}
    BY <1>1
  <2> QED
    BY <1>1, <2>1, FS_Singleton DEF In, Bit
<1>2. CASE x \notin P
  <2>1. {i \in DOMAIN <<x>> : <<x>>[i] \in P} = {}
    BY <1>2
  <2> QED
    BY <1>2, <2>1, FS_EmptySet DEF In, Bit
<1> QED
  BY <1>1, <1>2

\* The counts of two sequences add up.
LEMMA InConcat ==
  ASSUME NEW S, NEW s \in Seq(S), NEW r \in Seq(S), NEW P
  PROVE  In(s \o r, P) = In(s, P) + In(r, P)
<1> DEFINE m == Len(s)
           n == Len(r)
           A == {i \in DOMAIN s : s[i] \in P}
           B == {i \in DOMAIN r : r[i] \in P}
           C == {i + m : i \in B}
           D == {i \in DOMAIN (s \o r) : (s \o r)[i] \in P}
<1>1. m \in Nat /\ n \in Nat /\ DOMAIN s = 1..m /\ DOMAIN r = 1..n
  BY LenProperties
<1>2. /\ DOMAIN (s \o r) = 1..(m + n)
      /\ \A i \in 1..(m + n) : (s \o r)[i] = IF i <= m THEN s[i] ELSE r[i - m]
  BY ConcatProperties, LenProperties
<1>3. IsFiniteSet(A) /\ IsFiniteSet(B)
  BY InType
<1> HIDE DEF m, n
<1>4. D = A \cup C
  <2>1. ASSUME NEW i \in D PROVE i \in A \cup C
    <3>1. i \in 1..(m + n) /\ (IF i <= m THEN s[i] ELSE r[i - m]) \in P
      BY <1>2
    <3>2. CASE i <= m
      BY <1>1, <3>1, <3>2
    <3>3. CASE ~(i <= m)
      <4>1. i - m \in 1..n /\ r[i - m] \in P /\ i = (i - m) + m
        BY <1>1, <3>1, <3>3
      <4>2. i - m \in B
        BY <1>1, <4>1
      <4> QED
        BY <4>1, <4>2
    <3> QED
      BY <3>2, <3>3
  <2>2. ASSUME NEW i \in A PROVE i \in D
    <3>1. i \in 1..(m + n) /\ i <= m /\ s[i] \in P
      BY <1>1
    <3> QED
      BY <1>2, <3>1
  <2>3. ASSUME NEW j \in B PROVE j + m \in D
    <3>1. j \in 1..n /\ r[j] \in P
      BY <1>1
    <3>2. j + m \in 1..(m + n) /\ ~(j + m <= m) /\ (j + m) - m = j
      BY <1>1, <3>1
    <3>3. (s \o r)[j + m] = r[(j + m) - m]
      BY <1>2, <3>2
    <3> QED
      BY <1>2, <3>1, <3>2, <3>3
  <2> QED
    BY <2>1, <2>2, <2>3
<1>5. A \cap C = {}
  BY <1>1
<1>6. IsFiniteSet(C) /\ Cardinality(C) = Cardinality(B)
  <2> DEFINE g == [i \in B |-> i + m]
  <2>1. \A i \in B : i \in Nat
    BY <1>1
  <2> HIDE DEF B
  <2>2. g \in Bijection(B, C)
    <3>1. g \in [B -> C]
      OBVIOUS
    <3>2. \A i, j \in B : g[i] = g[j] => i = j
      BY <1>1, <2>1
    <3>3. \A c \in C : \E i \in B : g[i] = c
      OBVIOUS
    <3> QED
      BY <3>1, <3>2, <3>3 DEF Bijection, Injection, Surjection, IsInjective
  <2>3. ExistsBijection(B, C)
    BY <2>2 DEF ExistsBijection
  <2> HIDE DEF C
  <2> QED
    BY <1>3, <2>3, FS_Bijection
<1> HIDE DEF A, B, C, D
<1>7. Cardinality(D) = Cardinality(A) + Cardinality(B)
  <2>1. Cardinality(A \cup C) = Cardinality(A) + Cardinality(C) - Cardinality(A \cap C)
    BY <1>3, <1>6, FS_Union
  <2>2. Cardinality(A) \in Nat /\ Cardinality(C) \in Nat
    BY <1>3, <1>6, FS_CardinalityType
  <2>3. Cardinality(A \cap C) = 0
    BY <1>5, FS_EmptySet
  <2> DEFINE a == Cardinality(A)
             b == Cardinality(B)
             c == Cardinality(C)
             d == Cardinality(D)
             e == Cardinality(A \cap C)
  <2>4. d = a + c - e /\ a \in Nat /\ c \in Nat /\ e = 0 /\ c = b
    BY <1>4, <1>6, <2>1, <2>2, <2>3
  <2> HIDE DEF a, b, c, d, e
  <2>5. d = a + b
    BY <2>4
  <2> QED
    BY <2>5 DEF a, b, d
<1> QED
  BY <1>7 DEF In, A, B, D

\* A message joins the queue.
LEMMA InAppend ==
  ASSUME NEW S, NEW s \in Seq(S), NEW x \in S, NEW P
  PROVE  In(Append(s, x), P) = In(s, P) + Bit(x \in P)
<1> DEFINE t == <<x>>
<1>1. Append(s, x) = s \o t /\ t \in Seq(S)
  OBVIOUS
<1>2. In(t, P) = Bit(x \in P)
  BY InSingle
<1> HIDE DEF t
<1>3. In(s \o t, P) = In(s, P) + In(t, P)
  BY <1>1, InConcat
<1> QED
  BY <1>1, <1>2, <1>3

\* A queue is its first message and the rest.
LEMMA HeadAndTail ==
  ASSUME NEW S, NEW s \in Seq(S), s # <<>>
  PROVE  Head(s) \in S /\ Tail(s) \in Seq(S) /\ <<Head(s)>> \in Seq(S) /\ s = <<Head(s)>> \o Tail(s)
<1>1. Head(s) \in S /\ Tail(s) \in Seq(S) /\ Len(Tail(s)) = Len(s) - 1 /\ Len(s) \in Nat /\ Len(s) > 0
      /\ \A i \in 1 .. Len(Tail(s)) : Tail(s)[i] = s[i+1]
  BY HeadTailProperties, LenFacts
<1> DEFINE h == <<Head(s)>>
           t == Tail(s)
<1>2. h \in Seq(S) /\ Len(h) = 1 /\ h[1] = s[1]
  <2>1. Head(s) = s[1]
    OBVIOUS
  <2> QED
    BY <1>1, <2>1
<1>3. t \in Seq(S) /\ Len(t) = Len(s) - 1 /\ \A i \in 1 .. Len(t) : t[i] = s[i+1]
  BY <1>1
<1> HIDE DEF h, t
<1>4. /\ h \o t \in Seq(S) /\ Len(h \o t) = Len(h) + Len(t)
      /\ \A i \in 1 .. Len(h) + Len(t) : (h \o t)[i] = IF i <= Len(h) THEN h[i] ELSE t[i - Len(h)]
  <2>1. /\ h \o t \in Seq(S) /\ Len(h \o t) = Len(h) + Len(t)
        /\ \A i \in 1 .. Len(h) + Len(t) : (h \o t)[i] = IF i <= Len(h) THEN h[i] ELSE t[i - Len(h)]
    <3>1. h \in Seq(S) /\ t \in Seq(S)
      BY <1>2, <1>3
    <3> QED
      BY <3>1, ConcatProperties
  <2> QED
    BY <2>1
<1>5. Len(h \o t) = Len(s)
  BY <1>1, <1>2, <1>3, <1>4
<1>6. ASSUME NEW i \in 1 .. Len(s) PROVE s[i] = (h \o t)[i]
  <2>1. CASE i = 1
    BY <1>1, <1>2, <1>3, <1>4, <2>1
  <2>2. CASE i # 1
    <3>1. i - 1 \in 1 .. Len(t) /\ ~(i <= 1) /\ (i - 1) + 1 = i /\ i \in 1 .. Len(h) + Len(t)
      BY <1>1, <1>2, <1>3, <2>2
    <3>2. (h \o t)[i] = t[i - 1]
      BY <1>2, <1>4, <3>1
    <3> QED
      BY <1>3, <3>1, <3>2
  <2> QED
    BY <2>1, <2>2
<1>7. s = h \o t
  BY <1>4, <1>5, <1>6, SeqEqual
<1>8. Head(s) \in S /\ t \in Seq(S) /\ h \in Seq(S) /\ s = h \o t
  BY <1>1, <1>2, <1>3, <1>7
<1> QED
  BY <1>8 DEF h, t

\* The first message leaves.
LEMMA InTail ==
  ASSUME NEW S, NEW s \in Seq(S), s # <<>>, NEW P
  PROVE  In(s, P) = Bit(Head(s) \in P) + In(Tail(s), P)
<1> DEFINE h == <<Head(s)>>
           t == Tail(s)
<1>1. t \in Seq(S) /\ h \in Seq(S) /\ s = h \o t
  BY HeadAndTail
<1>2. In(h, P) = Bit(Head(s) \in P)
  BY InSingle
<1> HIDE DEF h, t
<1>3. In(h \o t, P) = In(h, P) + In(t, P)
  BY <1>1, InConcat
<1> QED
  BY <1>1, <1>2, <1>3 DEF t

\* A message leaves from the middle.
LEMMA InRemoveAt ==
  ASSUME NEW S, NEW s \in Seq(S), NEW i \in DOMAIN s, NEW P
  PROVE  In(s, P) = Bit(s[i] \in P) + In(RemoveAt(s, i), P)
<1> DEFINE n == Len(s)
           l == SubSeq(s, 1, i - 1)
           x == <<s[i]>>
           r == SubSeq(s, i + 1, n)
<1>1. i \in 1..n /\ n \in Nat /\ s[i] \in S
  BY LenProperties, ElementOfSeq
<1>2. SubSeq(s, 1, i) = l \o x
  <2>1. 1 \in 1..Len(s) /\ i \in 1..Len(s)
    BY <1>1
  <2>2. SubSeq(s, 1, i) = SubSeq(s, 1, i - 1) \o <<s[i]>>
    BY <2>1, SubSeqRecursiveSecond
  <2> QED
    BY <2>2
<1>3. SubSeq(s, 1, i) \o r = s
  <2>1. 1 \in 1..n+1 /\ i \in 1-1..n /\ n \in i..n
    BY <1>1
  <2>2. SubSeq(s, 1, i) \o r = SubSeq(s, 1, n)
    BY <2>1, ConcatAdjacentSubSeq
  <2> QED
    BY <2>2, SubSeqFull
<1>4. l \in Seq(S) /\ r \in Seq(S) /\ x \in Seq(S)
  <2>1. \A j \in 1..n : s[j] \in S
    BY ElementOfSeq
  <2>2. (\A j \in 1..(i - 1) : s[j] \in S) /\ (\A j \in (i + 1)..n : s[j] \in S)
    BY <1>1, <2>1
  <2>3. 1 \in Int /\ i - 1 \in Int /\ i + 1 \in Int /\ n \in Int
    BY <1>1
  <2>4. l \in Seq(S)
    BY <2>2, <2>3, SubSeqProperties
  <2>5. r \in Seq(S)
    BY <2>2, <2>3, SubSeqProperties
  <2> QED
    BY <1>1, <2>4, <2>5
<1>5. RemoveAt(s, i) = l \o r
  BY DEF RemoveAt
<1> HIDE DEF l, r, n
<1>6. In(x, P) = Bit(s[i] \in P)
  BY InSingle
<1> HIDE DEF x
<1>7. In(l \o r, P) = In(l, P) + In(r, P)
  BY <1>4, InConcat
<1> DEFINE v == l \o x
<1>8. v \in Seq(S) /\ In(v, P) = In(l, P) + In(x, P)
  BY <1>4, InConcat, JoinFacts
<1> HIDE DEF v
<1>9. In(v \o r, P) = In(v, P) + In(r, P)
  BY <1>4, <1>8, InConcat
<1>10. In(l, P) \in Nat /\ In(r, P) \in Nat /\ In(x, P) \in Nat
  BY <1>4, InType
<1> DEFINE a == In(l, P)
           b == In(x, P)
           c == In(r, P)
<1>11. In(s, P) = a + b + c /\ In(RemoveAt(s, i), P) = a + c
  BY <1>2, <1>3, <1>5, <1>7, <1>8, <1>9 DEF v
<1>12. a \in Nat /\ b \in Nat /\ c \in Nat /\ b = Bit(s[i] \in P)
  BY <1>6, <1>10
<1> HIDE DEF a, b, c
<1> QED
  BY <1>11, <1>12

-----------------------------------------------------------------------------
(* Numbers *)

\* Facts about numbers, apart so that they can be cited where the context is rich.
LEMMA One == \A n \in Nat : n # 0 /\ n <= 1 => n = 1
OBVIOUS

LEMMA PlusZero == \A n \in Nat : n + 0 = n /\ 0 + n = n
OBVIOUS

LEMMA Minus == \A m, n \in Nat : m + 1 = n => m = n - 1
OBVIOUS

-----------------------------------------------------------------------------
(* The first and the last of a set of places *)

\* The least and the greatest are in the set.
LEMMA MinFacts ==
  ASSUME NEW S \in SUBSET Nat, S # {}
  PROVE  Min(S) \in S /\ \A y \in S : Min(S) <= y
<1>1. \E x \in S : \A y \in S : ~(<<y, x>> \in OpToRel(<, Nat))
  BY NatLessThanWellFounded, WFMin
<1>2. PICK x \in S : \A y \in S : ~(<<y, x>> \in OpToRel(<, Nat))
  BY <1>1
<1>3. ASSUME NEW y \in S PROVE x <= y
  <2>1. ~(y < x)
    BY <1>2 DEF OpToRel
  <2> QED
    BY <2>1
<1> QED
  BY <1>3 DEF Min

LEMMA MaxFacts ==
  ASSUME NEW n \in Nat, NEW S \in SUBSET (1..n), S # {}
  PROVE  Max(S) \in S /\ \A y \in S : Max(S) >= y
<1> DEFINE T == {n - x : x \in S}
<1>1. T \in SUBSET Nat /\ T # {}
  <2>1. \A x \in S : x \in 1..n
    OBVIOUS
  <2>2. \A x \in 1..n : n - x \in Nat
    OBVIOUS
  <2> QED
    BY <2>1, <2>2
<1> HIDE DEF T
<1>2. PICK y \in T : \A z \in T : y <= z
  BY <1>1, MinFacts
<1>3. PICK x \in S : y = n - x
  BY <1>2 DEF T
<1>4. ASSUME NEW z \in S PROVE x >= z
  <2>1. n - z \in T
    BY DEF T
  <2>2. n - x <= n - z
    BY <1>2, <1>3, <2>1
  <2> QED
    BY <2>2
<1> QED
  BY <1>4 DEF Max

-----------------------------------------------------------------------------
(* Counts and members *)

\* A count above zero has a witness.
LEMMA InSome ==
  ASSUME NEW S, NEW s \in Seq(S), NEW P
  PROVE  /\ In(s, P) \in Nat
         /\ \A i \in DOMAIN s : s[i] \in P => In(s, P) > 0
         /\ In(s, P) > 0 => \E i \in DOMAIN s : s[i] \in P
<1> DEFINE D == {i \in DOMAIN s : s[i] \in P}
<1>1. IsFiniteSet(D) /\ Cardinality(D) \in Nat
  BY InType DEF In
<1>2. Cardinality(D) = 0 <=> D = {}
  BY <1>1, FS_EmptySet
<1>3. In(s, P) = Cardinality(D)
  BY DEF In
<1>4. \A i \in DOMAIN s : s[i] \in P => D # {}
  OBVIOUS
<1>5. D # {} => \E i \in DOMAIN s : s[i] \in P
  OBVIOUS
<1> HIDE DEF D
<1>6. D # {} <=> Cardinality(D) > 0
  BY <1>1, <1>2
<1> QED
  BY <1>1, <1>3, <1>4, <1>5, <1>6

\* More is counted in a larger set.
LEMMA InSubset ==
  ASSUME NEW S, NEW s \in Seq(S), NEW P, NEW Q, P \subseteq Q
  PROVE  In(s, P) <= In(s, Q)
<1> DEFINE A == {i \in DOMAIN s : s[i] \in P}
           B == {i \in DOMAIN s : s[i] \in Q}
<1>1. IsFiniteSet(B) /\ A \in SUBSET B
  BY InType
<1> HIDE DEF A, B
<1>2. Cardinality(A) <= Cardinality(B)
  BY <1>1, FS_Subset
<1> QED
  BY <1>2 DEF In, A, B

\* A sequence holds every value at most once.
LEMMA InOnce ==
  ASSUME NEW S, NEW s \in Seq(S), NEW x, Copies(s, x) <= 1,
         NEW i \in DOMAIN s, NEW j \in DOMAIN s, s[i] = x, s[j] = x
  PROVE  i = j
<1> DEFINE D == {k \in DOMAIN s : s[k] \in {x}}
<1>1. IsFiniteSet(D) /\ Cardinality(D) <= 1 /\ Cardinality(D) \in Nat
  BY InType DEF In, Copies
<1>2. i \in D /\ j \in D
  OBVIOUS
<1> HIDE DEF D
<1>3. Cardinality(D) # 0
  BY <1>1, <1>2, FS_EmptySet
<1>4. Cardinality(D) = 1
  BY <1>1, <1>3
<1>5. PICK y : D = {y}
  BY <1>1, <1>4, FS_Singleton
<1> QED
  BY <1>2, <1>5

\* Contains() and RemoveFirst() in terms of counts.
LEMMA ContainsIn ==
  ASSUME NEW S, NEW s \in Seq(S), NEW x
  PROVE  Contains(s, x) <=> Copies(s, x) > 0
<1>1. DOMAIN s = 1..Len(s)
  BY LenProperties
<1> QED
  BY <1>1, InSome DEF Contains, Copies

LEMMA RemoveFirstFacts ==
  ASSUME NEW S, NEW s \in Seq(S), NEW e
  PROVE  /\ RemoveFirst(s, e) \in Seq(S)
         /\ \A x : x # e => Copies(RemoveFirst(s, e), x) = Copies(s, x)
         /\ Copies(s, e) <= 1 => Copies(RemoveFirst(s, e), e) = 0
<1>1. DOMAIN s = 1..Len(s) /\ Len(s) \in Nat
  BY LenProperties
<1>2. CASE \E i \in 1..Len(s) : s[i] = e
  <2> DEFINE I == {i \in 1..Len(s) : s[i] = e}
             k == Min(I)
  <2>1. I \in SUBSET Nat /\ I # {}
    BY <1>1, <1>2
  <2>2. RemoveFirst(s, e) = RemoveAt(s, k)
    BY <1>2, <2>1 DEF RemoveFirst, SelectInSeq
  <2>3. k \in I
    BY <2>1, MinFacts
  <2>4. k \in DOMAIN s /\ s[k] = e
    BY <1>1, <2>3
  <2> HIDE DEF k, I
  <2> DEFINE r == RemoveAt(s, k)
  <2>5. r \in Seq(S)
    BY <2>4, RemoveAtFacts
  <2>6. ASSUME NEW x PROVE Copies(s, x) = Bit(e = x) + Copies(r, x) /\ Copies(r, x) \in Nat
    <3>1. In(s, {x}) = Bit(s[k] \in {x}) + In(r, {x})
      BY <2>4, InRemoveAt
    <3>2. Bit(s[k] \in {x}) = Bit(e = x)
      BY <2>4 DEF Bit
    <3> QED
      BY <2>5, <3>1, <3>2, InType DEF Copies
  <2> HIDE DEF r
  <2>7. ASSUME NEW x, x # e PROVE Copies(r, x) = Copies(s, x)
    <3>1. Bit(e = x) = 0
      BY <2>7 DEF Bit
    <3>2. Copies(s, x) = 0 + Copies(r, x) /\ Copies(r, x) \in Nat
      BY <2>6, <3>1
    <3> QED
      BY <3>2
  <2>8. ASSUME Copies(s, e) <= 1 PROVE Copies(r, e) = 0
    <3>1. Bit(e = e) = 1
      BY DEF Bit
    <3>2. Copies(s, e) = 1 + Copies(r, e) /\ Copies(r, e) \in Nat
      BY <2>6, <3>1
    <3> QED
      BY <2>8, <3>2
  <2> QED
    BY <2>2, <2>5, <2>7, <2>8 DEF r
<1>3. CASE ~\E i \in 1..Len(s) : s[i] = e
  <2>1. RemoveFirst(s, e) = s
    BY <1>3 DEF RemoveFirst
  <2>2. Copies(s, e) = 0
    BY <1>1, <1>3, InType DEF Copies
  <2> QED
    BY <2>1, <2>2
<1> QED
  BY <1>2, <1>3
=============================================================================

---------------------------- MODULE BufferLemmas -----------------------------
(***************************************************************************)
(* What the proofs of several components need about buffers and arbiters:  *)
(* how many messages of a kind a buffer holds after an operation on it,    *)
(* and what an arbiter can grant.                                          *)
(***************************************************************************)
EXTENDS Arbiters, FiniteSetTheorems, SequenceTheorems, TLAPS

\* The positions of a buffer that hold a message of S, and how many they are.
Positions(s, S) == {i \in DOMAIN s : s[i] \in S}
NOf(s, S) == Cardinality(Positions(s, S))

\* A buffer without its message number k (std::vector::erase).
Cut(s, k) == [j \in 1 .. (Len(s) - 1) |-> IF j < k THEN s[j] ELSE s[j + 1]]

\* The messages of S in a buffer can be counted.
LEMMA PositionsFinite ==
  ASSUME NEW T, NEW s \in Seq(T), NEW S
  PROVE  /\ IsFiniteSet(Positions(s, S)) /\ NOf(s, S) \in Nat
         /\ Positions(s, S) \subseteq 1 .. Len(s)
<1>1. Positions(s, S) \subseteq 1 .. Len(s) /\ 1 \in Int /\ Len(s) \in Int
  BY LenProperties DEF Positions
<1>2. IsFiniteSet(1 .. Len(s))
  BY <1>1, FS_Interval, Zenon
<1> QED  BY <1>1, <1>2, FS_Subset, FS_CardinalityType DEF NOf

\* A buffer is finite.
LEMMA DomainFinite ==
  ASSUME NEW T, NEW s \in Seq(T)
  PROVE  IsFiniteSet(DOMAIN s)
<1>1. Positions(s, T) = DOMAIN s
  BY ElementOfSeq, LenProperties DEF Positions
<1> QED  BY <1>1, PositionsFinite

\* A slot holds at most one message.
LEMMA SlotHolds ==
  ASSUME NEW T, NEW h \in Seq(T), Len(h) <= 1, h # <<>>
  PROVE  h[1] \in T /\ h = <<h[1]>>
<1>1. Len(h) \in Nat /\ Len(h) # 0
  BY LenProperties, EmptySeq
<1>2. Len(h) = 1
  <2>1. \A n \in Nat : n # 0 /\ n <= 1 => n = 1
    OBVIOUS
  <2> QED  BY <1>1, <2>1, Zenon
<1>3. DOMAIN h = 1 .. 1 /\ h[1] \in T
  BY <1>2, LenProperties, ElementOfSeq
<1> QED  BY <1>2, <1>3, SeqEqual

\* Sets of positions matched one to one have the same size.
LEMMA SameSize ==
  ASSUME NEW A, NEW B, IsFiniteSet(A), NEW f \in [A -> B],
         \A x, y \in A : f[x] = f[y] => x = y, \A z \in B : \E x \in A : f[x] = z
  PROVE  IsFiniteSet(B) /\ Cardinality(B) = Cardinality(A)
<1>1. f \in Bijection(A, B)
  BY DEF Bijection, Injection, Surjection, IsInjective
<1> QED  BY <1>1, FS_Bijection DEF ExistsBijection

\* A buffer holds a message, or no message, of S.
LEMMA CountOne ==
  ASSUME NEW x, NEW S
  PROVE  NOf(<<x>>, S) = (IF x \in S THEN 1 ELSE 0) /\ NOf(<<>>, S) = 0
<1>1. NOf(<<>>, S) = 0
  <2>1. Positions(<<>>, S) = {}
    BY DEF Positions
  <2> QED  BY <2>1, FS_EmptySet DEF NOf
<1>2. ASSUME x \in S PROVE NOf(<<x>>, S) = 1
  <2>1. Positions(<<x>>, S) = {1}
    BY <1>2 DEF Positions
  <2> QED  BY <2>1, FS_Singleton DEF NOf
<1>3. ASSUME x \notin S PROVE NOf(<<x>>, S) = 0
  <2>1. Positions(<<x>>, S) = {}
    BY <1>3 DEF Positions
  <2> QED  BY <2>1, FS_EmptySet DEF NOf
<1> QED  BY <1>1, <1>2, <1>3

\* An empty buffer holds nothing.
LEMMA CountNone == \A S : NOf(<<>>, S) = 0
<1> TAKE S
<1>1. Positions(<<>>, S) = {}
  BY DEF Positions
<1> QED  BY <1>1, FS_EmptySet DEF NOf

\* One buffer behind another.
LEMMA CountConcat ==
  ASSUME NEW T, NEW s \in Seq(T), NEW t \in Seq(T), NEW S
  PROVE  NOf(s \o t, S) = NOf(s, S) + NOf(t, S)
<1> DEFINE n == Len(s)
           A == Positions(s, S)
           B == Positions(t, S)
           C == {i \in (n + 1) .. (n + Len(t)) : (s \o t)[i] \in S}
           f == [j \in B |-> n + j]
<1>0. n \in Nat /\ Len(t) \in Nat /\ DOMAIN s = 1 .. n /\ DOMAIN t = 1 .. Len(t)
  BY LenProperties
<1>1. /\ DOMAIN (s \o t) = 1 .. (n + Len(t))
      /\ \A i \in 1 .. n : (s \o t)[i] = s[i]
      /\ \A i \in 1 .. Len(t) : (s \o t)[n + i] = t[i]
  BY ConcatProperties, LenProperties
<1>2. IsFiniteSet(A) /\ IsFiniteSet(B) /\ A \subseteq 1 .. n /\ B \subseteq 1 .. Len(t)
      /\ Cardinality(A) \in Nat /\ Cardinality(B) \in Nat
  BY PositionsFinite DEF NOf
<1>3. IsFiniteSet(C) /\ Cardinality(C) = Cardinality(B)
  <2>1. \A i \in C : i - n \in B
    <3> SUFFICES ASSUME NEW i \in C PROVE i - n \in B
      OBVIOUS
    <3>1. i - n \in 1 .. Len(t) /\ i = n + (i - n)
      BY <1>0
    <3>2. (s \o t)[i] = t[i - n]
      BY <1>1, <3>1
    <3> QED  BY <1>0, <3>1, <3>2 DEF Positions
  <2>2. f \in [B -> C]
    <3> SUFFICES ASSUME NEW j \in B PROVE n + j \in C
      OBVIOUS
    <3>1. j \in 1 .. Len(t) /\ t[j] \in S
      BY <1>2 DEF Positions
    <3> QED  BY <1>0, <1>1, <3>1
  <2>3. \A x, y \in B : f[x] = f[y] => x = y
    BY <1>0, <1>2
  <2>4. \A z \in C : \E x \in B : f[x] = z
    <3> SUFFICES ASSUME NEW z \in C PROVE \E x \in B : f[x] = z
      OBVIOUS
    <3>1. z - n \in B /\ n + (z - n) = z
      BY <1>0, <2>1
    <3> QED  BY <3>1
  <2> HIDE DEF B, C, f
  <2> QED  BY <1>2, <2>2, <2>3, <2>4, SameSize
<1>4. Positions(s \o t, S) = A \cup C /\ A \cap C = {}
  BY <1>0, <1>1 DEF Positions
<1>5. Cardinality(A \cup C) = Cardinality(A) + Cardinality(C) - Cardinality(A \cap C)
  BY <1>2, <1>3, FS_Union
<1>6. NOf(s \o t, S) = Cardinality(A \cup C) /\ NOf(s, S) = Cardinality(A) /\ NOf(t, S) = Cardinality(B)
  BY <1>4 DEF NOf
<1>7. Cardinality(A \cap C) = 0
  BY <1>4, FS_EmptySet
<1> HIDE DEF A, B, C
<1> QED  BY <1>2, <1>3, <1>5, <1>6, <1>7

\* Taking message k out of a buffer.
LEMMA CountCut ==
  ASSUME NEW T, NEW s \in Seq(T), NEW k \in DOMAIN s, NEW S
  PROVE  /\ Cut(s, k) \in Seq(T) /\ Len(Cut(s, k)) = Len(s) - 1
         /\ NOf(Cut(s, k), S) = NOf(s, S) - (IF s[k] \in S THEN 1 ELSE 0)
<1> DEFINE c == Cut(s, k)
           A == Positions(c, S)
           B == Positions(s, S) \ {k}
           f == [j \in A |-> IF j < k THEN j ELSE j + 1]
<1>0. Len(s) \in Nat /\ DOMAIN s = 1 .. Len(s) /\ Len(s) - 1 \in Nat
  BY LenProperties
<1>1. c \in Seq(T) /\ Len(c) = Len(s) - 1 /\ DOMAIN c = 1 .. (Len(s) - 1)
  <2>1. \A j \in 1 .. (Len(s) - 1) : (IF j < k THEN s[j] ELSE s[j + 1]) \in T
    BY <1>0
  <2> QED  BY <1>0, <2>1 DEF Cut
<1>2. \A j \in 1 .. (Len(s) - 1) : c[j] = IF j < k THEN s[j] ELSE s[j + 1]
  BY DEF Cut
<1> HIDE DEF c
<1>3. IsFiniteSet(A) /\ A \subseteq 1 .. (Len(s) - 1) /\ Cardinality(A) \in Nat
  BY <1>1, PositionsFinite DEF NOf
<1>4. f \in [A -> B]
  <2> SUFFICES ASSUME NEW j \in A
               PROVE  (IF j < k THEN j ELSE j + 1) \in B
    OBVIOUS
  <2>1. j \in 1 .. (Len(s) - 1) /\ c[j] \in S
    BY <1>3 DEF Positions
  <2> QED  BY <1>0, <1>2, <2>1 DEF Positions
<1>5. \A x, y \in A : f[x] = f[y] => x = y
  BY <1>0, <1>3
<1>6. \A z \in B : \E x \in A : f[x] = z
  <2> SUFFICES ASSUME NEW z \in B
               PROVE  \E x \in A : f[x] = z
    OBVIOUS
  <2>1. z \in 1 .. Len(s) /\ z # k /\ s[z] \in S
    BY <1>0 DEF Positions
  <2>2. CASE z < k
    <3>1. z \in 1 .. (Len(s) - 1) /\ c[z] = s[z]
      BY <1>0, <1>2, <2>1, <2>2
    <3> QED  BY <1>1, <2>1, <2>2, <3>1 DEF Positions
  <2>3. CASE z > k
    <3>1. z - 1 \in 1 .. (Len(s) - 1) /\ ~(z - 1 < k) /\ (z - 1) + 1 = z
      BY <1>0, <2>1, <2>3
    <3>2. c[z - 1] = s[z]
      BY <1>2, <3>1
    <3> QED  BY <1>1, <2>1, <3>1, <3>2 DEF Positions
  <2> QED  BY <1>0, <2>1, <2>2, <2>3
<1>7. Cardinality(B) = Cardinality(A)
  BY <1>3, <1>4, <1>5, <1>6, SameSize
<1>8. /\ IsFiniteSet(Positions(s, S)) /\ Cardinality(Positions(s, S)) \in Nat
      /\ (k \in Positions(s, S) <=> s[k] \in S)
  BY PositionsFinite DEF NOf, Positions
<1>9. Cardinality(B) = IF s[k] \in S THEN Cardinality(Positions(s, S)) - 1 ELSE Cardinality(Positions(s, S))
  BY <1>8, FS_RemoveElement
<1> QED  BY <1>1, <1>3, <1>7, <1>8, <1>9 DEF NOf, c

\* Taking the first message.
LEMMA CountTail ==
  ASSUME NEW T, NEW s \in Seq(T), s # <<>>, NEW S
  PROVE  /\ Head(s) \in T /\ Tail(s) \in Seq(T) /\ Len(Tail(s)) = Len(s) - 1
         /\ NOf(Tail(s), S) = NOf(s, S) - (IF Head(s) \in S THEN 1 ELSE 0)
<1>1. 1 \in DOMAIN s /\ Head(s) = s[1] /\ Head(s) \in T /\ Tail(s) \in Seq(T)
      /\ Len(Tail(s)) = Len(s) - 1
  BY EmptySeq, LenProperties, HeadTailProperties
<1>2. Tail(s) = Cut(s, 1)
  <2>1. Tail(s) = [j \in 1 .. (Len(s) - 1) |-> s[j + 1]]
    BY <1>1, LenProperties, HeadTailProperties
  <2>2. \A j \in 1 .. (Len(s) - 1) : ~(j < 1)
    BY LenProperties
  <2> QED  BY <2>1, <2>2 DEF Cut
<1>3. NOf(Cut(s, 1), S) = NOf(s, S) - (IF s[1] \in S THEN 1 ELSE 0)
  <2>1. \A k \in DOMAIN s : NOf(Cut(s, k), S) = NOf(s, S) - (IF s[k] \in S THEN 1 ELSE 0)
    BY CountCut
  <2> QED  BY <1>1, <2>1
<1> QED  BY <1>1, <1>2, <1>3

\* Putting a message last.
LEMMA CountAppend ==
  ASSUME NEW T, NEW s \in Seq(T), NEW x \in T, NEW S
  PROVE  /\ Append(s, x) \in Seq(T)
         /\ NOf(Append(s, x), S) = NOf(s, S) + (IF x \in S THEN 1 ELSE 0)
<1>1. Append(s, x) = s \o <<x>> /\ <<x>> \in Seq(T) /\ Append(s, x) \in Seq(T)
  BY AppendIsConcat, AppendProperties
<1>2. NOf(s \o <<x>>, S) = NOf(s, S) + NOf(<<x>>, S)
  BY <1>1, CountConcat
<1> QED  BY <1>1, <1>2, CountOne

\* A count is zero when no message is of S.
LEMMA CountZero ==
  ASSUME NEW T, NEW s \in Seq(T), NEW S
  PROVE  /\ NOf(s, S) = 0 <=> \A i \in DOMAIN s : s[i] \notin S
         /\ NOf(s, S) \in Nat
<1>1. IsFiniteSet(Positions(s, S)) /\ NOf(s, S) \in Nat
  BY PositionsFinite
<1>2. NOf(s, S) = 0 <=> Positions(s, S) = {}
  BY <1>1, FS_EmptySet DEF NOf
<1> QED  BY <1>1, <1>2 DEF Positions

\* In buffer s every message of W is ahead of every message of R.
Ahead(s, W, R) == \A i, j \in DOMAIN s : s[i] \in R /\ s[j] \in W => j < i

\* A message put last keeps the order unless it is of W and one of R waits.
LEMMA AheadAppend ==
  ASSUME NEW T, NEW s \in Seq(T), NEW x \in T, NEW W, NEW R, Ahead(s, W, R),
         x \in W => NOf(s, R) = 0 /\ x \notin R
  PROVE  Ahead(Append(s, x), W, R)
<1>0. Len(s) \in Nat /\ DOMAIN s = 1 .. Len(s)
  BY LenProperties
<1>1. /\ DOMAIN Append(s, x) = 1 .. (Len(s) + 1) /\ Append(s, x)[Len(s) + 1] = x
      /\ \A i \in 1 .. Len(s) : Append(s, x)[i] = s[i]
  BY AppendProperties, LenProperties
<1>2. NOf(s, R) = 0 => \A i \in DOMAIN s : s[i] \notin R
  BY CountZero
<1> SUFFICES ASSUME NEW i \in 1 .. (Len(s) + 1), NEW j \in 1 .. (Len(s) + 1),
                    Append(s, x)[i] \in R, Append(s, x)[j] \in W
             PROVE  j < i
  BY <1>1 DEF Ahead
<1>3. CASE j = Len(s) + 1
  BY <1>0, <1>1, <1>2, <1>3
<1>4. CASE j # Len(s) + 1 /\ i = Len(s) + 1
  BY <1>0, <1>4
<1>5. CASE j # Len(s) + 1 /\ i # Len(s) + 1
  BY <1>0, <1>1, <1>5 DEF Ahead
<1> QED  BY <1>3, <1>4, <1>5

\* Two buffers in line, the first without R or the second without W.
LEMMA AheadConcat ==
  ASSUME NEW T, NEW s \in Seq(T), NEW t \in Seq(T), NEW W, NEW R, Ahead(s, W, R), Ahead(t, W, R),
         NOf(s, R) = 0 \/ NOf(t, W) = 0
  PROVE  Ahead(s \o t, W, R)
<1>0. Len(s) \in Nat /\ DOMAIN s = 1 .. Len(s) /\ Len(t) \in Nat /\ DOMAIN t = 1 .. Len(t)
  BY LenProperties
<1>1. /\ DOMAIN (s \o t) = 1 .. (Len(s) + Len(t))
      /\ \A i \in 1 .. Len(s) : (s \o t)[i] = s[i]
      /\ \A i \in 1 .. Len(t) : (s \o t)[Len(s) + i] = t[i]
  BY ConcatProperties, LenProperties
<1>2. (\A i \in DOMAIN s : s[i] \notin R) \/ (\A i \in DOMAIN t : t[i] \notin W)
  BY CountZero
<1> SUFFICES ASSUME NEW i \in 1 .. (Len(s) + Len(t)), NEW j \in 1 .. (Len(s) + Len(t)),
                    (s \o t)[i] \in R, (s \o t)[j] \in W
             PROVE  j < i
  BY <1>1 DEF Ahead
<1>3. CASE i <= Len(s) /\ j <= Len(s)
  BY <1>0, <1>1, <1>3 DEF Ahead
<1>4. CASE i <= Len(s) /\ j > Len(s)
  <2>1. i \in 1 .. Len(s) /\ j - Len(s) \in 1 .. Len(t) /\ Len(s) + (j - Len(s)) = j
    BY <1>0, <1>4
  <2>2. s[i] \in R /\ t[j - Len(s)] \in W
    BY <1>1, <2>1
  <2> QED  BY <1>0, <1>2, <2>1, <2>2
<1>5. CASE i > Len(s) /\ j <= Len(s)
  BY <1>0, <1>5
<1>6. CASE i > Len(s) /\ j > Len(s)
  <2>1. /\ i - Len(s) \in 1 .. Len(t) /\ Len(s) + (i - Len(s)) = i
        /\ j - Len(s) \in 1 .. Len(t) /\ Len(s) + (j - Len(s)) = j
    BY <1>0, <1>6
  <2>2. t[i - Len(s)] \in R /\ t[j - Len(s)] \in W
    BY <1>1, <2>1
  <2>3. j - Len(s) < i - Len(s)
    BY <1>0, <2>1, <2>2 DEF Ahead
  <2> QED  BY <1>0, <2>3
<1> QED  BY <1>0, <1>3, <1>4, <1>5, <1>6

\* Taking a message out keeps the order of the others.
LEMMA AheadCut ==
  ASSUME NEW T, NEW s \in Seq(T), NEW k \in DOMAIN s, NEW W, NEW R, Ahead(s, W, R)
  PROVE  Ahead(Cut(s, k), W, R)
<1>0. Len(s) \in Nat /\ DOMAIN s = 1 .. Len(s)
  BY LenProperties
<1> SUFFICES ASSUME NEW i \in 1 .. (Len(s) - 1), NEW j \in 1 .. (Len(s) - 1),
                    Cut(s, k)[i] \in R, Cut(s, k)[j] \in W
             PROVE  j < i
  BY DEF Ahead, Cut
<1>1. \A n \in 1 .. (Len(s) - 1) : Cut(s, k)[n] = IF n < k THEN s[n] ELSE s[n + 1]
  BY DEF Cut
<1>2. \A m, n \in 1 .. Len(s) : s[m] \in R /\ s[n] \in W => n < m
  BY <1>0 DEF Ahead
<1>3. CASE i < k /\ j < k
  BY <1>0, <1>1, <1>2, <1>3
<1>4. CASE i < k /\ ~(j < k)
  BY <1>0, <1>1, <1>2, <1>4
<1>5. CASE ~(i < k) /\ j < k
  BY <1>0, <1>5
<1>6. CASE ~(i < k) /\ ~(j < k)
  BY <1>0, <1>1, <1>2, <1>6
<1> QED  BY <1>3, <1>4, <1>5, <1>6

\* Taking the head of a buffer; when the head is of R nothing of W is left behind it.
LEMMA AheadTail ==
  ASSUME NEW T, NEW s \in Seq(T), s # <<>>, NEW W, NEW R, Ahead(s, W, R)
  PROVE  Ahead(Tail(s), W, R) /\ (Head(s) \in R => NOf(Tail(s), W) = 0)
<1>1. /\ Len(s) \in Nat /\ DOMAIN s = 1 .. Len(s) /\ 1 \in DOMAIN s /\ Head(s) = s[1]
      /\ Tail(s) \in Seq(T) /\ DOMAIN Tail(s) = 1 .. (Len(s) - 1)
      /\ \A j \in 1 .. (Len(s) - 1) : Tail(s)[j] = s[j + 1]
  BY EmptySeq, LenProperties, HeadTailProperties
<1>2. \A i, j \in DOMAIN s : s[i] \in R /\ s[j] \in W => j < i
  BY DEF Ahead
<1>3. Ahead(Tail(s), W, R)
  <2> SUFFICES ASSUME NEW i \in 1 .. (Len(s) - 1), NEW j \in 1 .. (Len(s) - 1),
                      s[i + 1] \in R, s[j + 1] \in W
               PROVE  j < i
    BY <1>1 DEF Ahead
  <2>1. i + 1 \in DOMAIN s /\ j + 1 \in DOMAIN s
    BY <1>1
  <2>2. j + 1 < i + 1
    BY <1>2, <2>1
  <2> QED  BY <1>1, <2>2
<1>4. ASSUME s[1] \in R, NEW j \in DOMAIN Tail(s), Tail(s)[j] \in W
      PROVE  FALSE
  <2>1. j + 1 \in DOMAIN s /\ s[j + 1] \in W /\ j \in Nat
    BY <1>1, <1>4
  <2>2. j + 1 < 1
    BY <1>1, <1>2, <1>4, <2>1
  <2> QED  BY <2>1, <2>2
<1> QED  BY <1>1, <1>3, <1>4, CountZero

\* A nonempty finite set of integers has a greatest element.
LEMMA GreatestExists ==
  ASSUME NEW A \in SUBSET Int, IsFiniteSet(A), A # {}
  PROVE  \E c \in A : \A d \in A : d <= c
<1> DEFINE C == {S \in SUBSET A : S # {} /\ ~\E c \in S : \A d \in S : d <= c}
<1> SUFFICES ASSUME C # {} PROVE FALSE
  OBVIOUS
<1>1. FiniteSubsetsOf(A) = SUBSET A
  BY FS_FiniteSubsetsOfFinite
<1>2. PICK S \in C : \A U \in C : ~(<<U, S>> \in StrictSubsetOrdering(A))
  <2>1. IsWellFoundedOn(StrictSubsetOrdering(A), SUBSET A)
    BY <1>1, FS_StrictSubsetOrderingWellFounded
  <2>2. C \subseteq SUBSET A
    OBVIOUS
  <2> HIDE DEF C
  <2> QED  BY <2>1, <2>2, WFMin
<1>3. PICK x \in S : TRUE
  OBVIOUS
<1> DEFINE U == S \ {x}
<1>4. U \notin C
  BY <1>2, <1>3 DEF StrictSubsetOrdering
<1>5. CASE U = {}
  <2>1. S = {x} /\ x \in Int
    BY <1>3, <1>5
  <2> QED  BY <1>2, <2>1
<1>6. CASE U # {}
  <2>1. PICK y \in U : \A d \in U : d <= y
    BY <1>4, <1>6
  <2>2. x \in Int /\ y \in Int /\ \A d \in S : d \in Int
    OBVIOUS
  <2>3. CASE x <= y
    BY <1>2, <2>1, <2>2, <2>3
  <2>4. CASE y < x
    <3>1. \A d \in S : d <= x
      BY <2>1, <2>2, <2>4
    <3> QED  BY <1>2, <3>1
  <2> QED  BY <2>2, <2>3, <2>4
<1> QED  BY <1>5, <1>6

-----------------------------------------------------------------------------
(* What an arbiter grants: one message at most, and one that is queued.     *)

\* Buffers of messages an arbiter can compare.
Buffers(D, T) == [D -> Seq(T)]

\* At most one grant, of a message that is queued.
OneGrant(bufs, grant) ==
  /\ \A p, q \in grant : p = q
  /\ \A p \in grant : \E i \in DOMAIN bufs : \E k \in DOMAIN bufs[i] : p = <<i, k>>

\* Among at most one message of each buffer, the oldest is unique: the buffer order
\* breaks ties.
LEMMA OldestOne ==
  ASSUME NEW D \in SUBSET Int, NEW T, \A m \in T : m.cycle \in Int,
         NEW bufs \in Buffers(D, T), NEW pairs,
         \A p \in pairs : \E i \in D : \E k \in DOMAIN bufs[i] : p = <<i, k>>,
         \A p, q \in pairs : p[1] = q[1] => p = q
  PROVE  OneGrant(bufs, Oldest(bufs, pairs))
<1>1. \A p \in Oldest(bufs, pairs) : p \in pairs
  BY DEF Oldest
<1>2. ASSUME NEW p \in Oldest(bufs, pairs), NEW q \in Oldest(bufs, pairs)
      PROVE  p = q
  <2>1. PICK i \in D : \E k \in DOMAIN bufs[i] : p = <<i, k>>
    BY <1>1, <1>2
  <2>2. PICK k \in DOMAIN bufs[i] : p = <<i, k>>
    BY <2>1
  <2>3. PICK j \in D : \E l \in DOMAIN bufs[j] : q = <<j, l>>
    BY <1>1, <1>2
  <2>4. PICK l \in DOMAIN bufs[j] : q = <<j, l>>
    BY <2>3
  <2>5. bufs[i][k] \in T /\ bufs[j][l] \in T
    BY ElementOfSeq, LenProperties DEF Buffers
  <2>6. bufs[i][k].cycle \in Int /\ bufs[j][l].cycle \in Int
    BY <2>5
  <2>7. p[1] = i /\ p[2] = k /\ q[1] = j /\ q[2] = l
    BY <2>2, <2>4
  <2>8. /\ \/ bufs[i][k].cycle < bufs[j][l].cycle
           \/ bufs[i][k].cycle = bufs[j][l].cycle /\ i <= j
        /\ \/ bufs[j][l].cycle < bufs[i][k].cycle
           \/ bufs[j][l].cycle = bufs[i][k].cycle /\ j <= i
    BY <1>1, <1>2, <2>7 DEF Oldest
  <2>9. i = j
    BY <2>6, <2>8
  <2> QED  BY <1>1, <1>2, <2>7, <2>9
<1>3. DOMAIN bufs = D
  BY DEF Buffers
<1> QED  BY <1>1, <1>2, <1>3 DEF OneGrant

\* electOldestOwned elects at most one message, and one of the owner's.
LEMMA OwnedOne ==
  ASSUME NEW D \in SUBSET Int, NEW T, \A m \in T : m.cycle \in Int,
         NEW bufs \in Buffers(D, T), NEW owner
  PROVE  /\ OneGrant(bufs, electOldestOwned(bufs, owner))
         /\ \A p \in electOldestOwned(bufs, owner) : bufs[p[1]][p[2]].owner = owner
<1> DEFINE pairs == UNION {{<<i, k>> : k \in findMessage(bufs[i], owner)} : i \in DOMAIN bufs}
<1>1. DOMAIN bufs = D /\ \A i \in D : bufs[i] \in Seq(T)
  BY DEF Buffers
<1>2. \A i \in D : \A k, l \in findMessage(bufs[i], owner) : k = l
  <2> SUFFICES ASSUME NEW i \in D, NEW k \in findMessage(bufs[i], owner),
                      NEW l \in findMessage(bufs[i], owner)
               PROVE  k = l
    OBVIOUS
  <2>1. k \in 1 .. Len(bufs[i]) /\ l \in 1 .. Len(bufs[i]) /\ Len(bufs[i]) \in Nat
    BY <1>1, LenProperties DEF findMessage
  <2>2. ~(k < l) /\ ~(l < k)
    BY <2>1 DEF findMessage
  <2> QED  BY <2>1, <2>2
<1>3. ASSUME NEW p \in pairs
      PROVE  \E i \in D : \E k \in findMessage(bufs[i], owner) : p = <<i, k>>
  BY <1>1
<1>4. \A i \in D : \A k \in findMessage(bufs[i], owner) : k \in DOMAIN bufs[i] /\ bufs[i][k].owner = owner
  BY DEF findMessage
<1>5. \A p \in pairs : \E i \in D : \E k \in DOMAIN bufs[i] : p = <<i, k>> /\ bufs[i][k].owner = owner
  BY <1>3, <1>4
<1>6. \A p, q \in pairs : p[1] = q[1] => p = q
  BY <1>2, <1>3
<1> HIDE DEF pairs
<1>7. OneGrant(bufs, Oldest(bufs, pairs))
  BY <1>5, <1>6, OldestOne
<1>8. Oldest(bufs, pairs) \subseteq pairs
  BY DEF Oldest
<1> QED  BY <1>5, <1>7, <1>8 DEF electOldestOwned, pairs

\* FCFS, RR and TDM alike.
LEMMA ElectOne ==
  ASSUME NEW D \in SUBSET Int, NEW T, \A m \in T : m.cycle \in Int,
         NEW bufs \in Buffers(D, T), NEW kind, NEW cand, NEW idx, NEW aligned \in BOOLEAN
  PROVE  OneGrant(bufs, elect(kind, bufs, cand, idx, aligned).grant)
<1>0. DOMAIN bufs = D /\ \A i \in D : bufs[i] \in Seq(T)
  BY DEF Buffers
<1>1. CASE kind = "FCFS"
  <2> DEFINE heads == {<<i, 1>> : i \in {j \in DOMAIN bufs : bufs[j] # <<>>}}
  <2>1. \A p \in heads : \E i \in D : \E k \in DOMAIN bufs[i] : p = <<i, k>>
    <3> SUFFICES ASSUME NEW i \in D, bufs[i] # <<>>
                 PROVE  1 \in DOMAIN bufs[i]
      BY <1>0
    <3> QED  BY <1>0, EmptySeq, LenProperties
  <2>2. \A p, q \in heads : p[1] = q[1] => p = q
    OBVIOUS
  <2> HIDE DEF heads
  <2>3. OneGrant(bufs, Oldest(bufs, heads))
    BY <2>1, <2>2, OldestOne
  <2> QED  BY <1>1, <2>3 DEF elect, FCFSElect, heads
<1>2. CASE kind = "RR"
  <2> DEFINE n        == Len(cand)
             Owned(d) == electOldestOwned(bufs, cand[Advance(idx, d, n) + 1])
             tries    == {d \in 1 .. n : Owned(d) # {} /\ \A e \in 1 .. (d - 1) : Owned(e) = {}}
             grant    == UNION {Owned(d) : d \in tries}
  <2>1. \A d : OneGrant(bufs, Owned(d))
    BY OwnedOne
  <2> HIDE DEF Owned
  <2>2. \A d, e \in tries : d = e
    <3> SUFFICES ASSUME NEW d \in tries, NEW e \in tries, d # e
                 PROVE  FALSE
      OBVIOUS
    <3>1. d \in 1 .. n /\ e \in 1 .. n /\ Owned(d) # {} /\ Owned(e) # {}
      OBVIOUS
    <3>2. d \in 1 .. (e - 1) \/ e \in 1 .. (d - 1)
      BY <3>1
    <3> QED  BY <3>1, <3>2
  <2> HIDE DEF tries
  <2>3. \A p \in grant : \E d \in tries : p \in Owned(d)
    OBVIOUS
  <2>4. OneGrant(bufs, grant)
    BY <2>1, <2>2, <2>3 DEF OneGrant
  <2>5. elect(kind, bufs, cand, idx, aligned).grant = grant
    BY <1>2 DEF elect, RRElect, tries, Owned
  <2> QED  BY <2>4, <2>5
<1>3. CASE kind # "FCFS" /\ kind # "RR"
  <2>1. OneGrant(bufs, {})
    BY DEF OneGrant
  <2>2. elect(kind, bufs, cand, idx, aligned).grant
          \in {{}, electOldestOwned(bufs, cand[Advance(idx, 1, Len(cand)) + 1])}
    BY <1>3 DEF elect, TDMElect
  <2>3. OneGrant(bufs, electOldestOwned(bufs, cand[Advance(idx, 1, Len(cand)) + 1]))
    BY OwnedOne
  <2> QED  BY <2>1, <2>2, <2>3, Zenon
<1> QED  BY <1>1, <1>2, <1>3

\* The granted message is the first of its buffer, or, except under FCFS, the first of its
\* owner there.
FrontGrant(D, bufs, kind, p) ==
  \E i \in D : \E k \in DOMAIN bufs[i] :
    /\ p = <<i, k>>
    /\ \A j \in DOMAIN bufs[i] : j < k => kind # "FCFS" /\ bufs[i][j].owner # bufs[i][k].owner

LEMMA ElectFirst ==
  ASSUME NEW D \in SUBSET Int, NEW T,
         NEW bufs \in Buffers(D, T), NEW kind, NEW cand, NEW idx, NEW aligned \in BOOLEAN,
         NEW p \in elect(kind, bufs, cand, idx, aligned).grant
  PROVE  FrontGrant(D, bufs, kind, p)
<1>0. DOMAIN bufs = D /\ \A i \in D : bufs[i] \in Seq(T)
  BY DEF Buffers
<1>1. \A i \in D : DOMAIN bufs[i] = 1 .. Len(bufs[i]) /\ Len(bufs[i]) \in Nat
  BY <1>0, LenProperties
<1>2. CASE kind = "FCFS"
  <2>1. p \in {<<i, 1>> : i \in {j \in DOMAIN bufs : bufs[j] # <<>>}}
    BY <1>2 DEF elect, FCFSElect, Oldest
  <2>2. PICK i \in D : bufs[i] # <<>> /\ p = <<i, 1>>
    BY <1>0, <2>1
  <2>3. 1 \in DOMAIN bufs[i] /\ \A j \in DOMAIN bufs[i] : ~(j < 1)
    BY <1>0, <1>1, <2>2, EmptySeq
  <2> QED  BY <2>2, <2>3 DEF FrontGrant
<1>3. CASE kind # "FCFS"
  <2>1. ASSUME NEW owner, p \in electOldestOwned(bufs, owner)
        PROVE  FrontGrant(D, bufs, kind, p)
    <3>1. p \in UNION {{<<i, k>> : k \in findMessage(bufs[i], owner)} : i \in DOMAIN bufs}
      BY <2>1 DEF electOldestOwned, Oldest
    <3>2. PICK i \in D : p \in {<<i, k>> : k \in findMessage(bufs[i], owner)}
      BY <1>0, <3>1
    <3>3. PICK k \in findMessage(bufs[i], owner) : p = <<i, k>>
      BY <3>2
    <3>4. /\ k \in DOMAIN bufs[i] /\ bufs[i][k].owner = owner
          /\ \A l \in 1 .. (k - 1) : bufs[i][l].owner # owner
      BY DEF findMessage
    <3>5. \A j \in DOMAIN bufs[i] : j < k => j \in 1 .. (k - 1)
      BY <1>1, <3>4
    <3> QED  BY <1>3, <3>3, <3>4, <3>5 DEF FrontGrant
  <2>2. CASE kind = "RR"
    <3>1. p \in RRElect(bufs, cand, idx).grant
      BY <2>2 DEF elect
    <3>2. \E owner : p \in electOldestOwned(bufs, owner)
      BY <3>1 DEF RRElect
    <3> QED  BY <2>1, <3>2
  <2>3. CASE kind # "RR"
    <3>1. p \in TDMElect(bufs, cand, idx, aligned).grant
      BY <1>3, <2>3 DEF elect
    <3>2. \E owner : p \in electOldestOwned(bufs, owner)
      <4>1. CASE aligned
        BY <3>1, <4>1 DEF TDMElect
      <4>2. CASE ~aligned
        BY <3>1, <4>2 DEF TDMElect
      <4> QED  BY <4>1, <4>2
    <3> QED  BY <2>1, <3>2
  <2> QED  BY <2>2, <2>3
<1> QED  BY <1>2, <1>3
=============================================================================
